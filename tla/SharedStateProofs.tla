------------------------- MODULE SharedStateProofs -------------------------
(***************************************************************************)
(* What threads share without asking each other, proved for every number   *)
(* of threads and callers, every bound of a cache, every lifetime and      *)
(* every time to live.  Each part has an invariant of its own; a behaviour *)
(* of SharedSpec is one of every part, because the parts that do not move  *)
(* stutter (Composition).                                                  *)
(*                                                                         *)
(*   IasTokens      IasCalmInv: where the mounted version has got to       *)
(*   HookPolling    HookIInv: how late it can be at each point             *)
(*   AicoreConfig   CalmOK: a reload copies the version that is mounted    *)
(*   GatewayTokens  GatewayIInv: fresh entries, and who counts for those   *)
(*                  that are over the bound                                *)
(*   UmsCache       UmsIInv: the entries are complete and of their keys    *)
(*                                                                         *)
(* AdmsCsrf has its proofs in a module of its own.                         *)
(***************************************************************************)
EXTENDS MCSharedState, AdmsCsrfProofs, SequenceTheorems, FiniteSetTheorems,
        WellFoundedInduction, TLAPS

-----------------------------------------------------------------------------
(* Composition *)

LEMMA ContainsIas == SharedSpec => Ias!Spec
<1>1. SharedInit => Ias!Init
  BY DEF SharedInit
<1>2. [SharedNext]_sharedVars => [Ias!Next]_(Ias!vars)
  BY DEF SharedNext, sharedVars, iasVars, Ias!vars, Ias!bindingVars, Ias!fetcherVars,
         Ias!localVars
<1> QED
  BY <1>1, <1>2, PTL DEF SharedSpec, Ias!Spec

LEMMA ContainsAdms == SharedSpec => Spec
<1>1. SharedInit => Init
  BY DEF SharedInit
<1>2. [SharedNext]_sharedVars => [Next]_vars
  BY DEF SharedNext, sharedVars
<1> QED
  BY <1>1, <1>2, PTL DEF SharedSpec, Spec

LEMMA ContainsGateway == SharedSpec => Gateway!Spec
<1>1. SharedInit => Gateway!Init
  BY DEF SharedInit
<1>2. [SharedNext]_sharedVars => [Gateway!Next]_(Gateway!gatewayVars)
  BY DEF SharedNext, sharedVars, gatewayVars, Gateway!gatewayVars
<1> QED
  BY <1>1, <1>2, PTL DEF SharedSpec, Gateway!Spec

LEMMA ContainsUms == SharedSpec => Ums!Spec
<1>1. SharedInit => Ums!Init
  BY DEF SharedInit
<1>2. [SharedNext]_sharedVars => [Ums!Next]_(Ums!umsVars)
  BY DEF SharedNext, sharedVars, umsVars, Ums!umsVars
<1> QED
  BY <1>1, <1>2, PTL DEF SharedSpec, Ums!Spec

LEMMA ContainsHook == SharedSpec => Hook!Spec
<1>1. SharedInit => Hook!Init
  BY DEF SharedInit
<1>2. [SharedNext]_sharedVars => [Hook!Next]_(Hook!hookVars)
  BY DEF SharedNext, sharedVars, hookVars, Hook!hookVars
<1> QED
  BY <1>1, <1>2, PTL DEF SharedSpec, Hook!Spec

LEMMA ContainsAicore == SharedSpec => Aicore!Spec
<1>1. SharedInit => Aicore!Init
  BY DEF SharedInit
<1>2. [SharedNext]_sharedVars => [Aicore!Next]_(Aicore!aicoreVars)
  BY DEF SharedNext, sharedVars, aicoreVars, Aicore!aicoreVars
<1> QED
  BY <1>1, <1>2, PTL DEF SharedSpec, Aicore!Spec

-----------------------------------------------------------------------------
(* IasTokens *)

LEMMA IasInitTypes == Ias!Init => Ias!TypeOK
  BY Bounds
  DEF Ias!Init, Ias!BindingInit, Ias!TypeOK, Ias!BindingTypeOK, Ias!Versions, Ias!Credentials,
      Ias!NothingRead, Ias!Labels

LEMMA IasKeepsTypes ==
  ASSUME Ias!TypeOK, [Ias!Next]_(Ias!vars)
  PROVE  Ias!TypeOK'
<1> USE Bounds
    DEF Ias!TypeOK, Ias!BindingTypeOK, Ias!Versions, Ias!Credentials, Ias!NothingRead,
        Ias!Labels,
        Ias!At, Ias!Goto, Ias!Idle, Ias!bindingVars, Ias!fetcherVars, Ias!localVars
<1>1. ASSUME NEW t \in Threads, NEW k \in Calls, Ias!Operation(t, k) PROVE Ias!TypeOK'
  BY <1>1 DEF Ias!Operation
<1>2. ASSUME NEW t \in Threads, Ias!StatBinding(t) PROVE Ias!TypeOK'
  BY <1>2 DEF Ias!StatBinding
<1>3. ASSUME NEW t \in Threads, Ias!CompareMtime(t) PROVE Ias!TypeOK'
  BY <1>3 DEF Ias!CompareMtime, Ias!Remember, Ias!MtimeChanged
<1>4. ASSUME NEW t \in Threads, Ias!ReadId(t) PROVE Ias!TypeOK'
  BY <1>4 DEF Ias!ReadId
<1>5. ASSUME NEW t \in Threads, Ias!ReadSecret(t) PROVE Ias!TypeOK'
  BY <1>5 DEF Ias!ReadSecret
<1>6. ASSUME NEW t \in Threads, Ias!ReadFails(t) PROVE Ias!TypeOK'
  BY <1>6 DEF Ias!ReadFails
<1>7. ASSUME NEW t \in Threads, Ias!SetConfig(t) PROVE Ias!TypeOK'
  BY <1>7 DEF Ias!SetConfig
<1>8. ASSUME NEW t \in Threads, Ias!ApplyId(t) PROVE Ias!TypeOK'
  BY <1>8 DEF Ias!ApplyId
<1>9. ASSUME NEW t \in Threads, Ias!ApplySecret(t) PROVE Ias!TypeOK'
  BY <1>9 DEF Ias!ApplySecret
<1>10. ASSUME NEW t \in Threads, Ias!NewCache(t) PROVE Ias!TypeOK'
  BY <1>10 DEF Ias!NewCache
<1>11. ASSUME NEW t \in Threads, Ias!Lookup(t) PROVE Ias!TypeOK'
  <2>1. /\ \/ /\ cached # NoToken
              /\ using' = [using EXCEPT ![t] = [id |-> cached.cred, secret |-> cached.cred]]
              /\ iasPc' = [iasPc EXCEPT ![t] = "use"]
              /\ cached' = cached
           \/ /\ cached' = NoToken
              /\ iasPc' = [iasPc EXCEPT ![t] = "payloadId"]
              /\ using' = using
        /\ UNCHANGED <<binding, accepted, lastMtime, config, fields, op, seen, read, calm>>
    BY <1>11 DEF Ias!Lookup
  <2>2. ASSUME cached # NoToken
        PROVE  [id |-> cached.cred, secret |-> cached.cred] \in Ias!Credentials
    BY <2>2
  <2>3. using' \in [Threads -> Ias!Credentials] /\ iasPc' \in [Threads -> Ias!Labels]
    <3> HIDE DEF Ias!Credentials
    <3> QED
      BY <2>1, <2>2
  <2>4. cached' \in [cred : Ias!Versions, live : BOOLEAN] \cup {NoToken}
    BY <2>1, Zenon
  <2> QED
    BY <2>1, <2>3, <2>4
<1>12. ASSUME NEW t \in Threads, Ias!PayloadId(t) PROVE Ias!TypeOK'
  BY <1>12 DEF Ias!PayloadId
<1>13. ASSUME NEW t \in Threads, Ias!PayloadSecret(t) PROVE Ias!TypeOK'
  BY <1>13 DEF Ias!PayloadSecret
<1>14. ASSUME NEW t \in Threads, Ias!Fetched(t) \/ Ias!FetchRefused(t) \/ Ias!FetchFails(t)
       PROVE  Ias!TypeOK'
  BY <1>14 DEF Ias!Fetched, Ias!FetchRefused, Ias!FetchFails
<1>15. ASSUME NEW t \in Threads, Ias!StoreToken(t) PROVE Ias!TypeOK'
  BY <1>15 DEF Ias!StoreToken
<1>16. ASSUME NEW t \in Threads, Ias!Unauthorized(t) PROVE Ias!TypeOK'
  BY <1>16 DEF Ias!Unauthorized
<1>17. ASSUME NEW t \in Threads, Ias!Succeeds(t) \/ Ias!RaiseError(t) PROVE Ias!TypeOK'
  <2>1. /\ op' = [op EXCEPT ![t] = Ias!NoCall]
        /\ read' = [read EXCEPT ![t] = Ias!NothingRead]
        /\ using' = [using EXCEPT ![t] = Ias!NothingRead]
        /\ calm' = [calm EXCEPT ![t] = FALSE]
        /\ iasPc' = [iasPc EXCEPT ![t] = "idle"]
        /\ UNCHANGED <<binding, accepted, lastMtime, config, fields, cached, seen>>
    BY <1>17 DEF Ias!Succeeds, Ias!RaiseError, Ias!Done
  <2> QED
    BY <2>1 DEF Ias!NoCall
<1>18. CASE Ias!Platform
  <2>1. binding' \in Ias!Versions /\ lastMtime' = lastMtime
    BY <1>18 DEF Ias!Platform, Ias!RotateBinding, Ias!RevokeOld
  <2>2. accepted' \subseteq accepted \cup {binding, binding'}
    BY <1>18 DEF Ias!Platform, Ias!RotateBinding, Ias!RevokeOld
  <2>3. calm' \in [Threads -> BOOLEAN]
    BY <1>18 DEF Ias!Platform
  <2> QED
    BY <1>18, <2>1, <2>2, <2>3 DEF Ias!Platform
<1>19. CASE Ias!Expire
  BY <1>19 DEF Ias!Expire
<1>20. CASE UNCHANGED Ias!vars
  BY <1>20 DEF Ias!vars
<1> QED
  BY <1>1, <1>2, <1>3, <1>4, <1>5, <1>6, <1>7, <1>8, <1>9, <1>10,
     <1>11, <1>12, <1>13, <1>14, <1>15, <1>16, <1>17, <1>18, <1>19, <1>20 DEF Ias!Next, Ias!Step

LEMMA IasTypes == Ias!Spec => []Ias!TypeOK
<1>1. Ias!TypeOK /\ [Ias!Next]_(Ias!vars) => Ias!TypeOK'
  BY IasKeepsTypes
<1> QED
  BY <1>1, IasInitTypes, PTL DEF Ias!Spec

-----------------------------------------------------------------------------
(***************************************************************************)
(* A get_token that is calm is the only one, on a binding that does not    *)
(* change; an exchange reads the fields and writes none.  From the factory *)
(* on, each statement has carried the mounted version one place further,   *)
(* to the token the get_token ends with.                                   *)
(***************************************************************************)
Mountedly(c) == c.id = binding /\ c.secret = binding

Applied == {"lookup", "payloadId", "payloadSecret", "fetch", "store", "use", "rejected"}

\* where only a get_token can be
OfService == {"stat", "compare", "readId", "readSecret", "setConfig", "applyId", "applySecret",
              "newCache", "lookup", "store"}

IasCalmOK(t) ==
    calm[t] =>
        /\ op[t] = "service" /\ ~Ias!Idle(t)
        /\ \A u \in Threads : u # t => op[u] # "service"
        /\ Ias!At(t, "readSecret") => read[t].id = binding
        /\ Ias!At(t, "setConfig") => Mountedly(read[t])
        /\ Ias!At(t, "applyId") => Mountedly(config)
        /\ Ias!At(t, "applySecret") => Mountedly(config) /\ fields.id = binding
        /\ iasPc[t] \in {"newCache"} \cup Applied => Mountedly(fields)
        /\ Ias!At(t, "lookup") => cached = NoToken
        /\ Ias!At(t, "payloadSecret") => using[t].id = binding
        /\ iasPc[t] \in {"fetch", "store", "use", "rejected"} => Mountedly(using[t])

IasCalmInv == \A t \in Threads : IasCalmOK(t) /\ (iasPc[t] \in OfService => op[t] = "service")

LEMMA IasInitCalm == Ias!Init => IasCalmInv
<1>1. ASSUME Ias!Init, NEW t \in Threads PROVE ~calm[t] /\ iasPc[t] \notin OfService
  BY <1>1 DEF Ias!Init, OfService
<1> QED
  BY <1>1 DEF IasCalmInv, IasCalmOK

LEMMA IasKeepsCalm ==
  ASSUME Ias!TypeOK, IasCalmInv, [Ias!Next]_(Ias!vars)
  PROVE  IasCalmInv'
<1> USE DEF Ias!TypeOK, Ias!BindingTypeOK, IasCalmInv, IasCalmOK, Mountedly, Applied, OfService,
        Ias!Credentials, Ias!NothingRead, Ias!At, Ias!Goto, Ias!Idle,
        Ias!bindingVars, Ias!fetcherVars, Ias!localVars
<1>1. ASSUME NEW t \in Threads, NEW k \in Calls, Ias!Operation(t, k) PROVE IasCalmInv'
  <2>1. /\ iasPc[t] = "idle" /\ op' = [op EXCEPT ![t] = k]
        /\ UNCHANGED <<binding, config, fields, cached, read, using>>
    BY <1>1 DEF Ias!Operation
  <2>2. CASE k = "user"
    <3>1. iasPc' = [iasPc EXCEPT ![t] = "payloadId"] /\ calm' = calm
      BY <1>1, <2>2 DEF Ias!Operation
    <3>2. ~calm[t]
      BY <2>1
    <3> QED
      BY <2>1, <2>2, <3>1, <3>2
  <2>3. CASE k # "user"
    <3>1. k = "service"
      BY <2>3, Bounds DEF Ias!CallsAssumption
    <3>2. iasPc' = [iasPc EXCEPT ![t] = IF Mounted THEN "stat" ELSE "lookup"]
      BY <1>1, <2>3 DEF Ias!Operation
    <3>3. calm' = [u \in Threads |-> u = t /\ Mounted /\ \A v \in Threads : op[v] # "service"]
      BY <1>1, <2>3 DEF Ias!Operation
    <3>4. \A u \in Threads : calm'[u] => u = t /\ Mounted /\ \A v \in Threads : op[v] # "service"
      BY <3>3, Zenon
    <3> QED
      BY <2>1, <3>1, <3>2, <3>4
  <2> QED
    BY <2>2, <2>3
<1>2. ASSUME NEW t \in Threads, Ias!StatBinding(t) PROVE IasCalmInv'
  BY <1>2 DEF Ias!StatBinding
<1>3. ASSUME NEW t \in Threads, Ias!CompareMtime(t) PROVE IasCalmInv'
  BY <1>3 DEF Ias!CompareMtime, Ias!Remember, Ias!MtimeChanged
<1>4. ASSUME NEW t \in Threads, Ias!ReadId(t) PROVE IasCalmInv'
  BY <1>4 DEF Ias!ReadId
<1>5. ASSUME NEW t \in Threads, Ias!ReadSecret(t) PROVE IasCalmInv'
  BY <1>5 DEF Ias!ReadSecret
<1>6. ASSUME NEW t \in Threads, Ias!ReadFails(t) PROVE IasCalmInv'
  BY <1>6 DEF Ias!ReadFails
<1>7. ASSUME NEW t \in Threads, Ias!SetConfig(t) PROVE IasCalmInv'
  BY <1>7 DEF Ias!SetConfig
<1>8. ASSUME NEW t \in Threads, Ias!ApplyId(t) PROVE IasCalmInv'
  BY <1>8 DEF Ias!ApplyId
<1>9. ASSUME NEW t \in Threads, Ias!ApplySecret(t) PROVE IasCalmInv'
  BY <1>9 DEF Ias!ApplySecret
<1>10. ASSUME NEW t \in Threads, Ias!NewCache(t) PROVE IasCalmInv'
  BY <1>10 DEF Ias!NewCache
<1>11. ASSUME NEW t \in Threads, Ias!Lookup(t) PROVE IasCalmInv'
  BY <1>11 DEF Ias!Lookup
<1>12. ASSUME NEW t \in Threads, Ias!PayloadId(t) PROVE IasCalmInv'
  BY <1>12 DEF Ias!PayloadId
<1>13. ASSUME NEW t \in Threads, Ias!PayloadSecret(t) PROVE IasCalmInv'
  BY <1>13 DEF Ias!PayloadSecret
<1>14. ASSUME NEW t \in Threads, Ias!Fetched(t) \/ Ias!FetchRefused(t) \/ Ias!FetchFails(t)
       PROVE  IasCalmInv'
  BY <1>14 DEF Ias!Fetched, Ias!FetchRefused, Ias!FetchFails
<1>15. ASSUME NEW t \in Threads, Ias!StoreToken(t) PROVE IasCalmInv'
  BY <1>15 DEF Ias!StoreToken
<1>16. ASSUME NEW t \in Threads, Ias!Unauthorized(t) PROVE IasCalmInv'
  BY <1>16 DEF Ias!Unauthorized
<1>17. ASSUME NEW t \in Threads, Ias!Succeeds(t) \/ Ias!RaiseError(t) PROVE IasCalmInv'
  <2>1. /\ op' = [op EXCEPT ![t] = Ias!NoCall]
        /\ read' = [read EXCEPT ![t] = Ias!NothingRead]
        /\ using' = [using EXCEPT ![t] = Ias!NothingRead]
        /\ calm' = [calm EXCEPT ![t] = FALSE]
        /\ iasPc' = [iasPc EXCEPT ![t] = "idle"]
        /\ UNCHANGED <<binding, accepted, lastMtime, config, fields, cached, seen>>
    BY <1>17 DEF Ias!Succeeds, Ias!RaiseError, Ias!Done
  <2> QED
    BY <2>1 DEF Ias!NoCall
<1>18. CASE Ias!Platform
  BY <1>18 DEF Ias!Platform, Ias!RotateBinding, Ias!RevokeOld
<1>19. CASE Ias!Expire
  BY <1>19 DEF Ias!Expire
<1>20. CASE UNCHANGED Ias!vars
  BY <1>20 DEF Ias!vars
<1> QED
  BY <1>1, <1>2, <1>3, <1>4, <1>5, <1>6, <1>7, <1>8, <1>9, <1>10,
     <1>11, <1>12, <1>13, <1>14, <1>15, <1>16, <1>17, <1>18, <1>19, <1>20 DEF Ias!Next, Ias!Step

LEMMA NoticedRotations == Ias!Spec => []Ias!NoticedRotationIsApplied
<1>1. Ias!Spec => []IasCalmInv
  <2>1. Ias!TypeOK /\ IasCalmInv /\ [Ias!Next]_(Ias!vars) => IasCalmInv'
    BY IasKeepsCalm
  <2> QED
    BY <2>1, IasInitCalm, IasTypes, PTL DEF Ias!Spec
<1>2. Ias!TypeOK /\ IasCalmInv => Ias!NoticedRotationIsApplied
  BY DEF Ias!TypeOK, Ias!Credentials, IasCalmInv, IasCalmOK, Ias!NoticedRotationIsApplied,
         Mountedly
<1> QED
  BY <1>1, <1>2, IasTypes, PTL

-----------------------------------------------------------------------------
(* HookPolling *)

(***************************************************************************)
(* How late it can be at each point.  The deadline is set by the answer to *)
(* the first request; a poll begins one interval after a time before it.   *)
(***************************************************************************)
OnTime ==
    /\ hookPc = "execute" => elapsed = 0
    /\ hookPc \in {"loop", "poll"} => deadline <= RequestTime + HookTimeout
    /\ hookPc = "loop" => elapsed <= deadline + Hook!Interval + RequestTime
    /\ hookPc = "poll" => elapsed <= deadline + Hook!Interval

HookIInv == Hook!TypeOK /\ OnTime /\ Hook!CallsEndInTime

LEMMA HookInit ==
  ASSUME Hook!HookAssumption
  PROVE  Hook!Init => HookIInv
  BY DEF Hook!HookAssumption, Hook!Init, HookIInv, Hook!TypeOK, OnTime,
         Hook!CallsEndInTime, Hook!Interval

LEMMA HookKeepsIInv ==
  ASSUME Hook!HookAssumption, HookIInv, [Hook!Next]_(Hook!hookVars)
  PROVE  HookIInv'
<1> USE DEF Hook!HookAssumption, HookIInv, Hook!TypeOK, OnTime, Hook!CallsEndInTime,
            Hook!Interval
<1>0. "running" \in Hook!Statuses /\ "success" \notin Hook!Terminal \cup Hook!Running
  BY DEF Hook!Statuses, Hook!Running, Hook!Terminal
<1>1. ASSUME NEW n \in 0 .. RequestTime, Hook!Passes(n)
      PROVE  elapsed' = elapsed + n /\ workflow' \in Hook!Statuses
  BY <1>1 DEF Hook!Passes
<1>2. CASE Hook!Call
  BY <1>0, <1>2 DEF Hook!Call
<1>3. CASE Hook!Execute
  <2>1. PICK n \in 0 .. RequestTime : Hook!Passes(n)
    BY <1>3 DEF Hook!Execute
  <2>2. elapsed' = elapsed + n /\ workflow' \in Hook!Statuses
    BY <1>1, <2>1
  <2>3. /\ hookPc = "execute" /\ status' = workflow'
        /\ \/ hookPc' = "raised" /\ deadline' = deadline
           \/ hookPc' = "loop" /\ deadline' = elapsed' + HookTimeout
    BY <1>3 DEF Hook!Execute
  <2> QED
    BY <2>2, <2>3
<1>4. CASE Hook!Loop
  <2>1. /\ hookPc = "loop" /\ UNCHANGED <<deadline, status>>
        /\ \/ elapsed < deadline /\ hookPc' = "poll" /\ Hook!Passes(Hook!Interval)
           \/ hookPc' = "raised" /\ UNCHANGED <<elapsed, workflow>>
    BY <1>4 DEF Hook!Loop
  <2>2. Hook!Passes(Hook!Interval) => elapsed' = elapsed + 1 /\ workflow' \in Hook!Statuses
    BY DEF Hook!Passes
  <2> QED
    BY <2>1, <2>2
<1>5. CASE Hook!Poll
  <2>1. PICK n \in 0 .. RequestTime : Hook!Passes(n)
    BY <1>5 DEF Hook!Poll
  <2>2. elapsed' = elapsed + n /\ workflow' \in Hook!Statuses
    BY <1>1, <2>1
  <2>3. /\ hookPc = "poll" /\ status' = workflow' /\ deadline' = deadline
        /\ \/ hookPc' = "returned" /\ workflow' = "success"
           \/ hookPc' \in {"raised", "loop"}
    BY <1>5 DEF Hook!Poll
  <2> QED
    BY <2>2, <2>3
<1>6. CASE Hook!RequestFails
  <2>1. PICK n \in 0 .. RequestTime : Hook!Passes(n)
    BY <1>6 DEF Hook!RequestFails
  <2>2. elapsed' = elapsed + n /\ workflow' \in Hook!Statuses
    BY <1>1, <2>1
  <2> QED
    BY <1>6, <2>2 DEF Hook!RequestFails
<1>7. CASE UNCHANGED Hook!hookVars
  BY <1>7 DEF Hook!hookVars
<1> QED
  BY <1>2, <1>3, <1>4, <1>5, <1>6, <1>7 DEF Hook!Next

LEMMA HookInductive == Hook!Spec => []HookIInv
<1>1. Hook!HookAssumption
  BY Bounds
<1>2. Hook!Init => HookIInv
  BY <1>1, HookInit
<1>3. HookIInv /\ [Hook!Next]_(Hook!hookVars) => HookIInv'
  BY <1>1, HookKeepsIInv
<1> QED
  BY <1>2, <1>3, PTL DEF Hook!Spec

-----------------------------------------------------------------------------
(* AicoreConfig *)

LEMMA AicoreBounds == Rotations \in Nat /\ Aicore!Watcher \notin Completions
  BY Bounds DEF Aicore!AicoreAssumption

AicoreThreads == Completions \cup {Aicore!Watcher}

AicoreLabels == {"read", "writeId", "readSecret", "writeSecret", "refilter", "remember",
                 "readEnv", "readEnvSecret", "transform", "attach", "send", "streaming",
                 "ended", "refused", "rawInput", "rawStream"}

Jobs == [pc : AicoreLabels, tried : BOOLEAN, pair : Aicore!Pairs, seen : Aicore!Secrets,
         filter : Aicore!Filters, wrapped : BOOLEAN, calm : BOOLEAN]

JobsOK == job \in [AicoreThreads -> Jobs]

OneVersion(p, v) == p.id = v /\ p.secret = v

ReloadIsCurrent(j, e) ==
    /\ j.pc = "writeId" =>
          j.pair.id = mounted /\ (aicoreMode = "destination" => j.pair.secret = mounted)
    /\ j.pc = "readSecret" => e.id = mounted
    /\ j.pc = "writeSecret" => e.id = mounted /\ j.pair.secret = mounted
    /\ j.pc = "refilter" => OneVersion(e, mounted)

RetryIsCurrent(j, e) ==
    /\ j.pc # "refused"
    /\ j.tried =>
          /\ j.pc = "readEnv" => OneVersion(e, mounted)
          /\ j.pc = "readEnvSecret" => j.pair.id = mounted /\ e.secret = mounted
          /\ j.pc \in {"transform", "attach", "send"} => OneVersion(j.pair, mounted)

AnyCalm == \E t \in Completions : job[t].calm

CalmOK ==
    /\ AnyCalm => \A u \in AicoreThreads : ReloadIsCurrent(job[u], env)
    /\ \A t \in Completions : job[t].calm => RetryIsCurrent(job[t], env)

AicoreIInv == Aicore!TypeOK /\ JobsOK /\ CalmOK

LEMMA AicoreInit == Aicore!Init => AicoreIInv
<1> SUFFICES ASSUME Aicore!Init PROVE AicoreIInv
  OBVIOUS
<1> USE AicoreBounds DEF Aicore!Init, AicoreThreads
<1>1. Aicore!NoJob \in Jobs /\ Aicore!NoJob.calm = FALSE
  BY DEF Aicore!NoJob, Jobs, AicoreLabels, Aicore!Pairs, Aicore!Secrets, Aicore!Filters,
         Aicore!Both
<1>2. JobsOK
  BY <1>1 DEF JobsOK
<1>3. CalmOK
  BY <1>1 DEF CalmOK, AnyCalm
<1>4. Aicore!TypeOK
  BY <1>1 DEF Aicore!TypeOK, Jobs, Aicore!Pairs, Aicore!Secrets, Aicore!Filters, Aicore!Both
<1> QED
  BY <1>2, <1>3, <1>4 DEF AicoreIInv

\* What is not a job
SharedOK ==
    /\ aicoreMode \in {"direct", "destination"}
    /\ mounted \in Aicore!Secrets /\ usable \subseteq Aicore!Secrets /\ mounted \in usable
    /\ env \in Aicore!Pairs /\ watched \in Aicore!Secrets
    /\ filter \in Aicore!Filters

LEMMA AicoreTyped == JobsOK => (SharedOK <=> Aicore!TypeOK)
  BY DEF JobsOK, Jobs, SharedOK, Aicore!TypeOK

\* One thread moves
LEMMA OneJobMoves ==
  ASSUME JobsOK, CalmOK, UNCHANGED <<aicoreMode, mounted>>,
         NEW t \in AicoreThreads, NEW j \in Jobs, job' = [job EXCEPT ![t] = j],
         AnyCalm => env'.id \in {env.id, mounted} /\ env'.secret \in {env.secret, mounted},
         AnyCalm \/ (t \in Completions /\ j.calm) =>
            /\ \A u \in AicoreThreads : ReloadIsCurrent(job[u], env)
            /\ ReloadIsCurrent(j, env'),
         j.calm /\ t \in Completions =>
            /\ RetryIsCurrent(j, env')
            /\ env'.id \in {env.id, mounted} /\ env'.secret \in {env.secret, mounted}
  PROVE  JobsOK' /\ CalmOK'
<1>1. /\ JobsOK'
      /\ job'[t] = j
      /\ \A u \in AicoreThreads : u # t => job'[u] = job[u]
  BY DEF JobsOK
<1>2. ASSUME AnyCalm' PROVE AnyCalm \/ (t \in Completions /\ j.calm)
  BY <1>1, <1>2 DEF AnyCalm, AicoreThreads
<1>3. ASSUME AnyCalm', NEW u \in AicoreThreads PROVE ReloadIsCurrent(job[u], env)'
  <2>1. CASE u = t
    BY <1>1, <1>2, <1>3, <2>1 DEF ReloadIsCurrent, OneVersion
  <2>2. CASE u # t
    <3>1. ReloadIsCurrent(job[u], env)
      BY <1>2, <1>3
    <3>2. env'.id \in {env.id, mounted} /\ env'.secret \in {env.secret, mounted}
      BY <1>2, <1>3
    <3>3. job'[u] = job[u]
      BY <1>1, <2>2
    <3> QED
      BY <3>1, <3>2, <3>3 DEF ReloadIsCurrent, OneVersion
  <2> QED
    BY <2>1, <2>2
<1>4. ASSUME NEW u \in Completions, job'[u].calm PROVE RetryIsCurrent(job[u], env)'
  <2>1. CASE u = t
    BY <1>1, <1>4, <2>1 DEF RetryIsCurrent, OneVersion
  <2>2. CASE u # t
    <3>1. job'[u] = job[u]
      BY <1>1, <2>2 DEF AicoreThreads
    <3>2. RetryIsCurrent(job[u], env)
      BY <3>1, <1>4 DEF CalmOK
    <3>3. env'.id \in {env.id, mounted} /\ env'.secret \in {env.secret, mounted}
      BY <1>4, <3>1 DEF AnyCalm
    <3> QED
      BY <3>1, <3>2, <3>3 DEF RetryIsCurrent, OneVersion
  <2> QED
    BY <2>1, <2>2
<1> QED
  BY <1>1, <1>3, <1>4 DEF CalmOK, ReloadIsCurrent, RetryIsCurrent, OneVersion

\* nobody stays calm
LEMMA NobodyCalm ==
  ASSUME JobsOK, job' = Aicore!Disturbed
  PROVE  JobsOK' /\ CalmOK'
  BY DEF JobsOK, CalmOK, AnyCalm, Aicore!Disturbed, Jobs, AicoreThreads

LEMMA OneFailsToRead ==
  ASSUME JobsOK, NEW t \in AicoreThreads, NEW j \in Jobs, ~j.calm,
         job' = [Aicore!Disturbed EXCEPT ![t] = j]
  PROVE  JobsOK' /\ CalmOK'
  BY DEF JobsOK, CalmOK, AnyCalm, Aicore!Disturbed, Jobs, AicoreThreads

\* k is the job j, but at l and with the pair p
IsMoved(k, j, l, p) ==
    k \in Jobs /\ k.pc = l /\ k.pair = p /\ k.tried = j.tried /\ k.calm = j.calm

\* k is a job that has just begun, or ended, at l
IsNew(k, l, tried, calmly) == k \in Jobs /\ k.pc = l /\ k.tried = tried /\ k.calm = calmly

LEMMA JobAt ==
  ASSUME NEW j \in Jobs, NEW l \in AicoreLabels
  PROVE  IsMoved([j EXCEPT !.pc = l], j, l, j.pair)
  BY DEF Jobs, IsMoved

LEMMA JobWithPair ==
  ASSUME NEW j \in Jobs, NEW l \in AicoreLabels, NEW p \in Aicore!Pairs
  PROVE  IsMoved([j EXCEPT !.pc = l, !.pair = p], j, l, p)
  BY DEF Jobs, IsMoved

LEMMA JobWithFilter ==
  ASSUME NEW j \in Jobs, NEW l \in AicoreLabels, NEW f \in Aicore!Filters
  PROVE  IsMoved([j EXCEPT !.filter = f, !.pc = l], j, l, j.pair)
  BY DEF Jobs, IsMoved

LEMMA JobDisturbed ==
  ASSUME NEW j \in Jobs, NEW l \in AicoreLabels, NEW p \in Aicore!Pairs,
         NEW k, k = [j EXCEPT !.calm = FALSE, !.pc = l, !.pair = p]
  PROVE  k \in Jobs /\ ~k.calm
  BY DEF Jobs

LEMMA NoJobIsAJob == IsNew(Aicore!NoJob, "ended", FALSE, FALSE)
  BY AicoreBounds DEF Jobs, Aicore!NoJob, Aicore!Pairs, Aicore!Secrets, Aicore!Filters,
     Aicore!Both, AicoreLabels, IsNew

LEMMA JobEnded ==
  ASSUME NEW l \in AicoreLabels, NEW c \in BOOLEAN
  PROVE  IsNew([Aicore!NoJob EXCEPT !.pc = l, !.calm = c], l, FALSE, c)
<1> DEFINE n == Aicore!NoJob
<1>1. n \in Jobs /\ ~n.tried
  BY NoJobIsAJob DEF IsNew
<1> HIDE DEF n
<1>2. IsNew([n EXCEPT !.pc = l, !.calm = c], l, FALSE, c)
  BY <1>1 DEF Jobs, IsNew
<1> QED
  BY <1>2 DEF n

LEMMA EndKeepsCalm ==
  ASSUME JobsOK, CalmOK, UNCHANGED <<aicoreMode, mounted, env>>,
         NEW t \in AicoreThreads, NEW l \in {"ended", "refused", "rawInput", "rawStream"}, Aicore!End(t, l),
         l = "refused" => ~job[t].calm
  PROVE  JobsOK' /\ CalmOK'
<1> DEFINE c == job[t].calm /\ l = "refused"
           j == [Aicore!NoJob EXCEPT !.pc = l, !.calm = c]
<1>1. job' = [job EXCEPT ![t] = j]
  BY DEF Aicore!End
<1>2. c \in BOOLEAN /\ ~c /\ l \in AicoreLabels
  BY DEF JobsOK, Jobs, AicoreLabels
<1>3. IsNew(j, l, FALSE, c)
  <2> HIDE DEF c
  <2> QED
    BY <1>2, JobEnded, Zenon
<1> HIDE DEF c, j
<1>4. j \in Jobs /\ ~j.calm /\ ReloadIsCurrent(j, env')
  BY <1>2, <1>3 DEF ReloadIsCurrent, IsNew
<1>5. AnyCalm => \A u \in AicoreThreads : ReloadIsCurrent(job[u], env)
  BY DEF CalmOK
<1> QED
  BY <1>1, <1>4, <1>5, OneJobMoves

LEMMA AicoreKeepsIInv ==
  ASSUME SharedOK, JobsOK, CalmOK, [Aicore!Next]_(Aicore!aicoreVars)
  PROVE  SharedOK' /\ JobsOK' /\ CalmOK'
<1> USE AicoreBounds DEF AicoreThreads
<1>0. ASSUME NEW t \in AicoreThreads PROVE job[t] \in Jobs /\ job[t].pair \in Aicore!Pairs
  BY DEF JobsOK, Jobs
<1>a. /\ \A v \in Aicore!Secrets : Aicore!Both(v) \in Aicore!Pairs /\ OneVersion(Aicore!Both(v), v)
      /\ \A p \in Aicore!Pairs, v \in Aicore!Secrets :
            [p EXCEPT !.id = v] \in Aicore!Pairs /\ [p EXCEPT !.secret = v] \in Aicore!Pairs
      /\ \A p \in Aicore!Pairs : p.id \in Aicore!Secrets /\ p.secret \in Aicore!Secrets
      /\ 0 \in Aicore!Secrets /\ mounted \in Aicore!Secrets
  BY DEF Aicore!Pairs, Aicore!Both, OneVersion, Aicore!Secrets, SharedOK
<1>c. AnyCalm => \A u \in AicoreThreads : ReloadIsCurrent(job[u], env)
  BY DEF CalmOK
<1>d. ASSUME NEW t \in Completions, job[t].calm
      PROVE  AnyCalm /\ RetryIsCurrent(job[t], env) /\ ReloadIsCurrent(job[t], env)
  BY <1>d DEF CalmOK, AnyCalm
<1>1. ASSUME NEW t \in AicoreThreads, Aicore!Read(t) PROVE SharedOK' /\ JobsOK' /\ CalmOK'
  <2> DEFINE p == IF aicoreMode = "destination" THEN Aicore!Both(mounted)
                  ELSE [job[t].pair EXCEPT !.id = mounted]
             j == [job[t] EXCEPT !.pc = "writeId", !.pair = p]
  <2>1. /\ job' = [job EXCEPT ![t] = j]
        /\ UNCHANGED <<aicoreMode, mounted, usable, env, watched, filter>>
    BY <1>1 DEF Aicore!Read, JobsOK
  <2>2. p \in Aicore!Pairs /\ p.id = mounted /\ (aicoreMode = "destination" => p.secret = mounted)
    BY <1>0, <1>a DEF Aicore!Pairs, OneVersion
  <2> HIDE DEF p
  <2>3. IsMoved(j, job[t], "writeId", p)
    BY <1>0, <2>2, JobWithPair, Zenon DEF AicoreLabels
  <2> HIDE DEF j
  <2>4. ReloadIsCurrent(j, env') /\ RetryIsCurrent(j, env')
    BY <2>2, <2>3 DEF ReloadIsCurrent, RetryIsCurrent, IsMoved
  <2>5. JobsOK' /\ CalmOK'
    BY <1>c, <1>d, <2>1, <2>3, <2>4, OneJobMoves DEF IsMoved
  <2> QED
    BY <2>1, <2>5 DEF SharedOK
<1>2. ASSUME NEW t \in AicoreThreads, Aicore!ReadFails(t) PROVE SharedOK' /\ JobsOK' /\ CalmOK'
  <2> DEFINE p == [job[t].pair EXCEPT !.id = env.id]
             j == IF aicoreMode = "destination" THEN Aicore!NoJob
                  ELSE [job[t] EXCEPT !.calm = FALSE, !.pc = "writeId", !.pair = p]
  <2>1. /\ job' = [Aicore!Disturbed EXCEPT ![t] = j]
        /\ UNCHANGED <<aicoreMode, mounted, usable, env, watched, filter>>
    BY <1>2 DEF Aicore!ReadFails, JobsOK, Aicore!Disturbed
  <2>2. p \in Aicore!Pairs
    BY <1>0, <1>a DEF SharedOK
  <2>3. Aicore!NoJob \in Jobs /\ ~Aicore!NoJob.calm
    BY NoJobIsAJob DEF IsNew
  <2> HIDE DEF p
  <2>4. j \in Jobs /\ ~j.calm
    <3> DEFINE k == [job[t] EXCEPT !.calm = FALSE, !.pc = "writeId", !.pair = p]
    <3>1. k \in Jobs /\ ~k.calm
      BY <1>0, <2>2, JobDisturbed, Zenon DEF AicoreLabels
    <3> QED
      BY <2>3, <3>1, Zenon
  <2> HIDE DEF j
  <2> QED
    BY <2>1, <2>4, OneFailsToRead DEF SharedOK
<1>3. ASSUME NEW t \in AicoreThreads, Aicore!WriteId(t) PROVE SharedOK' /\ JobsOK' /\ CalmOK'
  <2> DEFINE l == IF aicoreMode = "destination" THEN "writeSecret" ELSE "readSecret"
             j == [job[t] EXCEPT !.pc = l]
  <2>1. /\ job[t].pc = "writeId" /\ job' = [job EXCEPT ![t] = j]
        /\ env' = [env EXCEPT !.id = job[t].pair.id]
        /\ UNCHANGED <<aicoreMode, mounted, usable, watched, filter>>
    BY <1>3 DEF Aicore!WriteId, Aicore!At, Aicore!Goto, JobsOK
  <2>a. l \in AicoreLabels
    BY DEF AicoreLabels
  <2>2. IsMoved(j, job[t], l, job[t].pair)
    <3> HIDE DEF l
    <3> QED
      BY <1>0, <2>a, JobAt, Zenon
  <2>3. env' \in Aicore!Pairs /\ env'.id = job[t].pair.id /\ env'.secret = env.secret
    BY <1>0, <2>1 DEF SharedOK, Aicore!Pairs
  <2>4. AnyCalm => env'.id = mounted
    BY <1>c, <2>1, <2>3 DEF ReloadIsCurrent
  <2> HIDE DEF j
  <2>5. /\ AnyCalm => ReloadIsCurrent(j, env')
        /\ RetryIsCurrent(j, env')
    BY <1>c, <2>1, <2>2, <2>4 DEF ReloadIsCurrent, RetryIsCurrent, IsMoved
  <2>6. JobsOK' /\ CalmOK'
    BY <1>c, <1>d, <2>1, <2>2, <2>3, <2>4, <2>5, OneJobMoves DEF IsMoved
  <2> QED
    BY <2>1, <2>3, <2>6 DEF SharedOK
<1>4. ASSUME NEW t \in AicoreThreads, Aicore!ReadSecret(t) PROVE SharedOK' /\ JobsOK' /\ CalmOK'
  <2>1. UNCHANGED <<aicoreMode, mounted, usable, env, watched, filter>> /\ job[t].pc = "readSecret"
    BY <1>4 DEF Aicore!ReadSecret, Aicore!At
  <2>2. CASE job' = [job EXCEPT ![t].pc = "writeSecret", ![t].pair.secret = mounted]
    <3> DEFINE p == [job[t].pair EXCEPT !.secret = mounted]
               j == [job[t] EXCEPT !.pc = "writeSecret", !.pair = p]
    <3>1. job' = [job EXCEPT ![t] = j]
      BY <2>2 DEF JobsOK
    <3>2. p \in Aicore!Pairs /\ p.secret = mounted
      BY <1>0, <1>a DEF Aicore!Pairs
    <3> HIDE DEF p
    <3>3. IsMoved(j, job[t], "writeSecret", p)
      BY <1>0, <3>2, JobWithPair, Zenon DEF AicoreLabels
    <3> HIDE DEF j
    <3>4. /\ AnyCalm => ReloadIsCurrent(j, env')
          /\ RetryIsCurrent(j, env')
      BY <1>c, <2>1, <3>2, <3>3 DEF ReloadIsCurrent, RetryIsCurrent, IsMoved
    <3>5. JobsOK' /\ CalmOK'
      BY <1>c, <1>d, <2>1, <3>1, <3>3, <3>4, OneJobMoves DEF IsMoved
    <3> QED
      BY <2>1, <3>5 DEF SharedOK
  <2>3. CASE job' = [Aicore!Disturbed EXCEPT ![t].pc = "writeSecret", ![t].pair.secret = env.secret]
    <3> DEFINE p == [job[t].pair EXCEPT !.secret = env.secret]
               j == [job[t] EXCEPT !.calm = FALSE, !.pc = "writeSecret", !.pair = p]
    <3>1. job' = [Aicore!Disturbed EXCEPT ![t] = j]
      BY <2>3 DEF JobsOK, Aicore!Disturbed
    <3>2. p \in Aicore!Pairs
      BY <1>0, <1>a DEF SharedOK
    <3> HIDE DEF p
    <3>3. j \in Jobs /\ ~j.calm
      BY <1>0, <3>2, JobDisturbed, Zenon DEF AicoreLabels
    <3> HIDE DEF j
    <3> QED
      BY <2>1, <3>1, <3>3, OneFailsToRead DEF SharedOK
  <2> QED
    BY <1>4, <2>2, <2>3 DEF Aicore!ReadSecret
<1>5. ASSUME NEW t \in AicoreThreads, Aicore!WriteSecret(t) PROVE SharedOK' /\ JobsOK' /\ CalmOK'
  <2> DEFINE j == [job[t] EXCEPT !.pc = "refilter", !.pair = Aicore!Both(0)]
  <2>1. /\ job[t].pc = "writeSecret" /\ job' = [job EXCEPT ![t] = j]
        /\ env' = [env EXCEPT !.secret = job[t].pair.secret]
        /\ UNCHANGED <<aicoreMode, mounted, usable, watched, filter>>
    BY <1>5 DEF Aicore!WriteSecret, Aicore!At, JobsOK
  <2>2. IsMoved(j, job[t], "refilter", Aicore!Both(0))
    BY <1>0, <1>a, JobWithPair, Zenon DEF AicoreLabels
  <2>3. env' \in Aicore!Pairs /\ env'.secret = job[t].pair.secret /\ env'.id = env.id
    BY <1>0, <2>1 DEF SharedOK, Aicore!Pairs
  <2> HIDE DEF j
  <2>4. AnyCalm => OneVersion(env', mounted)
    BY <1>c, <2>1, <2>3 DEF ReloadIsCurrent, OneVersion
  <2>5. /\ AnyCalm => ReloadIsCurrent(j, env')
        /\ RetryIsCurrent(j, env')
    BY <2>2, <2>4 DEF ReloadIsCurrent, RetryIsCurrent, IsMoved
  <2>6. JobsOK' /\ CalmOK'
    BY <1>c, <1>d, <2>1, <2>2, <2>3, <2>4, <2>5, OneJobMoves DEF OneVersion, IsMoved
  <2> QED
    BY <2>1, <2>3, <2>6 DEF SharedOK
<1>6. ASSUME NEW t \in AicoreThreads, Aicore!Refilter(t) PROVE SharedOK' /\ JobsOK' /\ CalmOK'
  <2> DEFINE l == IF t = Aicore!Watcher THEN "remember" ELSE "readEnv"
             j == [job[t] EXCEPT !.pc = l]
  <2>1. /\ job[t].pc = "refilter" /\ job' = [job EXCEPT ![t] = j] /\ filter' \in Aicore!Filters
        /\ UNCHANGED <<aicoreMode, mounted, usable, env, watched>>
    BY <1>6 DEF Aicore!Refilter, Aicore!At, Aicore!Goto, JobsOK, Aicore!Filters
  <2>a. l \in AicoreLabels
    BY DEF AicoreLabels
  <2>2. IsMoved(j, job[t], l, job[t].pair)
    <3> HIDE DEF l
    <3> QED
      BY <1>0, <2>a, JobAt, Zenon
  <2> HIDE DEF j
  <2>3. /\ AnyCalm => ReloadIsCurrent(j, env')
        /\ AnyCalm => RetryIsCurrent(j, env')
    BY <1>c, <2>1, <2>2 DEF ReloadIsCurrent, RetryIsCurrent, IsMoved
  <2>4. JobsOK' /\ CalmOK'
    BY <1>c, <1>d, <2>1, <2>2, <2>3, OneJobMoves DEF IsMoved
  <2> QED
    BY <2>1, <2>4 DEF SharedOK
<1>7. ASSUME NEW t \in Completions, Aicore!Complete(t) PROVE SharedOK' /\ JobsOK' /\ CalmOK'
  <2> DEFINE c == \A u \in DOMAIN job : ~Aicore!Reloading(u)
             j == [Aicore!NoJob EXCEPT !.pc = "readEnv", !.calm = c]
  <2>1. /\ job' = [job EXCEPT ![t] = j]
        /\ UNCHANGED <<aicoreMode, mounted, usable, env, watched, filter>>
    BY <1>7 DEF Aicore!Complete
  <2>2. c => \A u \in AicoreThreads : ReloadIsCurrent(job[u], env)
    BY DEF JobsOK, Aicore!Reloading, ReloadIsCurrent
  <2>3. IsNew(j, "readEnv", FALSE, c)
    <3>1. c \in BOOLEAN /\ "readEnv" \in AicoreLabels
      BY DEF AicoreLabels
    <3> HIDE DEF c
    <3> QED
      BY <3>1, JobEnded, Zenon
  <2> HIDE DEF c, j
  <2>4. ReloadIsCurrent(j, env') /\ RetryIsCurrent(j, env')
    BY <2>3 DEF ReloadIsCurrent, RetryIsCurrent, IsNew
  <2>5. JobsOK' /\ CalmOK'
    BY <1>c, <2>1, <2>2, <2>3, <2>4, OneJobMoves DEF IsNew
  <2> QED
    BY <2>1, <2>5 DEF SharedOK
<1>8. ASSUME NEW t \in Completions, Aicore!ReadEnv(t) PROVE SharedOK' /\ JobsOK' /\ CalmOK'
  <2> DEFINE p == [job[t].pair EXCEPT !.id = env.id]
             j == [job[t] EXCEPT !.pc = "readEnvSecret", !.pair = p]
  <2>1. /\ job[t].pc = "readEnv" /\ job' = [job EXCEPT ![t] = j]
        /\ UNCHANGED <<aicoreMode, mounted, usable, env, watched, filter>>
    BY <1>8 DEF Aicore!ReadEnv, Aicore!At, JobsOK
  <2>2. p \in Aicore!Pairs /\ p.id = env.id
    BY <1>0, <1>a DEF SharedOK, Aicore!Pairs
  <2> HIDE DEF p
  <2>3. IsMoved(j, job[t], "readEnvSecret", p)
    BY <1>0, <2>2, JobWithPair, Zenon DEF AicoreLabels
  <2> HIDE DEF j
  <2>4. /\ ReloadIsCurrent(j, env')
        /\ job[t].calm => RetryIsCurrent(j, env')
    BY <1>d, <2>1, <2>2, <2>3 DEF ReloadIsCurrent, RetryIsCurrent, IsMoved, OneVersion
  <2>5. JobsOK' /\ CalmOK'
    BY <1>c, <1>d, <2>1, <2>3, <2>4, OneJobMoves DEF IsMoved
  <2> QED
    BY <2>1, <2>5 DEF SharedOK
<1>9. ASSUME NEW t \in Completions, Aicore!ReadEnvSecret(t) PROVE SharedOK' /\ JobsOK' /\ CalmOK'
  <2> DEFINE p == [job[t].pair EXCEPT !.secret = env.secret]
             j == [job[t] EXCEPT !.pc = "transform", !.pair = p]
  <2>1. /\ job[t].pc = "readEnvSecret" /\ job' = [job EXCEPT ![t] = j]
        /\ UNCHANGED <<aicoreMode, mounted, usable, env, watched, filter>>
    BY <1>9 DEF Aicore!ReadEnvSecret, Aicore!At, JobsOK
  <2>2. p \in Aicore!Pairs /\ p.id = job[t].pair.id /\ p.secret = env.secret
    BY <1>0, <1>a DEF SharedOK, Aicore!Pairs
  <2> HIDE DEF p
  <2>3. IsMoved(j, job[t], "transform", p)
    BY <1>0, <2>2, JobWithPair, Zenon DEF AicoreLabels
  <2> HIDE DEF j
  <2>4. /\ ReloadIsCurrent(j, env')
        /\ job[t].calm => RetryIsCurrent(j, env')
    BY <1>d, <2>1, <2>2, <2>3 DEF ReloadIsCurrent, RetryIsCurrent, IsMoved, OneVersion
  <2>5. JobsOK' /\ CalmOK'
    BY <1>c, <1>d, <2>1, <2>3, <2>4, OneJobMoves DEF IsMoved
  <2> QED
    BY <2>1, <2>5 DEF SharedOK
<1>10. ASSUME NEW t \in Completions, Aicore!Transform(t) PROVE SharedOK' /\ JobsOK' /\ CalmOK'
  <2> DEFINE l == IF filter = "off" THEN "send" ELSE "attach"
             j == [job[t] EXCEPT !.filter = "off", !.pc = l]
  <2>1. /\ job[t].pc = "transform" /\ job' = [job EXCEPT ![t] = j]
        /\ UNCHANGED <<aicoreMode, mounted, usable, env, watched, filter>>
    BY <1>10 DEF Aicore!Transform, Aicore!At, JobsOK
  <2>2. l \in AicoreLabels /\ l \in {"send", "attach"} /\ "off" \in Aicore!Filters
    BY DEF AicoreLabels, Aicore!Filters
  <2> HIDE DEF l
  <2>3. IsMoved(j, job[t], l, job[t].pair)
    BY <1>0, <2>2, JobWithFilter, Zenon
  <2> HIDE DEF j
  <2>4. /\ ReloadIsCurrent(j, env')
        /\ job[t].calm => RetryIsCurrent(j, env')
    BY <1>d, <2>1, <2>2, <2>3 DEF ReloadIsCurrent, RetryIsCurrent, IsMoved
  <2>5. JobsOK' /\ CalmOK'
    BY <1>c, <1>d, <2>1, <2>3, <2>4, OneJobMoves DEF IsMoved
  <2> QED
    BY <2>1, <2>5 DEF SharedOK
<1>11. ASSUME NEW t \in Completions, Aicore!Attach(t) PROVE SharedOK' /\ JobsOK' /\ CalmOK'
  <2>1. /\ job[t].pc = "attach"
        /\ UNCHANGED <<aicoreMode, mounted, usable, env, watched, filter>>
    BY <1>11 DEF Aicore!Attach, Aicore!At
  <2>2. CASE filter = "off"
    <3>1. Aicore!End(t, "ended")
      BY <1>11, <2>2 DEF Aicore!Attach
    <3> QED
      BY <2>1, <3>1, EndKeepsCalm DEF SharedOK
  <2>3. CASE filter # "off"
    <3> DEFINE j == [job[t] EXCEPT !.filter = filter, !.pc = "send"]
    <3>1. job' = [job EXCEPT ![t] = j]
      BY <1>11, <2>3 DEF Aicore!Attach, JobsOK
    <3>2. IsMoved(j, job[t], "send", job[t].pair)
      BY <1>0, JobWithFilter, Zenon DEF AicoreLabels, SharedOK
    <3> HIDE DEF j
    <3>3. /\ ReloadIsCurrent(j, env')
          /\ job[t].calm => RetryIsCurrent(j, env')
      BY <1>d, <2>1, <3>2 DEF ReloadIsCurrent, RetryIsCurrent, IsMoved
    <3>4. JobsOK' /\ CalmOK'
      BY <1>c, <1>d, <2>1, <3>1, <3>2, <3>3, OneJobMoves DEF IsMoved
    <3> QED
      BY <2>1, <3>4 DEF SharedOK
  <2> QED
    BY <2>2, <2>3
<1>12. ASSUME NEW t \in Completions, Aicore!Unauthorized(t) PROVE SharedOK' /\ JobsOK' /\ CalmOK'
  <2>1. /\ job[t].pc = "send" /\ job[t].pair \notin {Aicore!Both(v) : v \in usable}
        /\ UNCHANGED <<aicoreMode, mounted, usable, env, watched, filter>>
    BY <1>12 DEF Aicore!Unauthorized, Aicore!At, Aicore!Authentic
  <2>2. CASE job[t].tried
    <3>1. ~OneVersion(job[t].pair, mounted)
      <4>1. SUFFICES ASSUME OneVersion(job[t].pair, mounted) PROVE FALSE
        OBVIOUS
      <4>2. job[t].pair = Aicore!Both(mounted)
        BY <1>0, <4>1 DEF OneVersion, Aicore!Both, Aicore!Pairs
      <4> QED
        BY <2>1, <4>2 DEF SharedOK
    <3>2. ~job[t].calm
      BY <1>d, <2>1, <2>2, <3>1 DEF RetryIsCurrent
    <3>3. Aicore!End(t, "refused")
      BY <1>12, <2>2 DEF Aicore!Unauthorized
    <3> QED
      BY <2>1, <3>2, <3>3, EndKeepsCalm DEF SharedOK
  <2>3. CASE ~job[t].tried
    <3> DEFINE n == Aicore!NoJob
               j == [n EXCEPT !.pc = "read", !.tried = TRUE, !.calm = job[t].calm]
    <3>1. job' = [job EXCEPT ![t] = j]
      BY <1>12, <2>3 DEF Aicore!Unauthorized
    <3>2. n \in Jobs
      BY NoJobIsAJob DEF IsNew
    <3> HIDE DEF n
    <3>3. IsNew(j, "read", TRUE, job[t].calm)
      BY <1>0, <3>2 DEF Jobs, IsNew, AicoreLabels
    <3> HIDE DEF j
    <3>4. ReloadIsCurrent(j, env') /\ RetryIsCurrent(j, env')
      BY <3>3 DEF ReloadIsCurrent, RetryIsCurrent, IsNew
    <3>5. JobsOK' /\ CalmOK'
      BY <1>c, <1>d, <2>1, <3>1, <3>3, <3>4, OneJobMoves DEF IsNew
    <3> QED
      BY <2>1, <3>5 DEF SharedOK
  <2> QED
    BY <2>2, <2>3
<1>13. ASSUME NEW t \in Completions, Aicore!InputBlocked(t) \/ Aicore!Answered(t)
       PROVE  SharedOK' /\ JobsOK' /\ CalmOK'
  <2>1. /\ Aicore!End(t, "ended") \/ Aicore!End(t, "rawInput")
        /\ UNCHANGED <<aicoreMode, mounted, usable, env, watched, filter>>
    BY <1>13 DEF Aicore!InputBlocked, Aicore!Answered
  <2> QED
    BY <2>1, EndKeepsCalm DEF SharedOK
<1>14. ASSUME NEW t \in Completions, Aicore!Streams(t) PROVE SharedOK' /\ JobsOK' /\ CalmOK'
  <2> DEFINE j0 == [job[t] EXCEPT !.wrapped = filter # "off"]
             j == [j0 EXCEPT !.pc = "streaming", !.pair = Aicore!Both(0)]
  <2>1. /\ job' = [job EXCEPT ![t] = j]
        /\ UNCHANGED <<aicoreMode, mounted, usable, env, watched, filter>>
    BY <1>14 DEF Aicore!Streams, JobsOK, Jobs
  <2>2. j0 \in Jobs /\ j0.calm = job[t].calm
    BY <1>0 DEF Jobs
  <2> HIDE DEF j0
  <2>3. IsMoved(j, j0, "streaming", Aicore!Both(0))
    BY <1>a, <2>2, JobWithPair, Zenon DEF AicoreLabels
  <2> HIDE DEF j
  <2>4. ReloadIsCurrent(j, env') /\ RetryIsCurrent(j, env')
    BY <2>3 DEF ReloadIsCurrent, RetryIsCurrent, IsMoved
  <2>5. JobsOK' /\ CalmOK'
    BY <1>c, <1>d, <2>1, <2>2, <2>3, <2>4, OneJobMoves DEF IsMoved
  <2> QED
    BY <2>1, <2>5 DEF SharedOK
<1>15. ASSUME NEW t \in Completions, Aicore!StreamEnds(t) PROVE SharedOK' /\ JobsOK' /\ CalmOK'
  <2>1. /\ Aicore!End(t, "ended") \/ Aicore!End(t, "rawStream")
        /\ UNCHANGED <<aicoreMode, mounted, usable, env, watched, filter>>
    BY <1>15 DEF Aicore!StreamEnds
  <2> QED
    BY <2>1, EndKeepsCalm DEF SharedOK
<1>16. CASE Aicore!Watch
  <2> DEFINE n == Aicore!NoJob
             j == [n EXCEPT !.pc = "read", !.seen = mounted]
  <2>1. /\ job' = [job EXCEPT ![Aicore!Watcher] = j]
        /\ UNCHANGED <<aicoreMode, mounted, usable, env, watched, filter>>
    BY <1>16 DEF Aicore!Watch
  <2>2. n \in Jobs /\ ~n.tried /\ ~n.calm
    BY NoJobIsAJob DEF IsNew
  <2> HIDE DEF n
  <2>3. IsNew(j, "read", FALSE, FALSE)
    BY <1>a, <2>2 DEF Jobs, IsNew, AicoreLabels
  <2> HIDE DEF j
  <2>4. ReloadIsCurrent(j, env')
    BY <2>3 DEF ReloadIsCurrent, IsNew
  <2>5. JobsOK' /\ CalmOK'
    BY <1>c, <2>1, <2>3, <2>4, OneJobMoves DEF IsNew
  <2> QED
    BY <2>1, <2>5 DEF SharedOK
<1>17. CASE Aicore!RememberMtime
  <2>1. /\ Aicore!End(Aicore!Watcher, "ended") /\ watched' = job[Aicore!Watcher].seen
        /\ UNCHANGED <<aicoreMode, mounted, usable, env, filter>>
    BY <1>17 DEF Aicore!RememberMtime
  <2>2. watched' \in Aicore!Secrets
    BY <1>0, <2>1 DEF Jobs
  <2> QED
    BY <2>1, <2>2, EndKeepsCalm DEF SharedOK
<1>18. ASSUME NEW f \in Aicore!Filters, Aicore!SetFiltering(f)
       PROVE SharedOK' /\ JobsOK' /\ CalmOK'
  BY <1>18
  DEF Aicore!SetFiltering, SharedOK, JobsOK, CalmOK, AnyCalm,
      ReloadIsCurrent, RetryIsCurrent, OneVersion
<1>19. CASE Aicore!RotateSecret
  <2>1. /\ mounted' \in Aicore!Secrets /\ usable' = usable \cup {mounted'}
        /\ job' = Aicore!Disturbed /\ UNCHANGED <<aicoreMode, env, watched, filter>>
    BY <1>19 DEF Aicore!RotateSecret, SharedOK, Aicore!Secrets
  <2> QED
    BY <2>1, NobodyCalm DEF SharedOK
<1>20. CASE Aicore!RevokeOld
  BY <1>20
  DEF Aicore!RevokeOld, SharedOK, JobsOK, CalmOK, AnyCalm,
      ReloadIsCurrent, RetryIsCurrent, OneVersion
<1>21. CASE UNCHANGED Aicore!aicoreVars
  BY <1>21
  DEF Aicore!aicoreVars, SharedOK, JobsOK, CalmOK, AnyCalm,
      ReloadIsCurrent, RetryIsCurrent, OneVersion
<1> QED
  BY <1>1, <1>2, <1>3, <1>4, <1>5, <1>6, <1>7, <1>8, <1>9, <1>10, <1>11, <1>12, <1>13,
     <1>14, <1>15, <1>16, <1>17, <1>18, <1>19, <1>20, <1>21
  DEF Aicore!Next, Aicore!Request, Aicore!Reload

LEMMA AicoreInductive == Aicore!Spec => [](SharedOK /\ JobsOK /\ CalmOK)
<1>1. Aicore!Init => SharedOK /\ JobsOK /\ CalmOK
  BY AicoreInit, AicoreTyped DEF AicoreIInv
<1>2. (SharedOK /\ JobsOK /\ CalmOK) /\ [Aicore!Next]_(Aicore!aicoreVars)
        => (SharedOK /\ JobsOK /\ CalmOK)'
  BY AicoreKeepsIInv
<1> QED
  BY <1>1, <1>2, PTL DEF Aicore!Spec

-----------------------------------------------------------------------------
(* GatewayTokens *)

LEMMA Removal ==
  ASSUME NEW S, NEW s \in Seq(S), NEW i \in 1 .. Len(s)
  PROVE  /\ Gateway!Removed(s, i) \in Seq(S)
         /\ Len(Gateway!Removed(s, i)) = Len(s) - 1
         /\ \A j \in 1 .. (Len(s) - 1) :
               Gateway!Removed(s, i)[j] = IF j < i THEN s[j] ELSE s[j + 1]
<1> DEFINE a == SubSeq(s, 1, i - 1)
           b == SubSeq(s, i + 1, Len(s))
<1>1. a \in Seq(S) /\ Len(a) = i - 1 /\ \A j \in 1 .. (i - 1) : a[j] = s[j]
  OBVIOUS
<1>2. b \in Seq(S) /\ Len(b) = Len(s) - i /\ \A j \in 1 .. (Len(s) - i) : b[j] = s[i + j]
  OBVIOUS
<1> HIDE DEF a, b
<1>3. /\ a \o b \in Seq(S)
      /\ Len(a \o b) = Len(a) + Len(b)
      /\ \A j \in 1 .. Len(a) + Len(b) : (a \o b)[j] = IF j <= Len(a) THEN a[j] ELSE b[j - Len(a)]
  BY <1>1, <1>2, ConcatProperties
<1>4. ASSUME NEW j \in 1 .. (Len(s) - 1) PROVE (a \o b)[j] = IF j < i THEN s[j] ELSE s[j + 1]
  <2>1. j \in 1 .. Len(a) + Len(b)
    BY <1>1, <1>2
  <2>2. (a \o b)[j] = IF j <= Len(a) THEN a[j] ELSE b[j - Len(a)]
    BY <1>3, <2>1
  <2>3. CASE j < i
    BY <1>1, <2>2, <2>3
  <2>4. CASE ~(j < i)
    <3>1. j - Len(a) \in 1 .. (Len(s) - i) /\ i + (j - Len(a)) = j + 1
      BY <1>1, <2>4
    <3> QED
      BY <1>1, <1>2, <2>2, <2>4, <3>1
  <2> QED
    BY <2>3, <2>4
<1>5. Len(a) + Len(b) = Len(s) - 1
  BY <1>1, <1>2
<1>6. a \o b = Gateway!Removed(s, i)
  BY DEF a, b, Gateway!Removed
<1> QED
  BY <1>3, <1>4, <1>5, <1>6

GatewayEntries == [key : Gateway!Keys, left : 0 .. MaxLife, expires : Nat, says : Gateway!Metadata,
                   from : Gateway!Versions, late : 0 .. (Buffer + 1)]

HasKey(s, k) == \E i \in 1 .. Len(s) : s[i].key = k
Contains(s, e) == \E i \in 1 .. Len(s) : s[i] = e
IsDict(s) ==
    /\ s \in Seq(GatewayEntries)
    /\ \A i, j \in 1 .. Len(s) : s[i].key = s[j].key => i = j

LEMMA WithoutKey ==
  ASSUME IsDict(tokens), NEW k
  PROVE  LET w == Gateway!Without(k) IN
         /\ IsDict(w) /\ ~HasKey(w, k)
         /\ \A l : l # k => (HasKey(w, l) <=> HasKey(tokens, l))
         /\ \A e : Contains(w, e) => Contains(tokens, e)
         /\ Len(w) = IF HasKey(tokens, k) THEN Len(tokens) - 1 ELSE Len(tokens)
<1> DEFINE w == Gateway!Without(k)
<1>1. CASE ~HasKey(tokens, k)
  BY <1>1 DEF Gateway!Without, Gateway!Has, HasKey, IsDict
<1>2. CASE HasKey(tokens, k)
  <2> DEFINE i == Gateway!Position(k)
  <2>1. i \in 1 .. Len(tokens) /\ tokens[i].key = k
    BY <1>2 DEF Gateway!Position, HasKey, IsDict
  <2>2. w = Gateway!Removed(tokens, i)
    BY <1>2 DEF Gateway!Without, Gateway!Has, HasKey, IsDict
  <2>3. Len(tokens) \in Nat
    BY DEF IsDict
  <2> HIDE DEF w, i
  <2>4. /\ w \in Seq(GatewayEntries)
        /\ Len(w) = Len(tokens) - 1
        /\ \A j \in 1 .. (Len(tokens) - 1) : w[j] = IF j < i THEN tokens[j] ELSE tokens[j + 1]
    BY <2>1, <2>2, Removal DEF IsDict
  <2>5. \A j \in 1 .. (Len(tokens) - 1) :
           \E m \in 1 .. Len(tokens) : m # i /\ w[j] = tokens[m] /\ m = IF j < i THEN j ELSE j + 1
    <3> TAKE j \in 1 .. (Len(tokens) - 1)
    <3>1. CASE j < i
      <4>1. j \in 1 .. Len(tokens) /\ j # i /\ w[j] = tokens[j]
        BY <2>1, <2>3, <2>4, <3>1
      <4> QED
        BY <3>1, <4>1
    <3>2. CASE ~(j < i)
      <4>1. j + 1 \in 1 .. Len(tokens) /\ j + 1 # i /\ w[j] = tokens[j + 1]
        BY <2>1, <2>3, <2>4, <3>2
      <4> QED
        BY <3>2, <4>1
    <3> QED
      BY <3>1, <3>2
  <2>6. \A m \in 1 .. Len(tokens) : m # i => \E j \in 1 .. (Len(tokens) - 1) : w[j] = tokens[m]
    <3> TAKE m \in 1 .. Len(tokens)
    <3>1. CASE m < i
      BY <2>1, <2>3, <2>4, <3>1
    <3>2. CASE m > i
      <4>1. m - 1 \in 1 .. (Len(tokens) - 1) /\ ~(m - 1 < i) /\ (m - 1) + 1 = m
        BY <2>1, <2>3, <3>2
      <4> QED
        BY <2>4, <4>1
    <3> QED
      BY <2>1, <3>1, <3>2
  <2>7. IsDict(w)
    <3>1. ASSUME NEW a \in 1 .. (Len(tokens) - 1), NEW b \in 1 .. (Len(tokens) - 1),
                 w[a].key = w[b].key
          PROVE  a = b
      <4>1. PICK m \in 1 .. Len(tokens) : w[a] = tokens[m] /\ m = IF a < i THEN a ELSE a + 1
        BY <2>5
      <4>2. PICK n \in 1 .. Len(tokens) : w[b] = tokens[n] /\ n = IF b < i THEN b ELSE b + 1
        BY <2>5
      <4>3. m = n
        BY <3>1, <4>1, <4>2 DEF IsDict
      <4> QED
        BY <2>1, <2>3, <4>1, <4>2, <4>3
    <3> QED
      BY <2>3, <2>4, <3>1 DEF IsDict
  <2>8. ~HasKey(w, k)
    BY <2>1, <2>4, <2>5 DEF IsDict, HasKey
  <2>9. \A l : l # k => (HasKey(w, l) <=> HasKey(tokens, l))
    <3>1. ASSUME NEW l, HasKey(w, l) PROVE HasKey(tokens, l)
      BY <2>4, <2>5, <3>1 DEF HasKey
    <3>2. ASSUME NEW l, l # k, HasKey(tokens, l) PROVE HasKey(w, l)
      <4>1. PICK m \in 1 .. Len(tokens) : tokens[m].key = l
        BY <3>2 DEF HasKey
      <4>2. PICK j \in 1 .. (Len(tokens) - 1) : w[j] = tokens[m]
        BY <2>1, <2>6, <3>2, <4>1
      <4> QED
        BY <2>4, <4>1, <4>2 DEF HasKey
    <3> QED
      BY <3>1, <3>2
  <2>10. \A e : Contains(w, e) => Contains(tokens, e)
    BY <2>4, <2>5 DEF Contains
  <2> QED
    BY <1>2, <2>4, <2>7, <2>8, <2>9, <2>10 DEF w
<1> QED
  BY <1>1, <1>2

LEMMA Appended ==
  ASSUME NEW s, IsDict(s), NEW e \in GatewayEntries, ~HasKey(s, e.key)
  PROVE  /\ IsDict(Append(s, e)) /\ Len(Append(s, e)) = Len(s) + 1
         /\ \A l : HasKey(Append(s, e), l) <=> HasKey(s, l) \/ l = e.key
         /\ \A f : Contains(Append(s, e), f) => Contains(s, f) \/ f = e
  BY DEF IsDict, HasKey, Contains

LEMMA MovedToEnd ==
  ASSUME IsDict(tokens), NEW e \in GatewayEntries
  PROVE  LET s == Gateway!AtEnd(e) IN
         /\ IsDict(s)
         /\ \A l : HasKey(s, l) <=> HasKey(tokens, l) \/ l = e.key
         /\ \A f : Contains(s, f) => (Contains(tokens, f) /\ f.key # e.key) \/ f = e
         /\ Len(s) = IF HasKey(tokens, e.key) THEN Len(tokens) ELSE Len(tokens) + 1
<1> DEFINE w == Gateway!Without(e.key)
<1>1. /\ IsDict(w) /\ ~HasKey(w, e.key)
      /\ \A l : l # e.key => (HasKey(w, l) <=> HasKey(tokens, l))
      /\ \A f : Contains(w, f) => Contains(tokens, f)
      /\ Len(w) = IF HasKey(tokens, e.key) THEN Len(tokens) - 1 ELSE Len(tokens)
  BY WithoutKey
<1>2. Gateway!AtEnd(e) = Append(w, e)
  BY DEF Gateway!AtEnd
<1>3. Len(tokens) \in Nat
  BY DEF IsDict
<1> HIDE DEF w
<1>4. \A f : Contains(w, f) => f.key # e.key
  BY <1>1 DEF Contains, HasKey
<1> QED
  BY <1>1, <1>2, <1>3, <1>4, Appended

LEMMA AssignedAt ==
  ASSUME IsDict(tokens), NEW e \in GatewayEntries
  PROVE  LET s == Gateway!Assigned(e) IN
         /\ IsDict(s)
         /\ \A l : HasKey(s, l) <=> HasKey(tokens, l) \/ l = e.key
         /\ \A f : Contains(s, f) => Contains(tokens, f) \/ f = e
         /\ Len(s) = IF HasKey(tokens, e.key) THEN Len(tokens) ELSE Len(tokens) + 1
<1> DEFINE s == Gateway!Assigned(e)
<1>1. CASE HasKey(tokens, e.key)
  <2>1. s = [i \in 1 .. Len(tokens) |-> IF tokens[i].key = e.key THEN e ELSE tokens[i]]
    BY <1>1 DEF Gateway!Assigned, Gateway!Has, HasKey, IsDict
  <2> HIDE DEF s
  <2>2. /\ s \in Seq(GatewayEntries) /\ Len(s) = Len(tokens)
        /\ \A i \in 1 .. Len(tokens) : s[i] = IF tokens[i].key = e.key THEN e ELSE tokens[i]
    BY <2>1 DEF IsDict
  <2>3. \A i \in 1 .. Len(tokens) : s[i].key = tokens[i].key
    BY <2>2
  <2> QED
    BY <1>1, <2>2, <2>3 DEF IsDict, HasKey, Contains, s
<1>2. CASE ~HasKey(tokens, e.key)
  <2>1. s = Append(tokens, e)
    BY <1>2 DEF Gateway!Assigned, Gateway!Has, HasKey, IsDict
  <2> QED
    BY <1>2, <2>1, Appended
<1> QED
  BY <1>1, <1>2

LEMMA CutFromFront ==
  ASSUME NEW s, IsDict(s), NEW n \in 1 .. (Len(s) + 1)
  PROVE  /\ IsDict(SubSeq(s, n, Len(s))) /\ Len(SubSeq(s, n, Len(s))) = Len(s) + 1 - n
         /\ \A f : Contains(SubSeq(s, n, Len(s)), f) => Contains(s, f)
         /\ \A l : HasKey(SubSeq(s, n, Len(s)), l) => HasKey(s, l)
<1> DEFINE t == SubSeq(s, n, Len(s))
<1>1. /\ t \in Seq(GatewayEntries) /\ Len(t) = Len(s) + 1 - n /\ Len(s) \in Nat
      /\ \A i \in 1 .. Len(t) : t[i] = s[n + i - 1] /\ n + i - 1 \in 1 .. Len(s)
  BY DEF IsDict
<1> HIDE DEF t
<1>2. IsDict(t)
  <2>1. ASSUME NEW a \in 1 .. Len(t), NEW b \in 1 .. Len(t), t[a].key = t[b].key PROVE a = b
    <3>1. PICK p \in 1 .. Len(s) : p = n + a - 1 /\ t[a] = s[p]
      BY <1>1
    <3>2. PICK q \in 1 .. Len(s) : q = n + b - 1 /\ t[b] = s[q]
      BY <1>1
    <3>3. p = q
      BY <2>1, <3>1, <3>2 DEF IsDict
    <3> QED
      BY <3>1, <3>2, <3>3
  <2> QED
    BY <1>1, <2>1 DEF IsDict
<1>3. \A f : Contains(t, f) => Contains(s, f)
  BY <1>1 DEF Contains
<1>4. \A l : HasKey(t, l) => HasKey(s, l)
  BY <1>1 DEF HasKey
<1> QED
  BY <1>1, <1>2, <1>3, <1>4 DEF t

LEMMA FirstRemoved ==
  ASSUME IsDict(tokens), Len(tokens) > 0
  PROVE  /\ IsDict(Tail(tokens)) /\ Len(Tail(tokens)) = Len(tokens) - 1
         /\ \A f : Contains(Tail(tokens), f) => Contains(tokens, f)
         /\ \E k : \A l : l # k => (HasKey(Tail(tokens), l) <=> HasKey(tokens, l))
<1>1. /\ Tail(tokens) \in Seq(GatewayEntries) /\ Len(Tail(tokens)) = Len(tokens) - 1
      /\ Len(tokens) \in Nat
      /\ \A i \in 1 .. (Len(tokens) - 1) : Tail(tokens)[i] = tokens[i + 1]
  BY DEF IsDict
<1> DEFINE t == Tail(tokens)
           n == Len(tokens)
<1>2. t \in Seq(GatewayEntries) /\ Len(t) = n - 1 /\ n \in Nat /\ n > 0
      /\ \A i \in 1 .. (n - 1) : t[i] = tokens[i + 1] /\ i + 1 \in 1 .. n
  BY <1>1
<1> HIDE DEF t
<1>3. IsDict(t)
  BY <1>2 DEF IsDict
<1>4. \A f : Contains(t, f) => Contains(tokens, f)
  BY <1>2 DEF Contains
<1>5. \A l : l # tokens[1].key => (HasKey(t, l) <=> HasKey(tokens, l))
  <2>1. \A m \in 1 .. n : m # 1 => m - 1 \in 1 .. (n - 1) /\ t[m - 1] = tokens[m]
    BY <1>2
  <2> QED
    BY <1>2, <2>1 DEF HasKey
<1> QED
  BY <1>1, <1>3, <1>4, <1>5 DEF t

-----------------------------------------------------------------------------
\* An INSTANCE has its own copies of the operators of FiniteSets
LEMMA SameFiniteSets ==
  ASSUME NEW S
  PROVE  /\ Gateway!IsFiniteSet(S) <=> IsFiniteSet(S)
         /\ Gateway!Cardinality(S) = Cardinality(S)
<1>1. Gateway!IsFiniteSet(S) <=> IsFiniteSet(S)
  BY Zenon DEF Gateway!IsFiniteSet, IsFiniteSet
<1>2. Gateway!Cardinality(S) = Cardinality(S)
  BY Zenon DEF Gateway!Cardinality, Cardinality
<1> QED
  BY <1>1, <1>2

LEMMA GatewayBounds ==
  /\ Buffer \in Nat /\ Fallback \in Nat /\ Buffer < Fallback /\ MaxTokens \in Nat /\ MaxLife \in Nat
  /\ Gateway!AnyKey \in Gateway!Keys /\ IsFiniteSet(Callers)
<1>1. \E k \in Gateway!Keys : TRUE
  <2>1. PICK u \in Users, s \in Scopes : TRUE
    BY Bounds DEF Gateway!SetAssumption
  <2>2. <<u, s>> \in Gateway!Keys
    BY <2>1 DEF Gateway!Keys
  <2> QED
    BY <2>2
<1>2. (CHOOSE k \in Gateway!Keys : TRUE) \in Gateway!Keys
  BY <1>1
<1> QED
  BY <1>2, Bounds, SameFiniteSets
  DEF Gateway!BufferAssumption, Gateway!BoundAssumption, Gateway!SetAssumption, Gateway!AnyKey

GatewayLabels == {"lookup", "judge", "touch", "drop", "fetch", "answered",
                  "move", "evict", "pop", "returned", "raised", "key_error"}

Requests == [pc : GatewayLabels, key : Gateway!Keys, token : GatewayEntries,
             alone : BOOLEAN, alive : BOOLEAN, paired : BOOLEAN]

\* The cache takes e for expired before it dies, unless nobody knows when it does
Fresh(e) == e.says = "none" \/ e.expires <= e.left

\* The same of a token that is on its way: one that says expires_in has spent late
\* of its life, and its deadline does not come nearer
FreshInFlight(e) ==
    \/ e.says = "none"
    \/ e.says = "expires_at" /\ e.expires <= e.left
    \/ /\ e.says = "expires_in"
       /\ e.late > Buffer \/ e.expires = 0 \/ e.expires + Buffer <= e.left + e.late

RequestOK(r) ==
    /\ r \in Requests /\ r.alive /\ r.paired
    /\ IF r.pc = "answered" THEN FreshInFlight(r.token) /\ r.token.key = r.key ELSE Fresh(r.token)

Urls == [from : Gateway!Versions, by : Gateway!Keys] \cup {Gateway!NoUrl}

\* The cached URL of e's scope is of e's version if it has been stored with e
Belongs(us, e) ==
    LET u == us[Gateway!Scope(e.key)] IN u # Gateway!NoUrl /\ u.by = e.key => u.from = e.from

\* The entries are fresh, and the URLs of their keys belong to them
CacheOK ==
    /\ flow \in {"customer", "lob"} /\ version \in Gateway!Versions
    /\ urls \in [Scopes -> Urls]
    /\ IsDict(tokens)
    /\ \A e : Contains(tokens, e) => Fresh(e) /\ (flow = "lob" => Belongs(urls, e))

RequestsOK ==
    /\ request \in [Callers -> Requests]
    /\ \A c \in Callers : RequestOK(request[c])

\* A caller that is alone finds the entry it has seen, and the entry that is too many
Needs == {"judge", "touch", "drop", "move"}
AloneOK ==
    \A c \in Callers : request[c].alone =>
        /\ request[c].pc # "key_error"
        /\ Gateway!Busy(c) => \A d \in Callers : d # c => ~Gateway!Busy(d)
        /\ request[c].pc \in Needs => HasKey(tokens, request[c].key)
        /\ request[c].pc = "pop" => tokens # <<>>

Evicting == {c \in Callers : request[c].pc \in {"evict", "pop"}}

\* R has inserted the surplus that Evicting has not moved to the end yet
Surplus(R) ==
    /\ R \subseteq Callers
    /\ \A c \in R : request[c].pc = "move" /\ HasKey(tokens, request[c].key)
    /\ \A c, d \in R : request[c].key = request[d].key => c = d
    /\ Len(tokens) <= MaxTokens + Cardinality(R \cup Evicting)

SizeOK == \E R : Surplus(R)

GatewayIInv == CacheOK /\ RequestsOK /\ AloneOK /\ SizeOK

LEMMA NoEntryIsFresh == Gateway!NoEntry \in GatewayEntries /\ Fresh(Gateway!NoEntry)
  BY GatewayBounds DEF Gateway!NoEntry, GatewayEntries, Fresh, Gateway!Metadata, Gateway!Versions

LEMMA NewRequest ==
  ASSUME NEW k \in Gateway!Keys
  PROVE  LET r == Gateway!Request(k) IN RequestOK(r) /\ r.pc = "lookup" /\ ~r.alone
  BY NoEntryIsFresh DEF RequestOK, Requests, GatewayLabels, Gateway!Request

LEMMA GatewayInit == Gateway!Init => GatewayIInv
<1> SUFFICES ASSUME Gateway!Init PROVE GatewayIInv
  OBVIOUS
<1> USE GatewayBounds DEF Gateway!Init
<1>1. CacheOK
  BY DEF CacheOK, Urls, IsDict, Contains, Gateway!Versions
<1> DEFINE n == Gateway!Request(Gateway!AnyKey)
           r == [n EXCEPT !.pc = "returned"]
<1>2. RequestOK(n) /\ ~n.alone /\ n.pc = "lookup"
  BY NewRequest
<1> HIDE DEF n
<1>3. RequestOK(r) /\ ~r.alone /\ r.pc = "returned"
  BY <1>2 DEF RequestOK, Requests, GatewayLabels
<1>4. request = [c \in Callers |-> r]
  BY DEF n
<1> HIDE DEF r
<1>5. RequestsOK /\ AloneOK
  BY <1>3, <1>4 DEF RequestsOK, AloneOK, RequestOK
<1>6. Evicting = {} /\ Len(tokens) = 0
  BY <1>3, <1>4 DEF Evicting
<1>7. Surplus({})
  BY <1>6, FS_EmptySet DEF Surplus
<1> QED
  BY <1>1, <1>5, <1>7 DEF GatewayIInv, SizeOK

LEMMA GatewayImplies ==
  GatewayIInv => /\ Gateway!TypeOK /\ Gateway!OnlyRacesRaise
                 /\ Gateway!CachedTokensAreFresh /\ Gateway!PairsBelongTogether
<1> SUFFICES ASSUME GatewayIInv
             PROVE  /\ Gateway!TypeOK /\ Gateway!OnlyRacesRaise
                    /\ Gateway!CachedTokensAreFresh /\ Gateway!PairsBelongTogether
  OBVIOUS
<1>1. Gateway!OnlyRacesRaise
  BY DEF GatewayIInv, AloneOK, Gateway!OnlyRacesRaise, Gateway!At
<1>2. Gateway!CachedTokensAreFresh /\ Gateway!PairsBelongTogether
  BY DEF GatewayIInv, RequestsOK, RequestOK,
         Gateway!CachedTokensAreFresh, Gateway!PairsBelongTogether
<1>3. PICK R : Surplus(R)
  BY DEF GatewayIInv, SizeOK
<1> DEFINE M == {c \in Callers : request[c].pc \in {"move", "evict", "pop"}}
<1>4. R \cup Evicting \subseteq M /\ M \subseteq Callers
  BY <1>3 DEF Surplus, Evicting
<1>5. Cardinality(R \cup Evicting) <= Cardinality(M) /\ Cardinality(M) \in Nat
      /\ Cardinality(R \cup Evicting) \in Nat
  BY <1>4, GatewayBounds, FS_Subset, FS_CardinalityType
<1>6. Len(tokens) <= MaxTokens + Cardinality(M)
  <2> HIDE DEF M
  <2>1. Len(tokens) \in Nat
    BY DEF GatewayIInv, CacheOK, IsDict
  <2> QED
    BY <1>3, <1>5, <2>1, GatewayBounds DEF Surplus
<1>7. \A i, j \in DOMAIN tokens : tokens[i].key = tokens[j].key => i = j
  BY DEF GatewayIInv, CacheOK, IsDict
<1>8. ASSUME NEW c \in Callers
      PROVE  /\ request[c].pc \in GatewayLabels
             /\ request[c].key \in Gateway!Keys
             /\ request[c].token \in GatewayEntries
  BY DEF GatewayIInv, RequestsOK, Requests
<1>9. Len(tokens) <= MaxTokens + Gateway!Cardinality(M)
  BY <1>6, SameFiniteSets
<1>10. Gateway!TypeOK
  BY <1>7, <1>8, <1>9
    DEF GatewayIInv, CacheOK, Urls, Gateway!TypeOK, GatewayLabels, GatewayEntries
<1> QED
  BY <1>1, <1>2, <1>10

-----------------------------------------------------------------------------
\* q is the request r, but at l and with the token e
IsNext(q, r, l, e) ==
    /\ q \in Requests /\ q.pc = l /\ q.token = e /\ q.key = r.key
    /\ q.alone = r.alone /\ q.alive = r.alive /\ q.paired = r.paired

LEMMA RequestAt ==
  ASSUME NEW r \in Requests, NEW l \in GatewayLabels
  PROVE  IsNext([r EXCEPT !.pc = l], r, l, r.token)
  BY DEF Requests, IsNext

LEMMA RequestWith ==
  ASSUME NEW r \in Requests, NEW l \in GatewayLabels, NEW e \in GatewayEntries
  PROVE  IsNext([r EXCEPT !.pc = l, !.token = e], r, l, e)
  BY DEF Requests, IsNext

LEMMA OneCallerSteps ==
  ASSUME RequestsOK, AloneOK, NEW c \in Callers, Gateway!Busy(c),
         NEW q, RequestOK(q), request' = [request EXCEPT ![c] = q],
         q.alone = request[c].alone,
         q.alone => /\ q.pc # "key_error" /\ (q.pc \in Needs => HasKey(tokens', q.key))
                    /\ q.pc = "pop" => tokens' # <<>>
  PROVE  RequestsOK' /\ AloneOK'
<1>1. q \in Requests
  BY DEF RequestOK
<1>2. /\ request' \in [Callers -> Requests]
      /\ request'[c] = q
      /\ \A d \in Callers : d # c => request'[d] = request[d]
  BY <1>1 DEF RequestsOK
<1>3. RequestsOK'
  BY <1>2 DEF RequestsOK, RequestOK
<1>4. ASSUME NEW d \in Callers, request'[d].alone
      PROVE  /\ request'[d].pc # "key_error"
             /\ Gateway!Busy(d)' => \A e \in Callers : e # d => ~Gateway!Busy(e)'
             /\ request'[d].pc \in Needs => HasKey(tokens', request'[d].key)
             /\ request'[d].pc = "pop" => tokens' # <<>>
  <2>1. CASE d = c
    BY <1>2, <1>4, <2>1 DEF AloneOK, Gateway!Busy
  <2>2. CASE d # c
    <3>1. request'[d] = request[d] /\ request[d].alone
      BY <1>2, <1>4, <2>2
    <3>2. ~Gateway!Busy(d)
      BY <2>2, <3>1 DEF AloneOK
    <3> QED
      BY <3>1, <3>2 DEF AloneOK, Gateway!Busy, Needs
  <2> QED
    BY <2>1, <2>2
<1>5. AloneOK'
  BY <1>4 DEF AloneOK, HasKey, Gateway!Busy
<1> QED
  BY <1>3, <1>5

\* The cache loses at most one entry for which somebody counts
LEMMA SizeShrinks ==
  ASSUME SizeOK, Len(tokens) \in Nat, Len(tokens') \in Nat,
         Evicting \subseteq Evicting',
         \A d \in Callers : request[d].pc = "move" /\ HasKey(tokens, request[d].key) =>
            request'[d].pc = "move" /\ request'[d].key = request[d].key,
         \/ Len(tokens') <= Len(tokens) /\ \A l : HasKey(tokens, l) => HasKey(tokens', l)
         \/ /\ Len(tokens') <= Len(tokens) - 1
            /\ \E k : \A l : l # k /\ HasKey(tokens, l) => HasKey(tokens', l)
  PROVE  SizeOK'
<1>1. PICK R : Surplus(R)
  BY DEF SizeOK
<1> DEFINE U == R \cup Evicting
<1>2. /\ IsFiniteSet(U) /\ Cardinality(U) \in Nat /\ U \subseteq Callers
      /\ Len(tokens) <= MaxTokens + Cardinality(U)
  <2>1. U \subseteq Callers
    BY <1>1 DEF Surplus, Evicting
  <2> QED
    BY <1>1, <2>1, GatewayBounds, FS_Subset, FS_CardinalityType DEF Surplus
<1>3. Evicting' \subseteq Callers
  BY DEF Evicting
<1>4. CASE Len(tokens') <= Len(tokens) /\ \A l : HasKey(tokens, l) => HasKey(tokens', l)
  <2>1. /\ \A d \in R : request'[d].pc = "move" /\ HasKey(tokens', request'[d].key)
        /\ \A d, e \in R : request'[d].key = request'[e].key => d = e
    BY <1>1, <1>4 DEF Surplus
  <2> DEFINE V == R \cup Evicting'
  <2>2. V \subseteq Callers /\ U \subseteq V
    BY <1>2, <1>3
  <2>3. Cardinality(U) <= Cardinality(V) /\ Cardinality(V) \in Nat
    BY <2>2, GatewayBounds, FS_Subset, FS_CardinalityType
  <2>4. Len(tokens') <= MaxTokens + Cardinality(V)
    <3> HIDE DEF U, V
    <3> QED
      BY <1>2, <1>4, <2>3, GatewayBounds
  <2>5. Surplus(R)'
    BY <1>1, <2>1, <2>4 DEF Surplus, HasKey
  <2> QED
    BY <2>5 DEF SizeOK
<1>5. CASE /\ Len(tokens') <= Len(tokens) - 1
           /\ \E k : \A l : l # k /\ HasKey(tokens, l) => HasKey(tokens', l)
  <2>1. PICK k : \A l : l # k /\ HasKey(tokens, l) => HasKey(tokens', l)
    BY <1>5
  <2> DEFINE Q == {d \in R : request[d].key # k}
             V == Q \cup Evicting'
  <2>2. /\ \A d \in Q : request'[d].pc = "move" /\ HasKey(tokens', request'[d].key)
        /\ \A d, e \in Q : request'[d].key = request'[e].key => d = e
        /\ Q \subseteq Callers
    BY <1>1, <2>1 DEF Surplus
  <2>3. V \subseteq Callers
    BY <1>3, <2>2
  <2>4. Cardinality(V) \in Nat /\ IsFiniteSet(V)
    BY <2>3, GatewayBounds, FS_Subset, FS_CardinalityType
  <2>5. Cardinality(U) <= Cardinality(V) + 1
    <3>1. CASE U \subseteq V
      <4>1. Cardinality(U) <= Cardinality(V)
        BY <2>4, <3>1, FS_Subset
      <4> HIDE DEF U, V
      <4> QED
        BY <1>2, <2>4, <4>1
    <3>2. CASE ~(U \subseteq V)
      <4>1. PICK d \in R : d \notin V
        BY <3>2
      <4>2. request[d].key = k
        BY <4>1
      <4>3. U \subseteq V \cup {d}
        BY <1>1, <4>2 DEF Surplus
      <4>4. /\ IsFiniteSet(V \cup {d}) /\ Cardinality(V \cup {d}) = Cardinality(V) + 1
        BY <2>4, <4>1, FS_AddElement
      <4>5. Cardinality(U) <= Cardinality(V \cup {d})
        BY <4>3, <4>4, FS_Subset
      <4> QED
        BY <4>4, <4>5
    <3> QED
      BY <3>1, <3>2
  <2>6. Len(tokens') <= MaxTokens + Cardinality(V)
    <3> HIDE DEF U, V
    <3> QED
      BY <1>2, <1>5, <2>4, <2>5, GatewayBounds
  <2>7. PICK P : P = Q
    OBVIOUS
  <2>8. Surplus(P)'
    <3> HIDE DEF Q
    <3> QED
      BY <2>2, <2>6, <2>7 DEF Surplus, HasKey
  <2> QED
    BY <2>8 DEF SizeOK
<1> QED
  BY <1>4, <1>5

LEMMA SizeInBounds ==
  ASSUME Len(tokens') \in Nat, Len(tokens') <= MaxTokens
  PROVE  SizeOK'
<1> DEFINE V == {} \cup Evicting'
<1>1. V \subseteq Callers
  BY DEF Evicting
<1>2. Cardinality(V) \in Nat
  BY <1>1, GatewayBounds, FS_Subset, FS_CardinalityType
<1>3. Len(tokens') <= MaxTokens + Cardinality(V)
  <2> HIDE DEF V
  <2> QED
    BY <1>2, GatewayBounds
<1>4. Surplus({})'
  BY <1>3 DEF Surplus
<1> QED
  BY <1>4 DEF SizeOK

-----------------------------------------------------------------------------
LEMMA FoundEntry ==
  ASSUME CacheOK, NEW k, HasKey(tokens, k)
  PROVE  LET e == Gateway!EntryOf(k) IN
         e \in GatewayEntries /\ e.key = k /\ Contains(tokens, e) /\ Fresh(e)
<1> DEFINE i == Gateway!Position(k)
<1>1. i \in 1 .. Len(tokens) /\ tokens[i].key = k
  BY DEF Gateway!Position, HasKey, CacheOK, IsDict
<1>2. Gateway!EntryOf(k) = tokens[i]
  BY DEF Gateway!EntryOf
<1> HIDE DEF i
<1> QED
  BY <1>1, <1>2 DEF CacheOK, Contains, IsDict

LEMMA HasIsHasKey ==
  ASSUME IsDict(tokens), NEW k
  PROVE  Gateway!Has(k) <=> HasKey(tokens, k)
  BY DEF IsDict, HasKey, Gateway!Has

LEMMA ElapsedIsFresh ==
  ASSUME NEW e \in GatewayEntries
  PROVE  LET f == Gateway!Elapse(e) IN
         f \in GatewayEntries /\ f.key = e.key /\ f.from = e.from /\ (Fresh(e) => Fresh(f))
<1>1. e.left \in 0 .. MaxLife /\ e.expires \in Nat /\ MaxLife \in Nat
  BY GatewayBounds DEF GatewayEntries
<1>2. Gateway!Until(e.left - 1) \in 0 .. MaxLife /\ Gateway!Until(e.expires - 1) \in Nat
  BY <1>1 DEF Gateway!Until
<1>3. e.expires <= e.left => Gateway!Until(e.expires - 1) <= Gateway!Until(e.left - 1)
  BY <1>1 DEF Gateway!Until
<1> QED
  BY <1>2, <1>3 DEF Gateway!Elapse, GatewayEntries, Fresh

LEMMA ElapsedInFlight ==
  ASSUME NEW e \in GatewayEntries, FreshInFlight(e)
  PROVE  LET f == Gateway!ElapseInFlight(e) IN
         f \in GatewayEntries /\ f.key = e.key /\ FreshInFlight(f)
<1>1. PICK l \in 0 .. MaxLife, x \in Nat, d \in 0 .. (Buffer + 1) :
         l = e.left /\ x = e.expires /\ d = e.late
  BY DEF GatewayEntries
<1>2. MaxLife \in Nat /\ Buffer \in Nat
  BY GatewayBounds
<1> DEFINE f == Gateway!ElapseInFlight(e)
           l2 == Gateway!Until(l - 1)
           d2 == IF e.says # "expires_in" \/ d > Buffer THEN d ELSE d + 1
           x2 == IF e.says = "expires_at" THEN Gateway!Until(x - 1) ELSE x
<1>3. l2 \in 0 .. MaxLife /\ x2 \in Nat /\ d2 \in 0 .. (Buffer + 1)
  BY <1>1, <1>2 DEF Gateway!Until
<1>4. f = [e EXCEPT !.left = l2, !.late = d2, !.expires = x2]
  BY <1>1 DEF Gateway!ElapseInFlight
<1>5. /\ e.says = "expires_at" => (x <= l => x2 <= l2)
      /\ e.says = "expires_in" /\ d <= Buffer /\ (x = 0 \/ x + Buffer <= l + d) =>
            x2 = 0 \/ x2 + Buffer <= l2 + d2
      /\ e.says = "expires_in" /\ d > Buffer => d2 > Buffer
  BY <1>1, <1>2 DEF Gateway!Until
<1> HIDE DEF l2, d2, x2, f
<1>6. /\ f \in GatewayEntries /\ f.key = e.key /\ f.says = e.says
      /\ f.left = l2 /\ f.expires = x2 /\ f.late = d2
  BY <1>3, <1>4 DEF GatewayEntries
<1>7. FreshInFlight(f)
  BY <1>1, <1>2, <1>3, <1>5, <1>6 DEF FreshInFlight
<1> QED
  BY <1>6, <1>7 DEF f

LEMMA EntryIsFresh ==
  ASSUME NEW e \in GatewayEntries, FreshInFlight(e)
  PROVE  LET f == Gateway!Entry(e) IN
         f \in GatewayEntries /\ f.key = e.key /\ f.from = e.from /\ Fresh(f)
<1>1. PICK l \in 0 .. MaxLife, x \in Nat, d \in 0 .. (Buffer + 1) :
         l = e.left /\ x = e.expires /\ d = e.late
  BY DEF GatewayEntries
<1>2. MaxLife \in Nat /\ Buffer \in Nat /\ 0 \in 0 .. (Buffer + 1)
  BY GatewayBounds
<1> DEFINE f == Gateway!Entry(e)
           says == IF e.says = "none" \/ (e.says = "expires_in" /\ d > Buffer)
                   THEN "none" ELSE "expires_at"
<1>3. says \in Gateway!Metadata /\ (says = "none" \/ x <= l)
  BY <1>1, <1>2 DEF FreshInFlight, Gateway!Metadata, GatewayEntries
<1>4. f = [e EXCEPT !.late = 0, !.says = says]
  BY <1>1 DEF Gateway!Entry
<1> HIDE DEF f, says
<1>5. f.key = e.key /\ f.from = e.from /\ f.says = says /\ f.left = l /\ f.expires = x
  BY <1>1, <1>4 DEF GatewayEntries
<1>6. f \in GatewayEntries
  BY <1>2, <1>3, <1>4 DEF GatewayEntries
<1> QED
  BY <1>3, <1>5, <1>6 DEF Fresh, f

LEMMA IssuedIsFresh ==
  ASSUME NEW k \in Gateway!Keys, NEW life \in 0 .. MaxLife, NEW says \in Gateway!Metadata,
         NEW v \in Gateway!Versions
  PROVE  LET e == [key |-> k, left |-> life, says |-> says,
                   expires |-> Gateway!ExpiresAfter(life, says), from |-> v, late |-> 0] IN
         e \in GatewayEntries /\ FreshInFlight(e)
<1>1. life \in Nat /\ Buffer \in Nat /\ Fallback \in Nat /\ MaxLife \in Nat
  BY GatewayBounds
<1> DEFINE x == Gateway!ExpiresAfter(life, says)
<1>2. x \in Nat /\ (says = "none" \/ x = 0 \/ x + Buffer <= life)
  BY <1>1 DEF Gateway!ExpiresAfter, Gateway!Until
<1> HIDE DEF x
<1> DEFINE e == [key |-> k, left |-> life, says |-> says, expires |-> x, from |-> v, late |-> 0]
<1>3. e \in GatewayEntries
  BY <1>1, <1>2 DEF GatewayEntries
<1>4. FreshInFlight(e)
  BY <1>1, <1>2 DEF FreshInFlight, Gateway!Metadata
<1> QED
  BY <1>3, <1>4 DEF x

-----------------------------------------------------------------------------
Shrinks ==
    \/ Len(tokens') <= Len(tokens) /\ \A l : HasKey(tokens, l) => HasKey(tokens', l)
    \/ /\ Len(tokens') <= Len(tokens) - 1
       /\ \E k : \A l : l # k /\ HasKey(tokens, l) => HasKey(tokens', l)

LEMMA CacheMoves ==
  ASSUME CacheOK, UNCHANGED <<flow, version, urls>>, NEW s, tokens' = s, IsDict(s),
         \A e : Contains(s, e) => Contains(tokens, e)
  PROVE  CacheOK'
  BY DEF CacheOK, IsDict, Contains

LEMMA Touched ==
  ASSUME CacheOK, UNCHANGED <<flow, version, urls>>, NEW k, HasKey(tokens, k),
         tokens' = Gateway!AtEnd(Gateway!EntryOf(k))
  PROVE  CacheOK' /\ Shrinks /\ \A l : HasKey(tokens, l) <=> HasKey(tokens', l)
<1> DEFINE e == Gateway!EntryOf(k)
           s == Gateway!AtEnd(e)
<1>1. e \in GatewayEntries /\ e.key = k /\ Contains(tokens, e)
  BY FoundEntry
<1>2. IsDict(tokens) /\ Len(tokens) \in Nat
  BY DEF CacheOK, IsDict
<1> HIDE DEF e
<1>3. /\ IsDict(s)
      /\ \A l : HasKey(s, l) <=> HasKey(tokens, l) \/ l = k
      /\ \A f : Contains(s, f) => Contains(tokens, f) \/ f = e
      /\ Len(s) = Len(tokens)
  BY <1>1, <1>2, MovedToEnd
<1>4. tokens' = s
  BY DEF e
<1> HIDE DEF s
<1>5. CacheOK'
  BY <1>1, <1>3, <1>4, CacheMoves
<1> QED
  BY <1>2, <1>3, <1>4, <1>5 DEF Shrinks

LEMMA Dropped ==
  ASSUME CacheOK, UNCHANGED <<flow, version, urls>>, NEW k, tokens' = Gateway!Without(k)
  PROVE  CacheOK' /\ Shrinks
<1> DEFINE w == Gateway!Without(k)
<1>1. IsDict(tokens) /\ Len(tokens) \in Nat
  BY DEF CacheOK, IsDict
<1>2. /\ IsDict(w)
      /\ \A l : l # k => (HasKey(w, l) <=> HasKey(tokens, l))
      /\ \A e : Contains(w, e) => Contains(tokens, e)
      /\ Len(w) = IF HasKey(tokens, k) THEN Len(tokens) - 1 ELSE Len(tokens)
  BY <1>1, WithoutKey
<1> HIDE DEF w
<1>3. tokens' = w
  BY DEF w
<1>4. CacheOK'
  BY <1>2, <1>3, CacheMoves
<1>5. CASE HasKey(tokens, k)
  BY <1>1, <1>2, <1>3, <1>4, <1>5 DEF Shrinks
<1>6. CASE ~HasKey(tokens, k)
  <2>1. \A l : HasKey(tokens, l) => HasKey(w, l)
    BY <1>2, <1>6
  <2> QED
    BY <1>1, <1>2, <1>3, <1>4, <1>6, <2>1 DEF Shrinks
<1> QED
  BY <1>5, <1>6

LEMMA TokensKept ==
  ASSUME CacheOK, UNCHANGED <<flow, version, tokens, urls>>
  PROVE  CacheOK' /\ Shrinks
<1>1. Len(tokens) \in Nat
  BY DEF CacheOK, IsDict
<1> QED
  BY <1>1 DEF CacheOK, Shrinks, IsDict, Contains

\* A step of one caller that neither inserts nor evicts, nor has moved an entry
LEMMA QuietStep ==
  ASSUME GatewayIInv, CacheOK', Shrinks, NEW c \in Callers, Gateway!Busy(c),
         request[c].pc \notin {"evict", "pop"},
         request[c].pc = "move" => ~HasKey(tokens, request[c].key),
         NEW q, RequestOK(q), request' = [request EXCEPT ![c] = q],
         q.alone = request[c].alone,
         q.alone => /\ q.pc \notin {"key_error", "pop"}
                    /\ q.pc \in Needs => HasKey(tokens', q.key)
  PROVE  GatewayIInv'
<1>1. RequestsOK' /\ AloneOK'
  BY OneCallerSteps DEF GatewayIInv
<1>2. \A d \in Callers : d # c => request'[d] = request[d]
  BY DEF GatewayIInv, RequestsOK
<1>3. Evicting \subseteq Evicting'
  BY <1>2 DEF Evicting
<1>4. \A d \in Callers : request[d].pc = "move" /\ HasKey(tokens, request[d].key) =>
         request'[d].pc = "move" /\ request'[d].key = request[d].key
  BY <1>2
<1>5. Len(tokens) \in Nat /\ Len(tokens') \in Nat
  BY DEF GatewayIInv, CacheOK, IsDict
<1>6. SizeOK'
  BY <1>3, <1>4, <1>5, SizeShrinks DEF GatewayIInv, Shrinks
<1> QED
  BY <1>1, <1>6 DEF GatewayIInv

LEMMA CustomerLooksUp ==
  ASSUME GatewayIInv, NEW c \in Callers, Gateway!Lookup(c) \/ Gateway!Judge(c)
  PROVE  GatewayIInv'
<1>0. request[c] \in Requests /\ RequestOK(request[c]) /\ IsDict(tokens) /\ CacheOK
  BY DEF GatewayIInv, RequestsOK, CacheOK
<1>1. CASE Gateway!Lookup(c)
  <2> DEFINE k == request[c].key
             l == IF Gateway!Has(k) THEN "judge" ELSE "fetch"
             e == IF Gateway!Has(k) THEN Gateway!EntryOf(k) ELSE Gateway!NoEntry
             q == [request[c] EXCEPT !.pc = l, !.token = e]
  <2>1. /\ request[c].pc = "lookup" /\ request' = [request EXCEPT ![c] = q]
        /\ UNCHANGED <<flow, version, tokens, urls>>
    BY <1>1 DEF Gateway!Lookup, Gateway!At, GatewayIInv, RequestsOK
  <2>2. e \in GatewayEntries /\ Fresh(e)
    BY <1>0, FoundEntry, HasIsHasKey, NoEntryIsFresh
  <2>3. /\ l \in GatewayLabels /\ l \notin {"key_error", "answered", "pop"}
        /\ l \in Needs => HasKey(tokens, k)
    BY <1>0, HasIsHasKey DEF GatewayLabels, Needs
  <2> HIDE DEF l, e
  <2>4. IsNext(q, request[c], l, e)
    BY <1>0, <2>2, <2>3, RequestWith, Zenon
  <2> HIDE DEF q
  <2>5. RequestOK(q)
    BY <1>0, <2>2, <2>3, <2>4 DEF RequestOK, IsNext
  <2>6. Gateway!Busy(c)
    BY <2>1 DEF Gateway!Busy
  <2> QED
    BY <1>0, <2>1, <2>3, <2>4, <2>5, <2>6, TokensKept, QuietStep DEF IsNext
<1>2. CASE Gateway!Judge(c)
  <2> DEFINE e == request[c].token
             l == IF Gateway!IsValid(e) THEN "touch" ELSE "drop"
             a == Gateway!IsValid(e) => Gateway!Alive(e)
             q == [request[c] EXCEPT !.pc = l, !.alive = a, !.token = Gateway!NoEntry]
  <2>1. /\ request[c].pc = "judge" /\ request' = [request EXCEPT ![c] = q]
        /\ UNCHANGED <<flow, version, tokens, urls>>
    BY <1>2 DEF Gateway!Judge, Gateway!At, GatewayIInv, RequestsOK
  <2>2. a = TRUE
    <3>1. Fresh(e) /\ e.expires \in Nat /\ e.left \in Nat
      BY <1>0, <2>1, GatewayBounds DEF RequestOK, Requests, GatewayEntries
    <3> QED
      BY <3>1 DEF Fresh, Gateway!IsValid, Gateway!Alive
  <2>3. l \in GatewayLabels /\ l \in {"touch", "drop"}
    BY DEF GatewayLabels
  <2>4. request[c].alone => HasKey(tokens, request[c].key)
    BY <2>1 DEF GatewayIInv, AloneOK, Needs
  <2> HIDE DEF l, a
  <2>5. /\ RequestOK(q) /\ q.pc = l /\ q.alone = request[c].alone /\ q.key = request[c].key
    BY <1>0, <2>2, <2>3, NoEntryIsFresh DEF RequestOK, Requests
  <2> HIDE DEF q
  <2>6. Gateway!Busy(c)
    BY <2>1 DEF Gateway!Busy
  <2> QED
    BY <1>0, <2>1, <2>3, <2>4, <2>5, <2>6, TokensKept, QuietStep
<1> QED
  BY <1>1, <1>2

\* The same for a step that only goes on to l
LEMMA QuietGoto ==
  ASSUME GatewayIInv, CacheOK', Shrinks, NEW c \in Callers, Gateway!Busy(c),
         request[c].pc \notin {"evict", "pop", "answered"},
         request[c].pc = "move" => ~HasKey(tokens, request[c].key),
         NEW l \in GatewayLabels, l \notin {"answered", "pop"}, Gateway!Goto(c, l),
         request[c].alone => l # "key_error" /\ (l \in Needs => HasKey(tokens', request[c].key))
  PROVE  GatewayIInv'
<1> DEFINE q == [request[c] EXCEPT !.pc = l]
<1>1. request[c] \in Requests /\ RequestOK(request[c]) /\ request' = [request EXCEPT ![c] = q]
  BY DEF GatewayIInv, RequestsOK, Gateway!Goto
<1>2. IsNext(q, request[c], l, request[c].token)
  BY <1>1, RequestAt
<1> HIDE DEF q
<1>3. RequestOK(q)
  BY <1>1, <1>2 DEF RequestOK, IsNext
<1> QED
  BY <1>1, <1>2, <1>3, QuietStep DEF IsNext

LEMMA CustomerTouches ==
  ASSUME GatewayIInv, NEW c \in Callers,
         Gateway!Touch(c) \/ Gateway!Drop(c) \/ Gateway!IssueFails(c)
  PROVE  GatewayIInv'
<1> DEFINE k == request[c].key
<1>0. IsDict(tokens) /\ CacheOK /\ (Gateway!Has(k) <=> HasKey(tokens, k))
  BY HasIsHasKey DEF GatewayIInv, CacheOK
<1>1. CASE Gateway!Touch(c)
  <2> DEFINE l == IF Gateway!Has(k) THEN "returned" ELSE "key_error"
  <2>1. /\ request[c].pc = "touch" /\ Gateway!Goto(c, l) /\ UNCHANGED <<flow, version, urls>>
        /\ tokens' = IF Gateway!Has(k) THEN Gateway!AtEnd(Gateway!EntryOf(k)) ELSE tokens
    BY <1>1 DEF Gateway!Touch, Gateway!At
  <2>2. CacheOK' /\ Shrinks
    BY <1>0, <2>1, Touched, TokensKept
  <2>3. request[c].alone => HasKey(tokens, k)
    BY <2>1 DEF GatewayIInv, AloneOK, Needs
  <2> QED
    BY <1>0, <2>1, <2>2, <2>3, QuietGoto DEF Gateway!Busy, GatewayLabels, Needs
<1>2. CASE Gateway!Drop(c)
  <2> DEFINE l == IF Gateway!Has(k) THEN "fetch" ELSE "key_error"
  <2>1. /\ request[c].pc = "drop" /\ Gateway!Goto(c, l) /\ UNCHANGED <<flow, version, urls>>
        /\ tokens' = Gateway!Without(k)
    BY <1>2 DEF Gateway!Drop, Gateway!At
  <2>2. CacheOK' /\ Shrinks
    BY <1>0, <2>1, Dropped
  <2>3. request[c].alone => HasKey(tokens, k)
    BY <2>1 DEF GatewayIInv, AloneOK, Needs
  <2> QED
    BY <1>0, <2>1, <2>2, <2>3, QuietGoto DEF Gateway!Busy, GatewayLabels, Needs
<1>3. CASE Gateway!IssueFails(c)
  <2>1. /\ request[c].pc = "fetch" /\ Gateway!Goto(c, "raised")
        /\ UNCHANGED <<flow, version, tokens, urls>>
    BY <1>3 DEF Gateway!IssueFails, Gateway!At
  <2>2. CacheOK' /\ Shrinks
    BY <1>0, <2>1, TokensKept
  <2> QED
    BY <2>1, <2>2, QuietGoto DEF Gateway!Busy, GatewayLabels, Needs
<1> QED
  BY <1>1, <1>2, <1>3

LEMMA TokenIsIssued ==
  ASSUME GatewayIInv, NEW c \in Callers, Gateway!Issue(c)
  PROVE  GatewayIInv'
<1>0. request[c] \in Requests /\ RequestOK(request[c]) /\ CacheOK /\ version \in Gateway!Versions
      /\ request[c].key \in Gateway!Keys
  BY DEF GatewayIInv, RequestsOK, CacheOK, Requests
<1>1. PICK life \in 0 .. MaxLife, says \in Gateway!Metadata :
         request' = [request EXCEPT ![c].pc = "answered",
              ![c].token = [key |-> request[c].key, left |-> life, says |-> says,
                            expires |-> Gateway!ExpiresAfter(life, says),
                            from |-> version, late |-> 0]]
  BY DEF Gateway!Issue
<1>2. request[c].pc = "fetch" /\ UNCHANGED <<flow, version, tokens, urls>>
  BY DEF Gateway!Issue, Gateway!At
<1> DEFINE e == [key |-> request[c].key, left |-> life, says |-> says,
                 expires |-> Gateway!ExpiresAfter(life, says), from |-> version, late |-> 0]
           q == [request[c] EXCEPT !.pc = "answered", !.token = e]
<1>3. e \in GatewayEntries /\ FreshInFlight(e) /\ e.key = request[c].key
  BY <1>0, IssuedIsFresh
<1>4. request' = [request EXCEPT ![c] = q]
  BY <1>1 DEF GatewayIInv, RequestsOK
<1> HIDE DEF e
<1>5. IsNext(q, request[c], "answered", e)
  BY <1>0, <1>3, RequestWith DEF GatewayLabels
<1> HIDE DEF q
<1>6. RequestOK(q)
  BY <1>0, <1>3, <1>5 DEF RequestOK, IsNext
<1>7. Gateway!Busy(c)
  BY <1>2 DEF Gateway!Busy
<1> QED
  BY <1>0, <1>2, <1>4, <1>5, <1>6, <1>7, TokensKept, QuietStep DEF IsNext, Needs

LEMMA LobLooksUp ==
  ASSUME GatewayIInv, NEW c \in Callers, Gateway!LookupBoth(c)
  PROVE  GatewayIInv'
<1> DEFINE k == request[c].key
           e == Gateway!EntryOf(k)
           found == Gateway!Has(k) /\ Gateway!IsValid(e)
           hit == found /\ urls[Gateway!Scope(k)] # Gateway!NoUrl
           a == Gateway!Alive(e)
           p == Gateway!Paired(e)
           q1 == [request[c] EXCEPT !.pc = "returned", !.alive = a, !.paired = p]
           q2 == [request[c] EXCEPT !.pc = "fetch"]
           q == IF hit THEN q1 ELSE q2
<1>0. request[c] \in Requests /\ RequestOK(request[c]) /\ CacheOK /\ IsDict(tokens)
      /\ (Gateway!Has(k) <=> HasKey(tokens, k))
  BY HasIsHasKey DEF GatewayIInv, RequestsOK, CacheOK
<1>1. /\ flow = "lob" /\ request[c].pc = "lookup" /\ UNCHANGED <<flow, version, urls>>
      /\ tokens' = IF found THEN Gateway!AtEnd(e) ELSE Gateway!Without(k)
      /\ request' = [request EXCEPT ![c] = q]
  BY DEF Gateway!LookupBoth, Gateway!At, GatewayIInv, RequestsOK
<1>2. CacheOK' /\ Shrinks
  BY <1>0, <1>1, Touched, Dropped
<1>3. hit => a = TRUE /\ p = TRUE
  <2> SUFFICES ASSUME hit PROVE a = TRUE /\ p = TRUE
    OBVIOUS
  <2>1. e \in GatewayEntries /\ e.key = k /\ Contains(tokens, e) /\ Fresh(e)
    BY <1>0, FoundEntry
  <2>2. p
    BY <1>0, <1>1, <2>1 DEF CacheOK, Belongs, Gateway!Paired
  <2>3. e.expires \in Nat /\ e.left \in Nat
    BY <2>1, GatewayBounds DEF GatewayEntries
  <2>4. a
    BY <2>1, <2>3 DEF Fresh, Gateway!IsValid, Gateway!Alive
  <2> QED
    BY <2>2, <2>4
<1> HIDE DEF a, p
<1>4. hit => RequestOK(q1) /\ q1.alone = request[c].alone /\ q1.pc = "returned"
  BY <1>0, <1>1, <1>3 DEF RequestOK, Requests, GatewayLabels
<1>5. IsNext(q2, request[c], "fetch", request[c].token)
  BY <1>0, RequestAt DEF GatewayLabels
<1> HIDE DEF q1, q2, hit
<1>6. RequestOK(q2)
  BY <1>0, <1>1, <1>5 DEF RequestOK, IsNext
<1>7. RequestOK(q) /\ q.alone = request[c].alone /\ q.pc \in {"returned", "fetch"}
  BY <1>4, <1>5, <1>6 DEF IsNext
<1>8. Gateway!Busy(c)
  BY <1>1 DEF Gateway!Busy
<1> HIDE DEF q
<1> QED
  BY <1>1, <1>2, <1>7, <1>8, QuietStep DEF Needs

LEMMA CacheBecomes ==
  ASSUME CacheOK, UNCHANGED <<flow, version>>,
         urls' \in [Scopes -> Urls], NEW s, tokens' = s, IsDict(s),
         \A f : Contains(s, f) => Fresh(f) /\ (flow = "lob" => Belongs(urls', f))
  PROVE  CacheOK'
  BY DEF CacheOK, IsDict, Contains

\* The entry a response becomes
LEMMA Arrived ==
  ASSUME GatewayIInv, NEW c \in Callers, request[c].pc = "answered"
  PROVE  LET e == Gateway!Entry(request[c].token) IN
         /\ e \in GatewayEntries /\ e.key \in Gateway!Keys /\ e.from \in Gateway!Versions
         /\ Fresh(e) /\ e.key = request[c].key
<1>1. /\ request[c].token \in GatewayEntries /\ FreshInFlight(request[c].token)
      /\ request[c].token.key = request[c].key
  BY DEF GatewayIInv, RequestsOK, RequestOK, Requests
<1>2. LET e == Gateway!Entry(request[c].token) IN
      e \in GatewayEntries /\ Fresh(e) /\ e.key = request[c].token.key
  BY <1>1, EntryIsFresh
<1> QED
  BY <1>1, <1>2 DEF GatewayEntries

LEMMA EndedRequest ==
  ASSUME NEW r \in Requests, r.alive, r.paired, NEW l \in {"move", "returned"}
  PROVE  LET q == Gateway!Ended(r, l) IN
         RequestOK(q) /\ q.pc = l /\ q.key = r.key /\ q.alone = r.alone
  BY NoEntryIsFresh DEF Gateway!Ended, RequestOK, Requests, GatewayLabels

\* One entry more, for which c counts
LEMMA SizeGrows ==
  ASSUME SizeOK, Len(tokens) \in Nat, Len(tokens') = Len(tokens) + 1,
         NEW c \in Callers, request[c].pc = "answered",
         request'[c].pc = "move",
         ~HasKey(tokens, request'[c].key), HasKey(tokens', request'[c].key),
         \A d \in Callers : d # c => request'[d] = request[d],
         \A l : HasKey(tokens, l) => HasKey(tokens', l)
  PROVE  SizeOK'
<1>1. PICK R : Surplus(R)
  BY DEF SizeOK
<1> DEFINE U == R \cup Evicting
           V == (R \cup {c}) \cup Evicting'
<1>2. U \subseteq Callers /\ c \notin U
  BY <1>1 DEF Surplus, Evicting
<1>3. V = U \cup {c}
  BY DEF Evicting
<1>4. IsFiniteSet(U) /\ Cardinality(U) \in Nat
  BY <1>2, GatewayBounds, FS_Subset, FS_CardinalityType
<1>5. Cardinality(V) = Cardinality(U) + 1
  BY <1>2, <1>3, <1>4, FS_AddElement
<1>6. Len(tokens) <= MaxTokens + Cardinality(U)
  BY <1>1 DEF Surplus
<1>7. Len(tokens') <= MaxTokens + Cardinality(V)
  <2> HIDE DEF U, V
  <2> QED
    BY <1>4, <1>5, <1>6, GatewayBounds
<1>8. \A d \in R : d # c /\ request'[d] = request[d] /\ request[d].key # request'[c].key
  BY <1>1, <1>2 DEF Surplus
<1>9. /\ \A d \in R \cup {c} : request'[d].pc = "move" /\ HasKey(tokens', request'[d].key)
      /\ \A d, f \in R \cup {c} : request'[d].key = request'[f].key => d = f
  BY <1>1, <1>8 DEF Surplus
<1>10. PICK P : P = R \cup {c}
  OBVIOUS
<1>11. Surplus(P)'
  BY <1>1, <1>7, <1>9, <1>10 DEF Surplus, HasKey
<1> QED
  BY <1>11 DEF SizeOK

LEMMA CustomerInserts ==
  ASSUME GatewayIInv, NEW c \in Callers, Gateway!Insert(c)
  PROVE  GatewayIInv'
<1> DEFINE e == Gateway!Entry(request[c].token)
           s == Gateway!Assigned(e)
           q == Gateway!Ended(request[c], "move")
           k == request[c].key
<1>0. /\ request[c] \in Requests /\ request[c].alive /\ request[c].paired
      /\ CacheOK /\ IsDict(tokens)
      /\ Len(tokens) \in Nat
  BY DEF GatewayIInv, RequestsOK, RequestOK, CacheOK, IsDict
<1>1. /\ flow = "customer" /\ request[c].pc = "answered" /\ UNCHANGED <<flow, version, urls>>
      /\ tokens' = s /\ request' = [request EXCEPT ![c] = q]
  BY DEF Gateway!Insert, Gateway!At, GatewayIInv, RequestsOK
<1>2. e \in GatewayEntries /\ Fresh(e) /\ e.key = k
  BY <1>1, Arrived
<1> HIDE DEF e
<1>3. /\ IsDict(s)
      /\ \A l : HasKey(s, l) <=> HasKey(tokens, l) \/ l = k
      /\ \A f : Contains(s, f) => Contains(tokens, f) \/ f = e
      /\ Len(s) = IF HasKey(tokens, k) THEN Len(tokens) ELSE Len(tokens) + 1
  BY <1>0, <1>2, AssignedAt
<1>4. RequestOK(q) /\ q.pc = "move" /\ q.key = k /\ q.alone = request[c].alone
  BY <1>0, EndedRequest
<1> HIDE DEF s, q
<1>5. CacheOK'
  <2>1. \A f : Contains(s, f) => Fresh(f)
    BY <1>0, <1>2, <1>3 DEF CacheOK
  <2> QED
    BY <1>0, <1>1, <1>3, <2>1, CacheBecomes DEF CacheOK
<1>6. Gateway!Busy(c)
  BY <1>1 DEF Gateway!Busy
<1>7. CASE HasKey(tokens, k)
  <2>1. Shrinks
    BY <1>0, <1>1, <1>3, <1>7 DEF Shrinks
  <2> QED
    BY <1>1, <1>3, <1>4, <1>5, <1>6, <2>1, QuietStep
<1>8. CASE ~HasKey(tokens, k)
  <2>1. RequestsOK' /\ AloneOK'
    BY <1>1, <1>3, <1>4, <1>6, OneCallerSteps DEF GatewayIInv
  <2>2. request'[c] = q /\ \A d \in Callers : d # c => request'[d] = request[d]
    BY <1>1 DEF GatewayIInv, RequestsOK
  <2>3. SizeOK'
    BY <1>0, <1>1, <1>3, <1>4, <1>8, <2>2, SizeGrows DEF GatewayIInv
  <2> QED
    BY <1>5, <2>1, <2>3 DEF GatewayIInv
<1> QED
  BY <1>7, <1>8

LEMMA CustomerMoves ==
  ASSUME GatewayIInv, NEW c \in Callers, Gateway!Move(c)
  PROVE  GatewayIInv'
<1> DEFINE k == request[c].key
           q == [request[c] EXCEPT !.pc = "evict"]
<1>0. /\ request[c] \in Requests /\ RequestOK(request[c]) /\ CacheOK /\ IsDict(tokens)
      /\ Len(tokens) \in Nat /\ (Gateway!Has(k) <=> HasKey(tokens, k))
  BY HasIsHasKey DEF GatewayIInv, RequestsOK, CacheOK, IsDict
<1>1. request[c].pc = "move" /\ Gateway!Busy(c)
  BY DEF Gateway!Move, Gateway!At, Gateway!Busy
<1>2. CASE HasKey(tokens, k)
  <2>1. /\ UNCHANGED <<flow, version, urls>> /\ request' = [request EXCEPT ![c] = q]
        /\ tokens' = Gateway!AtEnd(Gateway!EntryOf(k))
    BY <1>0, <1>2 DEF Gateway!Move, Gateway!Goto, GatewayIInv, RequestsOK
  <2>2. CacheOK' /\ Shrinks /\ \A l : HasKey(tokens, l) <=> HasKey(tokens', l)
    BY <1>0, <1>2, <2>1, Touched
  <2>3. IsNext(q, request[c], "evict", request[c].token)
    BY <1>0, RequestAt DEF GatewayLabels
  <2> HIDE DEF q
  <2>4. RequestOK(q)
    BY <1>0, <1>1, <2>3 DEF RequestOK, IsNext
  <2>5. RequestsOK' /\ AloneOK'
    BY <1>1, <2>1, <2>3, <2>4, OneCallerSteps DEF GatewayIInv, IsNext, Needs
  <2>6. request'[c].pc = "evict" /\ \A d \in Callers : d # c => request'[d] = request[d]
    BY <2>1, <2>3 DEF GatewayIInv, RequestsOK, IsNext
  <2>7. PICK R : Surplus(R)
    BY DEF GatewayIInv, SizeOK
  <2>8. PICK Q : Q = R \ {c}
    OBVIOUS
  <2>9. R \cup Evicting \subseteq Q \cup Evicting' /\ Q \cup Evicting' \subseteq Callers
    BY <1>1, <2>6, <2>7, <2>8 DEF Evicting, Surplus
  <2>10. Len(tokens') <= MaxTokens + Cardinality(Q \cup Evicting')
    <3>1. PICK U, V : U = R \cup Evicting /\ V = Q \cup Evicting'
      OBVIOUS
    <3>2. Cardinality(U) <= Cardinality(V) /\ Cardinality(V) \in Nat /\ Cardinality(U) \in Nat
      BY <2>9, <3>1, GatewayBounds, FS_Subset, FS_CardinalityType
    <3>3. Len(tokens) <= MaxTokens + Cardinality(U)
      BY <2>7, <3>1 DEF Surplus
    <3>4. Len(tokens') <= Len(tokens) /\ Len(tokens') \in Nat
      BY <1>0, <2>2 DEF Shrinks, CacheOK, IsDict
    <3>5. Len(tokens') <= MaxTokens + Cardinality(V)
      BY <1>0, <3>2, <3>3, <3>4, GatewayBounds
    <3> QED
      BY <3>1, <3>5
  <2>11. /\ Q \subseteq Callers
         /\ \A d \in Q : request'[d].pc = "move" /\ HasKey(tokens', request'[d].key)
         /\ \A d, f \in Q : request'[d].key = request'[f].key => d = f
    BY <2>2, <2>6, <2>7, <2>8 DEF Surplus
  <2>12. Surplus(Q)'
    BY <2>10, <2>11 DEF Surplus, HasKey
  <2> QED
    BY <2>2, <2>5, <2>12 DEF GatewayIInv, SizeOK
<1>3. CASE ~HasKey(tokens, k)
  <2>1. Gateway!Goto(c, "key_error") /\ UNCHANGED <<flow, version, tokens, urls>>
    BY <1>0, <1>3 DEF Gateway!Move
  <2>2. CacheOK' /\ Shrinks
    BY <1>0, <2>1, TokensKept
  <2>3. ~request[c].alone
    BY <1>1, <1>3 DEF GatewayIInv, AloneOK, Needs
  <2> QED
    BY <1>1, <1>3, <2>1, <2>2, <2>3, QuietGoto DEF GatewayLabels
<1> QED
  BY <1>2, <1>3

LEMMA CustomerEvicts ==
  ASSUME GatewayIInv, NEW c \in Callers, Gateway!Evict(c)
  PROVE  GatewayIInv'
<1>0. /\ request[c] \in Requests /\ RequestOK(request[c]) /\ CacheOK /\ IsDict(tokens)
      /\ Len(tokens) \in Nat
  BY DEF GatewayIInv, RequestsOK, CacheOK, IsDict
<1>1. /\ request[c].pc = "evict" /\ Gateway!Busy(c)
      /\ UNCHANGED <<flow, version, tokens, urls>>
  BY DEF Gateway!Evict, Gateway!At, Gateway!Busy
<1> DEFINE l == IF Len(tokens) > MaxTokens THEN "pop" ELSE "returned"
           q == [request[c] EXCEPT !.pc = l]
<1>2. request' = [request EXCEPT ![c] = q]
  BY DEF Gateway!Evict, Gateway!Goto, GatewayIInv, RequestsOK
<1>3. /\ l \in GatewayLabels /\ l \in {"pop", "returned"}
      /\ l = "pop" => tokens # <<>>
      /\ l # "pop" => Len(tokens) <= MaxTokens
  BY <1>0, GatewayBounds DEF GatewayLabels
<1> HIDE DEF l
<1>4. IsNext(q, request[c], l, request[c].token)
  BY <1>0, <1>3, RequestAt
<1> HIDE DEF q
<1>5. RequestOK(q)
  BY <1>0, <1>1, <1>3, <1>4 DEF RequestOK, IsNext
<1>6. RequestsOK' /\ AloneOK'
  BY <1>1, <1>2, <1>3, <1>4, <1>5, OneCallerSteps DEF GatewayIInv, IsNext, Needs
<1>7. CacheOK'
  BY <1>0, <1>1, TokensKept
<1>8. SizeOK'
  <2>1. CASE l = "pop"
    <3>1. request'[c].pc = "pop" /\ \A d \in Callers : d # c => request'[d] = request[d]
      BY <1>2, <1>4, <2>1 DEF GatewayIInv, RequestsOK, IsNext
    <3>2. Evicting \subseteq Evicting'
      BY <3>1 DEF Evicting
    <3>3. Len(tokens') \in Nat /\ Len(tokens') = Len(tokens)
          /\ \A k : HasKey(tokens, k) => HasKey(tokens', k)
      BY <1>0, <1>1 DEF HasKey
    <3> QED
      BY <1>0, <1>1, <3>1, <3>2, <3>3, SizeShrinks DEF GatewayIInv
  <2>2. CASE l # "pop"
    BY <1>0, <1>1, <1>3, <2>2, GatewayBounds, SizeInBounds
  <2> QED
    BY <2>1, <2>2
<1> QED
  BY <1>6, <1>7, <1>8 DEF GatewayIInv

LEMMA CustomerPops ==
  ASSUME GatewayIInv, NEW c \in Callers, Gateway!Pop(c)
  PROVE  GatewayIInv'
<1>0. /\ request[c] \in Requests /\ RequestOK(request[c]) /\ CacheOK /\ IsDict(tokens)
      /\ Len(tokens) \in Nat
  BY DEF GatewayIInv, RequestsOK, CacheOK, IsDict
<1>1. request[c].pc = "pop" /\ Gateway!Busy(c) /\ UNCHANGED <<flow, version, urls>>
  BY DEF Gateway!Pop, Gateway!At, Gateway!Busy
<1> DEFINE l == IF tokens = <<>> THEN "key_error" ELSE "evict"
           q == [request[c] EXCEPT !.pc = l]
<1>2. request' = [request EXCEPT ![c] = q]
  BY DEF Gateway!Pop, Gateway!Goto, GatewayIInv, RequestsOK
<1>3. /\ l \in GatewayLabels /\ l \in {"key_error", "evict"}
      /\ request[c].alone => l # "key_error"
  BY <1>1 DEF GatewayLabels, GatewayIInv, AloneOK
<1> HIDE DEF l
<1>4. IsNext(q, request[c], l, request[c].token)
  BY <1>0, <1>3, RequestAt
<1> HIDE DEF q
<1>5. RequestOK(q)
  BY <1>0, <1>1, <1>3, <1>4 DEF RequestOK, IsNext
<1>6. RequestsOK' /\ AloneOK'
  BY <1>1, <1>2, <1>3, <1>4, <1>5, OneCallerSteps DEF GatewayIInv, IsNext, Needs
<1>7. request'[c].pc = l /\ \A d \in Callers : d # c => request'[d] = request[d]
  BY <1>2, <1>4 DEF GatewayIInv, RequestsOK, IsNext
<1>8. CASE tokens = <<>>
  <2>1. tokens' = tokens /\ Len(tokens) = 0
    BY <1>8 DEF Gateway!Pop
  <2>2. SizeOK'
    BY <2>1, GatewayBounds, SizeInBounds
  <2> QED
    BY <1>0, <1>1, <1>6, <2>1, <2>2, TokensKept DEF GatewayIInv
<1>9. CASE tokens # <<>>
  <2>1. tokens' = Tail(tokens) /\ Len(tokens) > 0 /\ l = "evict"
    BY <1>0, <1>9 DEF Gateway!Pop, IsDict, l
  <2>2. /\ IsDict(Tail(tokens)) /\ Len(Tail(tokens)) = Len(tokens) - 1
        /\ \A f : Contains(Tail(tokens), f) => Contains(tokens, f)
        /\ \E k : \A m : m # k => (HasKey(Tail(tokens), m) <=> HasKey(tokens, m))
    BY <1>0, <2>1, FirstRemoved
  <2>3. PICK t : t = Tail(tokens)
    OBVIOUS
  <2>4. CacheOK'
    BY <1>0, <1>1, <2>1, <2>2, <2>3, CacheMoves
  <2>5. Len(t) = Len(tokens) - 1 /\ Len(tokens) \in Nat /\ Len(t) \in Nat
        /\ \E k : \A m : m # k /\ HasKey(tokens, m) => HasKey(t, m)
    BY <1>0, <2>1, <2>2, <2>3
  <2>6. Evicting \subseteq Evicting'
    BY <1>7, <2>1 DEF Evicting
  <2>7. \A d \in Callers : request[d].pc = "move" /\ HasKey(tokens, request[d].key) =>
           request'[d].pc = "move" /\ request'[d].key = request[d].key
    BY <1>1, <1>7
  <2>8. /\ Len(tokens') \in Nat /\ Len(tokens') <= Len(tokens) - 1
        /\ \E k : \A m : m # k /\ HasKey(tokens, m) => HasKey(tokens', m)
    <3>1. tokens' = t
      BY <2>1, <2>3
    <3>2. Len(tokens') \in Nat /\ Len(tokens') <= Len(tokens) - 1
      BY <2>5, <3>1
    <3>3. \A m : HasKey(t, m) => HasKey(tokens', m)
      BY <3>1 DEF HasKey
    <3>4. PICK k : \A m : m # k /\ HasKey(tokens, m) => HasKey(t, m)
      BY <2>5
    <3>5. \A m : m # k /\ HasKey(tokens, m) => HasKey(tokens', m)
      BY <3>3, <3>4
    <3> QED
      BY <3>2, <3>5
  <2>9. SizeOK'
    <3>1. SizeOK /\ Len(tokens) \in Nat /\ Len(tokens') \in Nat
      BY <1>0, <2>8 DEF GatewayIInv
    <3>2. \/ Len(tokens') <= Len(tokens) /\ \A m : HasKey(tokens, m) => HasKey(tokens', m)
          \/ /\ Len(tokens') <= Len(tokens) - 1
             /\ \E k : \A m : m # k /\ HasKey(tokens, m) => HasKey(tokens', m)
      BY <2>8
    <3> QED
      BY <2>6, <2>7, <3>1, <3>2, SizeShrinks
  <2> QED
    BY <1>6, <2>4, <2>9 DEF GatewayIInv
<1> QED
  BY <1>8, <1>9

LEMMA InDict ==
  ASSUME NEW s, IsDict(s), NEW f, Contains(s, f)
  PROVE  f.key \in Gateway!Keys /\ Gateway!Scope(f.key) \in Scopes
<1>1. f \in GatewayEntries
  BY DEF IsDict, Contains
<1>2. f.key \in Gateway!Keys
  BY <1>1 DEF GatewayEntries
<1> QED
  BY <1>2 DEF Gateway!Keys, Gateway!Scope

\* What leaves the tokens and the requests alone, and the cache in order
LEMMA OnlyTheCache ==
  ASSUME GatewayIInv, UNCHANGED <<tokens, request>>, CacheOK'
  PROVE  GatewayIInv'
<1>1. RequestsOK' /\ AloneOK'
  BY DEF GatewayIInv, RequestsOK, RequestOK, AloneOK, HasKey, Gateway!Busy
<1>2. Evicting' = Evicting
  BY DEF Evicting
<1>3. SizeOK'
  BY <1>2 DEF GatewayIInv, SizeOK, Surplus, HasKey
<1> QED
  BY <1>1, <1>3 DEF GatewayIInv

LEMMA OthersStore ==
  ASSUME GatewayIInv, Gateway!StoreOtherKind
  PROVE  GatewayIInv'
<1>0. CacheOK
  BY DEF GatewayIInv
<1>1. PICK kept \in SUBSET Scopes : urls' = [x \in Scopes |-> Gateway!Keeping(kept, x)]
  BY DEF Gateway!StoreOtherKind
<1>2. UNCHANGED <<flow, version, tokens, request>>
  BY DEF Gateway!StoreOtherKind
<1>3. \A x \in Scopes : urls'[x] \in {urls[x], Gateway!NoUrl}
  BY <1>1 DEF Gateway!Keeping
<1>4. urls' \in [Scopes -> Urls]
  BY <1>0, <1>1, <1>3 DEF CacheOK, Urls
<1>5. ASSUME NEW f, Contains(tokens, f)
      PROVE  Fresh(f) /\ (flow = "lob" => Belongs(urls', f))
  <2>1. Gateway!Scope(f.key) \in Scopes /\ Fresh(f) /\ (flow = "lob" => Belongs(urls, f))
    BY <1>0, <1>5, InDict DEF CacheOK
  <2> QED
    BY <1>3, <2>1 DEF Belongs
<1>6. CacheOK'
  BY <1>0, <1>2, <1>4, <1>5, CacheBecomes DEF CacheOK
<1> QED
  BY <1>2, <1>6, OnlyTheCache

LEMMA TrimmedDict ==
  ASSUME NEW s, IsDict(s)
  PROVE  LET t == Gateway!Trimmed(s) IN
         /\ IsDict(t) /\ Len(t) <= MaxTokens /\ Len(t) \in Nat
         /\ \A f : Contains(t, f) => Contains(s, f)
<1>0. Len(s) \in Nat /\ MaxTokens \in Nat
  BY GatewayBounds DEF IsDict
<1>1. CASE Len(s) > MaxTokens
  <2>1. Len(s) - MaxTokens + 1 \in 1 .. (Len(s) + 1)
    BY <1>0, <1>1
  <2>2. Gateway!Trimmed(s) = SubSeq(s, Len(s) - MaxTokens + 1, Len(s))
    BY <1>1 DEF Gateway!Trimmed
  <2>3. PICK n \in 1 .. (Len(s) + 1) : n = Len(s) - MaxTokens + 1
    BY <2>1
  <2> QED
    BY <1>0, <1>1, <2>2, <2>3, CutFromFront
<1>2. CASE ~(Len(s) > MaxTokens)
  BY <1>0, <1>2 DEF Gateway!Trimmed
<1> QED
  BY <1>1, <1>2

LEMMA LobStores ==
  ASSUME GatewayIInv, NEW c \in Callers, Gateway!StoreBoth(c)
  PROVE  GatewayIInv'
<1> DEFINE e == Gateway!Entry(request[c].token)
           s == Gateway!AtEnd(e)
           t == Gateway!Trimmed(s)
           q == Gateway!Ended(request[c], "returned")
<1>0. /\ request[c] \in Requests /\ request[c].alive /\ request[c].paired
      /\ CacheOK /\ IsDict(tokens)
  BY DEF GatewayIInv, RequestsOK, RequestOK, CacheOK
<1>1. /\ flow = "lob" /\ request[c].pc = "answered" /\ UNCHANGED <<flow, version>>
      /\ tokens' = t /\ request' = [request EXCEPT ![c] = q]
  BY DEF Gateway!StoreBoth, Gateway!At, GatewayIInv, RequestsOK
<1>2. /\ e \in GatewayEntries /\ e.key \in Gateway!Keys /\ e.from \in Gateway!Versions /\ Fresh(e)
  BY <1>1, Arrived
<1>3. PICK kept \in SUBSET (Scopes \ {Gateway!Scope(e.key)}) :
         urls' = [x \in Scopes |-> IF x = Gateway!Scope(e.key) THEN Gateway!Url(e)
                                   ELSE Gateway!Keeping(kept, x)]
  BY DEF Gateway!StoreBoth
<1> HIDE DEF e
<1>4. /\ IsDict(s)
      /\ \A f : Contains(s, f) => (Contains(tokens, f) /\ f.key # e.key) \/ f = e
  BY <1>0, <1>2, MovedToEnd
<1> HIDE DEF s
<1>5. IsDict(t) /\ Len(t) <= MaxTokens /\ Len(t) \in Nat /\ \A f : Contains(t, f) => Contains(s, f)
  BY <1>4, TrimmedDict
<1>6. RequestOK(q) /\ q.pc = "returned" /\ q.alone = request[c].alone
  BY <1>0, EndedRequest
<1> HIDE DEF t, q
<1>7. urls' \in [Scopes -> Urls]
  <2>1. Gateway!Url(e) \in Urls
    BY <1>2 DEF Gateway!Url, Urls
  <2>2. \A x \in Scopes : Gateway!Keeping(kept, x) \in Urls
    BY <1>0 DEF CacheOK, Gateway!Keeping, Urls
  <2> QED
    BY <1>3, <2>1, <2>2
<1>8. ASSUME NEW f, Contains(t, f)
      PROVE  Fresh(f) /\ (flow = "lob" => Belongs(urls', f))
  <2>1. Gateway!Scope(f.key) \in Scopes
    BY <1>5, <1>8, InDict
  <2>2. CASE f = e
    <3>1. urls'[Gateway!Scope(f.key)] = Gateway!Url(f)
      BY <1>3, <2>1, <2>2
    <3> QED
      BY <1>2, <2>2, <3>1 DEF Belongs, Gateway!Url
  <2>3. CASE Contains(tokens, f) /\ f.key # e.key
    <3>1. Fresh(f) /\ Belongs(urls, f)
      BY <1>0, <1>1, <2>3 DEF CacheOK
    <3>2. urls'[Gateway!Scope(f.key)]
             \in {Gateway!Url(e), urls[Gateway!Scope(f.key)], Gateway!NoUrl}
      BY <1>3, <2>1 DEF Gateway!Keeping
    <3> QED
      BY <2>3, <3>1, <3>2 DEF Belongs, Gateway!Url
  <2> QED
    BY <1>4, <1>5, <1>8, <2>2, <2>3
<1>9. CacheOK'
  BY <1>0, <1>1, <1>5, <1>7, <1>8, CacheBecomes
<1>10. Gateway!Busy(c)
  BY <1>1 DEF Gateway!Busy
<1>11. RequestsOK' /\ AloneOK'
  BY <1>1, <1>6, <1>10, OneCallerSteps DEF GatewayIInv, Needs
<1>12. SizeOK'
  BY <1>1, <1>5, SizeInBounds
<1> QED
  BY <1>9, <1>11, <1>12 DEF GatewayIInv

LEMMA CallBegins ==
  ASSUME GatewayIInv, NEW c \in Callers, NEW k \in Gateway!Keys, Gateway!Call(c, k)
  PROVE  GatewayIInv'
<1> DEFINE n == Gateway!Request(k)
           a == \A e \in Callers \ {c} : ~Gateway!Busy(e)
           q == [n EXCEPT !.alone = a]
<1>0. CacheOK /\ RequestsOK /\ Len(tokens) \in Nat
  BY DEF GatewayIInv, CacheOK, IsDict
<1>1. ~Gateway!Busy(c) /\ UNCHANGED <<flow, version, tokens, urls>>
  BY DEF Gateway!Call
<1>2. request' = [d \in Callers |-> IF d = c THEN q ELSE [request[d] EXCEPT !.alone = FALSE]]
  BY DEF Gateway!Call
<1>3. RequestOK(n) /\ n.pc = "lookup"
  BY NewRequest
<1>4. PICK b \in BOOLEAN : b = a
  OBVIOUS
<1> HIDE DEF n, a
<1>5. RequestOK(q) /\ q.pc = "lookup" /\ q.alone = b
  BY <1>3, <1>4 DEF RequestOK, Requests
<1> HIDE DEF q
<1>6. request'[c] = q /\ request' \in [Callers -> Requests]
  <2>1. \A d \in Callers : [request[d] EXCEPT !.alone = FALSE] \in Requests
    BY <1>0 DEF RequestsOK, Requests
  <2> QED
    BY <1>2, <1>5, <2>1 DEF RequestOK
<1>7. ASSUME NEW d \in Callers, d # c
      PROVE  /\ RequestOK(request'[d]) /\ ~request'[d].alone
             /\ request'[d].pc = request[d].pc /\ request'[d].key = request[d].key
  <2>1. RequestOK(request[d])
    BY <1>0 DEF RequestsOK
  <2>2. request'[d] = [request[d] EXCEPT !.alone = FALSE]
    BY <1>2, <1>7
  <2> QED
    BY <2>1, <2>2 DEF RequestOK, Requests
<1>8. RequestsOK'
  <2>1. \A d \in Callers : RequestOK(request'[d])
    BY <1>5, <1>6, <1>7
  <2> QED
    BY <1>6, <2>1 DEF RequestsOK, RequestOK
<1>9. AloneOK'
  <2>1. \A d \in Callers : d # c => (Gateway!Busy(d)' <=> Gateway!Busy(d))
    BY <1>7 DEF Gateway!Busy
  <2>2. b => \A d \in Callers : d # c => ~Gateway!Busy(d)'
    BY <1>4, <2>1 DEF a
  <2>3. \A d \in Callers : request'[d].alone => d = c
    BY <1>7
  <2> QED
    BY <1>5, <1>6, <2>2, <2>3 DEF AloneOK, Needs
<1>10. SizeOK'
  <2>1. Evicting \subseteq Evicting'
    BY <1>1, <1>7 DEF Evicting, Gateway!Busy
  <2>2. \A d \in Callers : request[d].pc = "move" /\ HasKey(tokens, request[d].key) =>
           request'[d].pc = "move" /\ request'[d].key = request[d].key
    BY <1>1, <1>7 DEF Gateway!Busy
  <2> QED
    BY <1>0, <1>1, <2>1, <2>2, SizeShrinks DEF GatewayIInv
<1>11. CacheOK'
  BY <1>0, <1>1, TokensKept
<1> QED
  BY <1>8, <1>9, <1>10, <1>11 DEF GatewayIInv

LEMMA ElapsedDict ==
  ASSUME CacheOK, NEW s, s = [i \in DOMAIN tokens |-> Gateway!Elapse(tokens[i])]
  PROVE  /\ IsDict(s) /\ Len(s) = Len(tokens)
         /\ \A l : HasKey(s, l) <=> HasKey(tokens, l)
         /\ \A f : Contains(s, f) =>
               \E e : /\ Contains(tokens, e) /\ f.key = e.key /\ f.from = e.from
                      /\ Fresh(e) => Fresh(f)
<1>0. IsDict(tokens) /\ tokens \in Seq(GatewayEntries) /\ Len(tokens) \in Nat
      /\ DOMAIN tokens = 1 .. Len(tokens)
  BY DEF CacheOK, IsDict
<1>1. ASSUME NEW i \in 1 .. Len(tokens)
      PROVE  LET e == tokens[i] f == s[i] IN
             /\ f \in GatewayEntries /\ f.key = e.key /\ f.from = e.from /\ (Fresh(e) => Fresh(f))
  BY <1>0, ElapsedIsFresh
<1>2. s \in [1 .. Len(tokens) -> GatewayEntries]
  BY <1>0, <1>1
<1>3. s \in Seq(GatewayEntries) /\ Len(s) = Len(tokens)
  BY <1>0, <1>2
<1>4. IsDict(s)
  BY <1>0, <1>1, <1>3 DEF IsDict
<1>5. \A l : HasKey(s, l) <=> HasKey(tokens, l)
  BY <1>1, <1>3 DEF HasKey
<1>6. \A f : Contains(s, f) =>
         \E e : Contains(tokens, e) /\ f.key = e.key /\ f.from = e.from /\ (Fresh(e) => Fresh(f))
  BY <1>1, <1>3 DEF Contains
<1> QED
  BY <1>3, <1>4, <1>5, <1>6

LEMMA TimePasses ==
  ASSUME GatewayIInv, Gateway!Tick
  PROVE  GatewayIInv'
<1>0. CacheOK /\ RequestsOK /\ Len(tokens) \in Nat
  BY DEF GatewayIInv, CacheOK, IsDict
<1>1. PICK s : s = [i \in DOMAIN tokens |-> Gateway!Elapse(tokens[i])]
  OBVIOUS
<1>2. tokens' = s /\ UNCHANGED <<flow, version, urls>>
  BY <1>1 DEF Gateway!Tick
<1>3. /\ IsDict(s) /\ Len(s) = Len(tokens)
      /\ \A l : HasKey(s, l) <=> HasKey(tokens, l)
      /\ \A f : Contains(s, f) =>
            \E e : Contains(tokens, e) /\ f.key = e.key /\ f.from = e.from /\ (Fresh(e) => Fresh(f))
  BY <1>0, <1>1, ElapsedDict
<1>4. CacheOK'
  <2>1. \A f : Contains(s, f) =>
            Fresh(f) /\ (flow = "lob" => Belongs(urls', f))
    BY <1>0, <1>2, <1>3 DEF CacheOK, Belongs
  <2> QED
    BY <1>0, <1>2, <1>3, <2>1, CacheBecomes DEF CacheOK
<1>5. ASSUME NEW c \in Callers
      PROVE  /\ RequestOK(request'[c])
             /\ request'[c].pc = request[c].pc /\ request'[c].key = request[c].key
             /\ request'[c].alone = request[c].alone
  <2> DEFINE e == IF request[c].pc = "answered" THEN Gateway!ElapseInFlight(request[c].token)
                  ELSE Gateway!Elapse(request[c].token)
  <2>1. request'[c] = [request[c] EXCEPT !.token = e]
    BY DEF Gateway!Tick, Gateway!At
  <2>2. RequestOK(request[c]) /\ request[c] \in Requests /\ request[c].token \in GatewayEntries
    BY <1>0 DEF RequestsOK, Requests
  <2>3. /\ e \in GatewayEntries /\ e.key = request[c].token.key
        /\ IF request[c].pc = "answered" THEN FreshInFlight(e) ELSE Fresh(e)
    BY <2>2, ElapsedIsFresh, ElapsedInFlight DEF RequestOK
  <2> HIDE DEF e
  <2>4. IsNext(request'[c], request[c], request[c].pc, e)
    BY <2>1, <2>2, <2>3 DEF Requests, IsNext
  <2> QED
    BY <2>2, <2>3, <2>4 DEF RequestOK, IsNext
<1>6. RequestsOK'
  <2>1. request' = [c \in Callers |-> request'[c]]
    BY DEF Gateway!Tick
  <2>2. \A c \in Callers : request'[c] \in Requests
    BY <1>5 DEF RequestOK
  <2> QED
    BY <1>5, <2>1, <2>2 DEF RequestsOK, RequestOK
<1>7. \A c \in Callers : Gateway!Busy(c)' <=> Gateway!Busy(c)
  BY <1>5 DEF Gateway!Busy
<1>8. AloneOK'
  <2>1. \A c \in Callers : request'[c].alone =>
           /\ request'[c].pc # "key_error"
           /\ Gateway!Busy(c)' => \A d \in Callers : d # c => ~Gateway!Busy(d)'
           /\ request'[c].pc \in Needs => HasKey(tokens', request'[c].key)
           /\ request'[c].pc = "pop" => tokens' # <<>>
    <3>1. tokens' = <<>> => tokens = <<>>
      BY <1>0, <1>2, <1>3 DEF CacheOK, IsDict
    <3> QED
      BY <1>2, <1>3, <1>5, <1>7, <3>1 DEF GatewayIInv, AloneOK
  <2> QED
    BY <2>1 DEF AloneOK, HasKey, Gateway!Busy
<1>9. SizeOK'
  <2>1. Evicting \subseteq Evicting'
    BY <1>5 DEF Evicting
  <2> QED
    BY <1>0, <1>2, <1>3, <1>5, <2>1, SizeShrinks DEF GatewayIInv
<1> QED
  BY <1>4, <1>6, <1>8, <1>9 DEF GatewayIInv

LEMMA NothingHappens ==
  ASSUME GatewayIInv, UNCHANGED <<flow, tokens, urls, request>>, version' \in Gateway!Versions
  PROVE  GatewayIInv'
<1>1. CacheOK'
  BY DEF GatewayIInv, CacheOK, IsDict, Contains
<1> QED
  BY <1>1, OnlyTheCache

LEMMA GatewayInductive == Gateway!Spec => []GatewayIInv
<1>1. Gateway!Init => GatewayIInv
  BY GatewayInit
<1>2. GatewayIInv /\ [Gateway!Next]_(Gateway!gatewayVars) => GatewayIInv'
  <2> SUFFICES ASSUME GatewayIInv, [Gateway!Next]_(Gateway!gatewayVars) PROVE GatewayIInv'
    OBVIOUS
  <2>1. ASSUME NEW c \in Callers, Gateway!Step(c) PROVE GatewayIInv'
    BY <2>1, CustomerLooksUp, CustomerTouches, TokenIsIssued, LobLooksUp, CustomerInserts,
       CustomerMoves, CustomerEvicts, CustomerPops, LobStores
    DEF Gateway!Step
  <2>2. ASSUME NEW c \in Callers, NEW k \in Gateway!Keys, Gateway!Call(c, k) PROVE GatewayIInv'
    BY <2>2, CallBegins
  <2>3. CASE Gateway!Tick
    BY <2>3, TimePasses
  <2>4. CASE Gateway!StoreOtherKind
    BY <2>4, OthersStore
  <2>5. CASE Gateway!ChangeDestination
    BY <2>5, NothingHappens DEF Gateway!ChangeDestination, Gateway!Versions
  <2>6. CASE UNCHANGED Gateway!gatewayVars
    BY <2>6, NothingHappens DEF Gateway!gatewayVars, GatewayIInv, CacheOK
  <2> QED
    BY <2>1, <2>2, <2>3, <2>4, <2>5, <2>6 DEF Gateway!Next
<1> QED
  BY <1>1, <1>2, PTL DEF Gateway!Spec

-----------------------------------------------------------------------------
(* UmsCache *)

\* Induction without a predicate: a set of naturals has a least element
LEMMA LeastNatural ==
  ASSUME NEW T, T \subseteq Nat, T # {}
  PROVE  \E n \in T : \A m \in T : n <= m
<1>1. PICK n \in T : \A m \in T : ~(<<m, n>> \in OpToRel(<, Nat))
  BY WFMin, NatLessThanWellFounded, Zenon
<1>2. ASSUME NEW m \in T, m < n PROVE <<m, n>> \in OpToRel(<, Nat)
  BY <1>2 DEF OpToRel
<1>3. \A m \in T : ~(m < n)
  BY <1>1, <1>2, Zenon
<1> QED
  BY <1>3

LEMMA UmsBounds ==
  /\ MaxEntries \in Nat \ {0} /\ Ttl \in Nat \ {0} /\ MaxPages \in Nat \ {0} /\ Pages \in Nat \ {0}
  /\ (CHOOSE k \in CacheKeys : TRUE) \in CacheKeys
  BY Bounds DEF Ums!UmsAssumption

UmsEdges == [of : CacheKeys, pages : Seq(Nat), total : 1 .. Pages, lost : BOOLEAN, since : 0 .. Ttl]
UmsEntries == [key : CacheKeys, age : 0 .. Ttl, edges : UmsEdges]

\* All pages in their order, if the service has forgotten no cursor and has not too many
Complete(e) == ~e.lost /\ e.total <= MaxPages => e.pages = [i \in 1 .. e.total |-> i]

UmsEntryOK(e) ==
    /\ e \in UmsEntries /\ e.edges.of = e.key /\ e.edges.since <= e.age
    /\ Complete(e.edges) /\ Len(e.edges.pages) <= MaxPages

UmsDict(s) ==
    /\ s \in Seq(UmsEntries)
    /\ \A i \in 1 .. Len(s) : UmsEntryOK(s[i])
    /\ \A i, j \in 1 .. Len(s) : s[i].key = s[j].key => i = j

\* What is known of the unexpired entries r among the first n of s
Selected(r, s, n) ==
    /\ r \in Seq(UmsEntries) /\ Len(r) <= n
    /\ \A j \in 1 .. Len(r) : \E i \in 1 .. n : r[j] = s[i]
    /\ \A i, j \in 1 .. Len(r) : r[i].key = r[j].key => i = j

\* One turn of the loop over the entries
LEMMA SelectedNext ==
  ASSUME NEW s, UmsDict(s), NEW n \in 1 .. Len(s), NEW r, Selected(r, s, n - 1)
  PROVE  Selected(r, s, n) /\ Selected(Append(r, s[n]), s, n)
<1>0. Len(s) \in Nat /\ n \in Nat /\ s[n] \in UmsEntries /\ Len(r) \in Nat
  BY DEF UmsDict, Selected
<1>1. Selected(r, s, n)
  <2>1. 1 .. (n - 1) \subseteq 1 .. n /\ (Len(r) <= n - 1 => Len(r) <= n)
    BY <1>0
  <2> QED
    BY <2>1 DEF Selected
<1> DEFINE t == Append(r, s[n])
<1>2. t \in Seq(UmsEntries) /\ Len(t) = Len(r) + 1 /\ t[Len(r) + 1] = s[n]
      /\ \A j \in 1 .. Len(r) : t[j] = r[j]
  BY <1>0 DEF Selected
<1> HIDE DEF t
<1>3. \A j \in 1 .. Len(t) : \E i \in 1 .. n : t[j] = s[i] /\ (i = n <=> j = Len(r) + 1)
  <2> TAKE j \in 1 .. Len(t)
  <2>1. CASE j = Len(r) + 1
    BY <1>0, <1>2, <2>1
  <2>2. CASE j \in 1 .. Len(r)
    <3>1. PICK i \in 1 .. (n - 1) : r[j] = s[i]
      BY <2>2 DEF Selected
    <3> QED
      BY <1>0, <1>2, <2>2, <3>1
  <2> QED
    BY <1>0, <1>2, <2>1, <2>2
<1>4. ASSUME NEW a \in 1 .. Len(t), NEW b \in 1 .. Len(t), t[a].key = t[b].key
      PROVE  a = b
  <2>1. PICK i \in 1 .. n : t[a] = s[i] /\ (i = n <=> a = Len(r) + 1)
    BY <1>3
  <2>2. PICK j \in 1 .. n : t[b] = s[j] /\ (j = n <=> b = Len(r) + 1)
    BY <1>3
  <2>3. i = j
    BY <1>0, <1>4, <2>1, <2>2 DEF UmsDict
  <2>4. CASE i = n
    BY <2>1, <2>2, <2>3, <2>4
  <2>5. CASE i # n
    <3>1. a \in 1 .. Len(r) /\ b \in 1 .. Len(r)
      BY <1>0, <1>2, <2>1, <2>2, <2>3, <2>5
    <3> QED
      BY <1>2, <1>4, <3>1 DEF Selected
  <2> QED
    BY <2>4, <2>5
<1>5. Len(t) <= n
  BY <1>0, <1>2 DEF Selected
<1>6. Selected(t, s, n)
  BY <1>2, <1>3, <1>4, <1>5 DEF Selected
<1> QED
  BY <1>1, <1>6 DEF t

\* The value of the loop variable at i, from those before in f
Turn(f, s, i) ==
    IF i = 0 THEN <<>>
    ELSE IF Ums!Unexpired(s[i]) THEN Append(f[i - 1], s[i]) ELSE f[i - 1]

Runs(f, s, n) == f = [i \in 0 .. n |-> Turn(f, s, i)]

LEMMA RunsExist ==
  ASSUME NEW s, UmsDict(s)
  PROVE  \A n \in 0 .. Len(s) : \E f : Runs(f, s, n) /\ Selected(f[n], s, n)
<1> DEFINE T == {n \in 0 .. Len(s) : ~\E f : Runs(f, s, n) /\ Selected(f[n], s, n)}
<1> SUFFICES ASSUME T # {} PROVE FALSE
  OBVIOUS
<1>1. Len(s) \in Nat
  BY DEF UmsDict
<1>2. PICK n \in T : \A m \in T : n <= m
  <2>1. T \subseteq Nat
    BY <1>1
  <2> HIDE DEF T
  <2> QED
    BY <2>1, LeastNatural
<1>3. n \in 0 .. Len(s) /\ ~\E f : Runs(f, s, n) /\ Selected(f[n], s, n)
  OBVIOUS
<1>4. CASE n = 0
  <2> DEFINE f == [i \in 0 .. 0 |-> <<>>]
  <2>1. f[0] = <<>> /\ f = [i \in 0 .. 0 |-> Turn(f, s, i)]
    BY DEF Turn
  <2> HIDE DEF f
  <2>2. Runs(f, s, 0) /\ Selected(f[0], s, 0)
    BY <2>1 DEF Runs, Selected
  <2> QED
    BY <1>3, <1>4, <2>2
<1>5. CASE n # 0
  <2>1. n - 1 \in 0 .. Len(s) /\ n - 1 \notin T /\ n \in 1 .. Len(s)
    BY <1>1, <1>2, <1>3, <1>5
  <2>2. PICK g : Runs(g, s, n - 1) /\ Selected(g[n - 1], s, n - 1)
    BY <2>1
  <2> DEFINE r == Turn(g, s, n)
             f == [i \in 0 .. n |-> IF i = n THEN r ELSE g[i]]
  <2>3. Selected(r, s, n)
    BY <1>5, <2>1, <2>2, SelectedNext DEF Turn
  <2>4. \A i \in 0 .. (n - 1) : g[i] = Turn(g, s, i)
    BY <2>2 DEF Runs
  <2> HIDE DEF r
  <2>5. \A i \in 0 .. (n - 1) : f[i] = g[i]
    BY <1>3
  <2>6. f[n] = r
    BY <1>3
  <2>7. \A i \in 0 .. n : f[i] = Turn(f, s, i)
    <3> TAKE i \in 0 .. n
    <3>1. i = 0 \/ i - 1 \in 0 .. (n - 1)
      BY <1>3
    <3>2. Turn(f, s, i) = Turn(g, s, i)
      BY <2>5, <3>1 DEF Turn
    <3>3. CASE i = n
      BY <2>6, <3>2, <3>3 DEF r
    <3>4. CASE i # n
      <4>1. i \in 0 .. (n - 1)
        BY <1>3, <3>4
      <4> QED
        BY <2>4, <2>5, <3>2, <4>1
    <3> QED
      BY <3>3, <3>4
  <2>8. f = [i \in 0 .. n |-> f[i]]
    OBVIOUS
  <2> HIDE DEF f
  <2>9. Runs(f, s, n)
    BY <2>7, <2>8 DEF Runs
  <2> QED
    BY <1>3, <2>3, <2>6, <2>9
<1> QED
  BY <1>4, <1>5

\* A run is determined: no other function satisfies its definition
LEMMA RunsAgree ==
  ASSUME NEW s, NEW n \in Nat, NEW f, Runs(f, s, n), NEW g, Runs(g, s, n)
  PROVE  \A i \in 0 .. n : f[i] = g[i]
<1> DEFINE T == {i \in 0 .. n : f[i] # g[i]}
<1> SUFFICES ASSUME T # {} PROVE FALSE
  OBVIOUS
<1>1. PICK i \in T : \A j \in T : i <= j
  <2>1. T \subseteq Nat
    OBVIOUS
  <2> HIDE DEF T
  <2> QED
    BY <2>1, LeastNatural
<1>2. i \in 0 .. n /\ f[i] # g[i]
  OBVIOUS
<1>3. f[i] = Turn(f, s, i) /\ g[i] = Turn(g, s, i)
  BY <1>2 DEF Runs
<1>4. i # 0
  BY <1>2, <1>3 DEF Turn
<1>5. i - 1 \in 0 .. n /\ i - 1 \notin T
  BY <1>1, <1>2, <1>4
<1>6. f[i - 1] = g[i - 1]
  BY <1>5
<1> QED
  BY <1>2, <1>3, <1>6 DEF Turn

LEMMA UnexpiredAreSelected ==
  ASSUME NEW s, UmsDict(s)
  PROVE  Selected(Ums!UnexpiredOf(s), s, Len(s))
<1> DEFINE n == Len(s)
           u == CHOOSE f : Runs(f, s, n)
<1>1. n \in Nat
  BY DEF UmsDict
<1>2. PICK f : Runs(f, s, n) /\ Selected(f[n], s, n)
  BY <1>1, RunsExist
<1>3. Runs(u, s, n)
  BY <1>2
<1>4. u[n] = f[n]
  <2> HIDE DEF u
  <2> QED
    BY <1>1, <1>2, <1>3, RunsAgree
<1>5. Ums!UnexpiredOf(s) = u[n]
  BY DEF Ums!UnexpiredOf, Runs, Turn
<1> QED
  BY <1>2, <1>4, <1>5

-----------------------------------------------------------------------------
UmsLabels == {"lookup", "prepare", "fetch", "store", "returned", "raised"}
UmsCalls == [pc : UmsLabels, key : CacheKeys, cursor : 1 .. Pages, edges : UmsEdges]

\* A call asks for its pages in order, and what it has is of its own key and young
UmsCallOK(c) ==
    /\ c \in UmsCalls
    /\ c.edges.of = c.key /\ c.edges.since < Ttl
    /\ Len(c.edges.pages) <= MaxPages
    /\ c.pc \in {"lookup", "prepare", "fetch", "store"} => c.edges.since = 0
    /\ c.pc \in {"lookup", "prepare"} => c.edges.pages = <<>> /\ c.cursor = 1
    /\ c.pc = "fetch" =>
          /\ Len(c.edges.pages) < MaxPages
          /\ ~c.edges.lost => /\ c.cursor <= c.edges.total
                              /\ c.edges.pages = [i \in 1 .. (c.cursor - 1) |-> i]
    /\ c.pc \in {"store", "returned"} => Complete(c.edges)

UmsIInv ==
    /\ UmsDict(umsCache) /\ Len(umsCache) <= MaxEntries
    /\ umsCall \in [Readers -> UmsCalls]
    /\ \A t \in Readers : UmsCallOK(umsCall[t])

LEMMA UmsImplies ==
  UmsIInv => Ums!TypeOK /\ Ums!AnswersAreComplete /\ Ums!AnswersAreRecent
<1> SUFFICES ASSUME UmsIInv PROVE Ums!TypeOK /\ Ums!AnswersAreComplete /\ Ums!AnswersAreRecent
  OBVIOUS
<1>1. Ums!AnswersAreComplete
  BY DEF UmsIInv, UmsCallOK, Complete, Ums!AnswersAreComplete, Ums!At
<1>2. Ums!AnswersAreRecent
  BY DEF UmsIInv, UmsCallOK, Ums!AnswersAreRecent, Ums!At
<1>3. \A t \in Readers :
          /\ umsCall[t].pc \in UmsLabels
          /\ umsCall[t].key \in CacheKeys
          /\ umsCall[t].cursor \in 1 .. Pages
          /\ Len(umsCall[t].edges.pages) <= MaxPages
  BY DEF UmsIInv, UmsCallOK, UmsCalls
<1>4. /\ DOMAIN umsCache = 1 .. Len(umsCache)
      /\ \A i \in 1 .. Len(umsCache) : umsCache[i].age \in 0 .. Ttl
      /\ \A i, j \in 1 .. Len(umsCache) : umsCache[i].key = umsCache[j].key => i = j
  <2>1. umsCache \in Seq(UmsEntries) /\ \A i \in 1 .. Len(umsCache) : umsCache[i] \in UmsEntries
    BY DEF UmsIInv, UmsDict, UmsEntryOK
  <2>2. \A e \in UmsEntries : e.age \in 0 .. Ttl
    BY DEF UmsEntries
  <2> QED
    BY <2>1, <2>2 DEF UmsIInv, UmsDict
<1>5. Ums!TypeOK
  BY <1>3, <1>4 DEF UmsIInv, UmsLabels, Ums!TypeOK
<1> QED
  BY <1>1, <1>2, <1>5

LEMMA NewCall ==
  ASSUME NEW k \in CacheKeys, NEW l \in {"lookup", "prepare", "raised"}
  PROVE  UmsCallOK(Ums!CallOf(k, l))
<1>1. Ums!NoEdges(k) \in UmsEdges
  BY UmsBounds DEF UmsEdges, Ums!NoEdges
<1>2. Ums!CallOf(k, l) \in UmsCalls
  BY <1>1, UmsBounds DEF UmsCalls, UmsLabels, Ums!CallOf
<1> QED
  BY <1>2, UmsBounds DEF UmsCallOK, Ums!CallOf, Ums!NoEdges

LEMMA UmsInit == Ums!Init => UmsIInv
<1> SUFFICES ASSUME Ums!Init PROVE UmsIInv
  OBVIOUS
<1>1. UmsDict(umsCache) /\ Len(umsCache) <= MaxEntries
  BY UmsBounds DEF Ums!Init, UmsDict
<1>2. PICK k \in CacheKeys : k = CHOOSE l \in CacheKeys : TRUE
  BY UmsBounds
<1>3. umsCall = [t \in Readers |-> Ums!CallOf(k, "raised")]
  BY <1>2 DEF Ums!Init
<1>4. UmsCallOK(Ums!CallOf(k, "raised")) /\ Ums!CallOf(k, "raised") \in UmsCalls
  BY NewCall DEF UmsCallOK
<1> QED
  BY <1>1, <1>3, <1>4 DEF UmsIInv

\* A step of one thread
LEMMA OneReaderSteps ==
  ASSUME UmsIInv, NEW t \in Readers, NEW c, UmsCallOK(c), umsCall' = [umsCall EXCEPT ![t] = c],
         NEW s, umsCache' = s, UmsDict(s), Len(s) <= MaxEntries
  PROVE  UmsIInv'
<1>1. c \in UmsCalls
  BY DEF UmsCallOK
<1>2. /\ umsCall' \in [Readers -> UmsCalls] /\ \A u \in Readers : UmsCallOK(umsCall'[u])
  BY <1>1 DEF UmsIInv
<1>3. UmsDict(umsCache')
  OBVIOUS
<1> QED
  BY <1>2, <1>3 DEF UmsIInv, UmsDict, UmsCallOK

LEMMA ReaderFetches ==
  ASSUME UmsIInv, NEW t \in Readers,
         Ums!Miss(t) \/ Ums!Prepare(t) \/ Ums!Raise(t) \/ Ums!FetchPage(t)
  PROVE  UmsIInv'
<1> DEFINE c == umsCall[t]
<1>0. UmsCallOK(c) /\ c \in UmsCalls /\ UmsDict(umsCache) /\ Len(umsCache) <= MaxEntries
  BY DEF UmsIInv
<1>1. umsCache' = umsCache
  BY DEF Ums!Miss, Ums!Prepare, Ums!Raise, Ums!FetchPage
<1>2. CASE Ums!Miss(t)
  <2> DEFINE d == [c EXCEPT !.pc = "prepare"]
  <2>1. umsCall' = [umsCall EXCEPT ![t] = d] /\ c.pc = "lookup"
    BY <1>2 DEF Ums!Miss, Ums!At, UmsIInv
  <2>2. UmsCallOK(d)
    BY <1>0, <2>1 DEF UmsCallOK, UmsCalls, UmsLabels
  <2> HIDE DEF d
  <2> QED
    BY <1>0, <1>1, <2>1, <2>2, OneReaderSteps
<1>3. CASE Ums!Prepare(t)
  <2>1. PICK total \in 1 .. Pages :
           umsCall' = [umsCall EXCEPT ![t].pc = "fetch", ![t].edges.total = total]
    BY <1>3 DEF Ums!Prepare
  <2> DEFINE e == [c.edges EXCEPT !.total = total]
             d == [c EXCEPT !.pc = "fetch", !.edges = e]
  <2>2. umsCall' = [umsCall EXCEPT ![t] = d] /\ c.pc = "prepare"
    <3>1. umsCall \in [Readers -> UmsCalls]
      BY DEF UmsIInv
    <3> DEFINE c1 == [c EXCEPT !.pc = "fetch"]
               f == [umsCall EXCEPT ![t] = c1]
    <3>2. f[t] = c1 /\ c1.edges = c.edges
      BY <3>1 DEF UmsCalls
    <3>3. umsCall' = [f EXCEPT ![t] = [f[t] EXCEPT !.edges = [f[t].edges EXCEPT !.total = total]]]
      BY <2>1, Zenon
    <3> HIDE DEF f, c1
    <3>4. umsCall' = [f EXCEPT ![t] = [c1 EXCEPT !.edges = e]]
      BY <3>2, <3>3
    <3>5. umsCall' = [umsCall EXCEPT ![t] = [c1 EXCEPT !.edges = e]]
      BY <3>1, <3>4 DEF f
    <3>6. umsCall' = [umsCall EXCEPT ![t] = d]
      BY <3>5, Zenon DEF c1
    <3> QED
      BY <1>3, <3>6, Zenon DEF Ums!Prepare, Ums!At
  <2>3. /\ e \in UmsEdges /\ e.of = c.key /\ e.since = 0 /\ e.pages = <<>>
        /\ e.total = total /\ c.cursor = 1
    BY <1>0, <2>2 DEF UmsCallOK, UmsCalls, UmsEdges
  <2> HIDE DEF e
  <2>4. d \in UmsCalls /\ d.edges = e /\ d.pc = "fetch" /\ d.key = c.key /\ d.cursor = 1
    BY <1>0, <2>3 DEF UmsCalls, UmsLabels
  <2> HIDE DEF d
  <2>5. UmsCallOK(d)
    BY <2>3, <2>4, UmsBounds DEF UmsCallOK
  <2> QED
    BY <1>0, <1>1, <2>2, <2>5, OneReaderSteps
<1>4. CASE Ums!Raise(t)
  <2>1. umsCall' = [umsCall EXCEPT ![t] = Ums!CallOf(c.key, "raised")] /\ c.key \in CacheKeys
    BY <1>0, <1>4 DEF Ums!Raise, UmsIInv, UmsCalls
  <2> QED
    BY <1>0, <1>1, <2>1, NewCall, OneReaderSteps
<1>5. CASE Ums!FetchPage(t)
  <2> DEFINE pages == Append(c.edges.pages, c.cursor)
             hasNext == c.cursor < c.edges.total
             l == IF hasNext /\ Len(pages) < MaxPages THEN "fetch" ELSE "store"
  <2>1. PICK cursor \in IF hasNext THEN {c.cursor + 1, 1} ELSE {c.cursor} :
           umsCall' = [umsCall EXCEPT ![t] = [c EXCEPT !.pc = l, !.cursor = cursor,
              !.edges = [c.edges EXCEPT !.pages = pages,
                                        !.lost = c.edges.lost \/ (hasNext /\ cursor = 1)]]]
    BY <1>5 DEF Ums!FetchPage, UmsIInv
  <2>2. c.pc = "fetch"
    BY <1>5 DEF Ums!FetchPage, Ums!At
  <2>3. PICK n \in 1 .. Pages, total \in 1 .. Pages, p \in Seq(Nat), b \in BOOLEAN :
           n = c.cursor /\ total = c.edges.total /\ p = c.edges.pages /\ b = c.edges.lost
    BY <1>0 DEF UmsCalls, UmsEdges
  <2>4. /\ c.edges.of = c.key /\ c.edges.since = 0 /\ Len(p) < MaxPages
        /\ ~b => n <= total /\ p = [i \in 1 .. (n - 1) |-> i]
    BY <1>0, <2>2, <2>3 DEF UmsCallOK
  <2> DEFINE lost == c.edges.lost \/ (hasNext /\ cursor = 1)
             e == [c.edges EXCEPT !.pages = pages, !.lost = lost]
             d == [c EXCEPT !.pc = l, !.cursor = cursor, !.edges = e]
  <2>5. pages \in Seq(Nat) /\ Len(pages) = Len(p) + 1 /\ Len(p) \in Nat /\ Len(pages) <= MaxPages
        /\ pages = Append(p, n)
    BY <2>3, <2>4, UmsBounds
  <2>6. cursor \in 1 .. Pages /\ (cursor = n \/ cursor = n + 1 \/ cursor = 1)
    BY <2>1, <2>3, UmsBounds
  <2>7. PICK x \in BOOLEAN : x = lost
    BY <2>3
  <2>8. ~x => ~b /\ pages = [i \in 1 .. n |-> i]
    <3> SUFFICES ASSUME ~x PROVE ~b /\ pages = [i \in 1 .. n |-> i]
      OBVIOUS
    <3>1. ~b
      BY <2>3, <2>7
    <3>2. p = [i \in 1 .. (n - 1) |-> i]
      BY <2>4, <3>1
    <3>3. Append(p, n) = [i \in 1 .. n |-> i]
      <4>1. Len(p) = n - 1 /\ \A i \in 1 .. (n - 1) : p[i] = i
        BY <2>3, <3>2
      <4>2. /\ Append(p, n) = [i \in 1 .. (Len(p) + 1) |-> Append(p, n)[i]]
            /\ \A i \in 1 .. Len(p) : Append(p, n)[i] = p[i]
            /\ Append(p, n)[Len(p) + 1] = n
        BY <2>3
      <4>3. \A i \in 1 .. n : Append(p, n)[i] = i
        BY <4>1, <4>2
      <4>4. Len(p) + 1 = n
        BY <4>1
      <4> QED
        BY <4>2, <4>3, <4>4
    <3> QED
      BY <2>5, <3>1, <3>3
  <2>9. /\ hasNext <=> n < total
        /\ l = IF hasNext /\ Len(pages) < MaxPages THEN "fetch" ELSE "store"
        /\ ~x /\ hasNext => cursor = n + 1
    BY <2>1, <2>3, <2>7
  <2>10. /\ e = [c.edges EXCEPT !.pages = pages, !.lost = x]
         /\ d = [c EXCEPT !.pc = l, !.cursor = cursor, !.edges = e]
    BY <2>7
  <2>11. umsCall' = [umsCall EXCEPT ![t] = d]
    BY <2>1
  <2> HIDE DEF pages, hasNext, l, lost, e, d
  <2>12. /\ e \in UmsEdges /\ e.of = c.key /\ e.since = 0 /\ e.pages = pages /\ e.lost = x
         /\ e.total = total
    BY <1>0, <2>3, <2>4, <2>5, <2>10 DEF UmsCalls, UmsEdges
  <2>13. l \in {"fetch", "store"}
    BY <2>9
  <2>14. /\ d \in UmsCalls /\ d.edges = e /\ d.pc = l /\ d.key = c.key /\ d.cursor = cursor
    BY <1>0, <2>6, <2>10, <2>12, <2>13 DEF UmsCalls, UmsLabels
  <2>15. l = "fetch" => /\ Len(pages) < MaxPages
                        /\ ~x => /\ cursor <= total /\ pages = [i \in 1 .. (cursor - 1) |-> i]
    <3> SUFFICES ASSUME l = "fetch"
                 PROVE  /\ Len(pages) < MaxPages
                        /\ ~x => /\ cursor <= total /\ pages = [i \in 1 .. (cursor - 1) |-> i]
      OBVIOUS
    <3>1. hasNext /\ Len(pages) < MaxPages
      BY <2>9
    <3>2. ~x => cursor = n + 1 /\ n + 1 <= total /\ cursor - 1 = n
      BY <2>3, <2>9, <3>1
    <3> QED
      BY <2>8, <3>1, <3>2
  <2>16. l = "store" => Complete(e)
    <3> SUFFICES ASSUME l = "store", ~x, total <= MaxPages PROVE pages = [i \in 1 .. total |-> i]
      BY <2>12 DEF Complete
    <3>1. Len(pages) = n
      BY <2>3, <2>8
    <3>2. n <= total
      BY <2>4, <2>8
    <3>3. n = total
      BY <2>3, <2>5, <2>9, <3>1, <3>2, UmsBounds
    <3> QED
      BY <2>8, <3>3
  <2>17. UmsCallOK(d)
    <3>1. /\ d.edges.of = d.key /\ d.edges.since < Ttl /\ d.edges.since = 0
          /\ Len(d.edges.pages) <= MaxPages
      <4>1. d.edges.of = d.key /\ d.edges.since = 0 /\ d.edges.pages = pages
        BY <2>12, <2>14
      <4> QED
        BY <2>5, <4>1, UmsBounds
    <3>2. d.pc = "fetch" \/ (d.pc = "store" /\ Complete(d.edges))
      <4>1. l = "fetch" \/ l = "store"
        BY <2>13
      <4> QED
        BY <2>14, <2>16, <4>1, Zenon
    <3>3. d.pc = "fetch" => /\ Len(d.edges.pages) < MaxPages
                            /\ ~d.edges.lost => /\ d.cursor <= d.edges.total
                                                /\ d.edges.pages = [i \in 1 .. (d.cursor - 1) |-> i]
      BY <2>12, <2>14, <2>15
    <3> QED
      BY <2>14, <3>1, <3>2, <3>3 DEF UmsCallOK
  <2> QED
    BY <1>0, <1>1, <2>11, <2>17, OneReaderSteps
<1> QED
  BY <1>2, <1>3, <1>4, <1>5

LEMMA EntryToEnd ==
  ASSUME NEW s, UmsDict(s), NEW i \in 1 .. Len(s)
  PROVE  LET r == Append(Ums!Removed(s, i), s[i]) IN UmsDict(r) /\ Len(r) = Len(s)
<1> DEFINE w == Ums!Removed(s, i)
           r == Append(w, s[i])
<1>0. s \in Seq(UmsEntries) /\ Len(s) \in Nat /\ s[i] \in UmsEntries
  BY DEF UmsDict
<1>1. w = Gateway!Removed(s, i)
  BY DEF Ums!Removed, Gateway!Removed
<1>2. /\ w \in Seq(UmsEntries) /\ Len(w) = Len(s) - 1
      /\ \A j \in 1 .. (Len(s) - 1) : w[j] = IF j < i THEN s[j] ELSE s[j + 1]
  BY <1>0, <1>1, Removal
<1> HIDE DEF w
<1>3. /\ r \in Seq(UmsEntries) /\ Len(r) = Len(s) /\ r[Len(s)] = s[i]
      /\ \A j \in 1 .. (Len(s) - 1) : r[j] = w[j]
  BY <1>0, <1>2
<1> HIDE DEF r
<1>4. \A j \in 1 .. Len(s) : \E m \in 1 .. Len(s) :
         r[j] = s[m] /\ m = IF j = Len(s) THEN i ELSE IF j < i THEN j ELSE j + 1
  BY <1>0, <1>2, <1>3
<1>5. ASSUME NEW a \in 1 .. Len(s), NEW b \in 1 .. Len(s), r[a].key = r[b].key PROVE a = b
  <2>1. PICK m \in 1 .. Len(s) :
           r[a] = s[m] /\ m = IF a = Len(s) THEN i ELSE IF a < i THEN a ELSE a + 1
    BY <1>4
  <2>2. PICK n \in 1 .. Len(s) :
           r[b] = s[n] /\ n = IF b = Len(s) THEN i ELSE IF b < i THEN b ELSE b + 1
    BY <1>4
  <2>3. m = n
    BY <1>5, <2>1, <2>2 DEF UmsDict
  <2> QED
    BY <1>0, <2>1, <2>2, <2>3
<1>6. \A j \in 1 .. Len(s) : UmsEntryOK(r[j])
  BY <1>4 DEF UmsDict
<1>7. UmsDict(r)
  BY <1>3, <1>5, <1>6 DEF UmsDict
<1> QED
  BY <1>3, <1>7 DEF r, w

LEMMA ReaderHits ==
  ASSUME UmsIInv, NEW t \in Readers, Ums!Hit(t)
  PROVE  UmsIInv'
<1> DEFINE c == umsCall[t]
<1>1. PICK i \in Ums!Entries(c.key) :
         /\ Ums!Unexpired(umsCache[i])
         /\ umsCache' = Append(Ums!Removed(umsCache, i), umsCache[i])
         /\ umsCall' = [umsCall EXCEPT ![t].pc = "returned", ![t].edges = umsCache[i].edges]
  BY DEF Ums!Hit
<1> DEFINE e == umsCache[i].edges
           d == [c EXCEPT !.pc = "returned", !.edges = e]
<1>2. UmsDict(umsCache) /\ Len(umsCache) <= MaxEntries /\ UmsCallOK(c) /\ c \in UmsCalls
  BY DEF UmsIInv, UmsCallOK
<1>3. i \in 1 .. Len(umsCache) /\ umsCache[i].key = c.key
  BY <1>2 DEF Ums!Entries, UmsDict
<1>4. PICK s : s = Append(Ums!Removed(umsCache, i), umsCache[i])
  OBVIOUS
<1>5. UmsDict(s) /\ Len(s) <= MaxEntries
  BY <1>2, <1>3, <1>4, EntryToEnd
<1>6. umsCall' = [umsCall EXCEPT ![t] = d]
  BY <1>1 DEF UmsIInv
<1>7. UmsEntryOK(umsCache[i])
  BY <1>2, <1>3 DEF UmsDict
<1>8. e \in UmsEdges /\ e.of = c.key /\ e.since < Ttl /\ Complete(e) /\ Len(e.pages) <= MaxPages
  <2>1. umsCache[i] \in UmsEntries /\ e \in UmsEdges
    BY <1>7 DEF UmsEntryOK, UmsEntries
  <2>2. umsCache[i].age \in 0 .. Ttl /\ e.since \in 0 .. Ttl /\ e.since <= umsCache[i].age
    BY <1>7, <2>1 DEF UmsEntryOK, UmsEntries, UmsEdges
  <2>3. umsCache[i].age < Ttl
    BY <1>1 DEF Ums!Unexpired
  <2>4. e.since < Ttl
    <3>1. PICK a \in 0 .. Ttl, b \in 0 .. Ttl : a = umsCache[i].age /\ b = e.since
      BY <2>2
    <3> QED
      BY <2>2, <2>3, <3>1, UmsBounds
  <2> QED
    BY <1>3, <1>7, <2>1, <2>4 DEF UmsEntryOK
<1> HIDE DEF e
<1>9. d \in UmsCalls /\ d.pc = "returned" /\ d.key = c.key /\ d.edges = e
  BY <1>2, <1>8 DEF UmsCalls, UmsLabels
<1> HIDE DEF d
<1>10. UmsCallOK(d)
  BY <1>8, <1>9 DEF UmsCallOK
<1> QED
  BY <1>1, <1>4, <1>5, <1>6, <1>10, OneReaderSteps

\* A tail of a dict, and an entry more
LEMMA UmsTail ==
  ASSUME NEW s, UmsDict(s), NEW n \in 1 .. (Len(s) + 1)
  PROVE  LET r == SubSeq(s, n, Len(s)) IN UmsDict(r) /\ Len(r) = Len(s) + 1 - n
<1> DEFINE t == SubSeq(s, n, Len(s))
<1>1. /\ t \in Seq(UmsEntries) /\ Len(t) = Len(s) + 1 - n /\ Len(s) \in Nat
      /\ \A i \in 1 .. Len(t) : t[i] = s[n + i - 1] /\ n + i - 1 \in 1 .. Len(s)
  BY DEF UmsDict
<1> HIDE DEF t
<1>2. ASSUME NEW a \in 1 .. Len(t), NEW b \in 1 .. Len(t), t[a].key = t[b].key PROVE a = b
  <2>1. PICK p \in 1 .. Len(s) : p = n + a - 1 /\ t[a] = s[p]
    BY <1>1
  <2>2. PICK q \in 1 .. Len(s) : q = n + b - 1 /\ t[b] = s[q]
    BY <1>1
  <2>3. p = q
    BY <1>2, <2>1, <2>2 DEF UmsDict
  <2> QED
    BY <2>1, <2>2, <2>3
<1>3. \A i \in 1 .. Len(t) : UmsEntryOK(t[i])
  BY <1>1 DEF UmsDict
<1>4. UmsDict(t)
  BY <1>1, <1>2, <1>3 DEF UmsDict
<1> QED
  BY <1>1, <1>4 DEF t

LEMMA EntryStored ==
  ASSUME NEW s, UmsDict(s), NEW e, UmsEntryOK(e)
  PROVE  LET r == IF \E i \in DOMAIN s : s[i].key = e.key
                  THEN [i \in DOMAIN s |-> IF s[i].key = e.key THEN e ELSE s[i]]
                  ELSE Append(s, e)
         IN  /\ UmsDict(r)
             /\ Len(r) = IF \E i \in DOMAIN s : s[i].key = e.key THEN Len(s) ELSE Len(s) + 1
<1>0. s \in Seq(UmsEntries) /\ Len(s) \in Nat /\ DOMAIN s = 1 .. Len(s) /\ e \in UmsEntries
  BY DEF UmsDict, UmsEntryOK
<1>1. CASE \E i \in DOMAIN s : s[i].key = e.key
  <2> DEFINE r == [i \in 1 .. Len(s) |-> IF s[i].key = e.key THEN e ELSE s[i]]
  <2>1. /\ r \in Seq(UmsEntries) /\ Len(r) = Len(s)
        /\ \A i \in 1 .. Len(s) : r[i] = IF s[i].key = e.key THEN e ELSE s[i]
    BY <1>0
  <2> HIDE DEF r
  <2>2. \A i \in 1 .. Len(s) : r[i].key = s[i].key /\ UmsEntryOK(r[i])
    BY <2>1 DEF UmsDict
  <2>3. UmsDict(r)
    BY <2>1, <2>2 DEF UmsDict
  <2> QED
    BY <1>0, <1>1, <2>1, <2>3 DEF r
<1>2. CASE ~\E i \in DOMAIN s : s[i].key = e.key
  <2> DEFINE r == Append(s, e)
  <2>1. /\ r \in Seq(UmsEntries) /\ Len(r) = Len(s) + 1 /\ r[Len(s) + 1] = e
        /\ \A i \in 1 .. Len(s) : r[i] = s[i] /\ s[i].key # e.key
    BY <1>0, <1>2
  <2> HIDE DEF r
  <2>2. \A i \in 1 .. Len(r) : i = Len(s) + 1 \/ i \in 1 .. Len(s)
    BY <1>0, <2>1
  <2>3. UmsDict(r)
    BY <1>0, <2>1, <2>2 DEF UmsDict
  <2> QED
    BY <1>2, <2>1, <2>3 DEF r
<1> QED
  BY <1>1, <1>2

LEMMA ReaderStores ==
  ASSUME UmsIInv, NEW t \in Readers, Ums!Store(t)
  PROVE  UmsIInv'
<1> DEFINE c == umsCall[t]
           new == [key |-> c.key, age |-> 0, edges |-> c.edges]
           fresh == Ums!UnexpiredOf(umsCache)
           kept == SubSeq(fresh, Len(fresh) - MaxEntries + 2, Len(fresh))
           room == IF Len(fresh) >= MaxEntries THEN kept ELSE fresh
           r == IF \E i \in DOMAIN room : room[i].key = c.key
                THEN [i \in DOMAIN room |-> IF room[i].key = c.key THEN new ELSE room[i]]
                ELSE Append(room, new)
           d == [c EXCEPT !.pc = "returned"]
<1>0. UmsCallOK(c) /\ c \in UmsCalls /\ UmsDict(umsCache) /\ Len(umsCache) <= MaxEntries
  BY DEF UmsIInv
<1>1. umsCache' = r /\ umsCall' = [umsCall EXCEPT ![t] = d] /\ c.pc = "store"
  BY Zenon DEF Ums!Store, Ums!At
<1>3. Selected(fresh, umsCache, Len(umsCache))
  BY <1>0, UnexpiredAreSelected
<1> HIDE DEF fresh, room, r
<1>a. c.key \in CacheKeys /\ c.edges \in UmsEdges
  BY <1>0 DEF UmsCalls
<1>b. Complete(c.edges) /\ c.edges.of = c.key /\ c.edges.since = 0 /\ Len(c.edges.pages) <= MaxPages
  BY <1>0, <1>1 DEF UmsCallOK
<1>2. UmsEntryOK(new) /\ new.key = c.key
  <2>1. new \in UmsEntries /\ new.edges = c.edges /\ new.key = c.key /\ new.age = 0
    BY <1>a, UmsBounds DEF UmsEntries
  <2> HIDE DEF new
  <2> QED
    BY <1>b, <2>1 DEF UmsEntryOK
<1> HIDE DEF new
<1>4. UmsDict(fresh) /\ Len(fresh) \in Nat
  BY <1>0, <1>3 DEF Selected, UmsDict
<1> USE DEF room
<1>5. UmsDict(room) /\ Len(room) \in Nat /\ Len(room) < MaxEntries
  <2>1. CASE Len(fresh) >= MaxEntries
    <3>1. PICK n \in 1 .. (Len(fresh) + 1) : n = Len(fresh) - MaxEntries + 2
      <4>1. PICK m \in Nat : m = Len(fresh)
        BY <1>4
      <4>2. m - MaxEntries + 2 \in 1 .. (m + 1)
        BY <2>1, <4>1, UmsBounds
      <4> QED
        BY <4>1, <4>2
    <3>2. UmsDict(kept) /\ Len(kept) = Len(fresh) + 1 - n
      BY <1>4, <3>1, UmsTail
    <3> QED
      BY <1>4, <2>1, <3>1, <3>2, UmsBounds
  <2>2. CASE ~(Len(fresh) >= MaxEntries)
    BY <1>4, <2>2, UmsBounds
  <2> QED
    BY <2>1, <2>2
<1> HIDE DEF room
<1> USE DEF r
<1>6. UmsDict(r) /\ Len(r) <= MaxEntries
  <2>1. /\ UmsDict(r)
        /\ Len(r) = IF \E i \in DOMAIN room : room[i].key = c.key
                    THEN Len(room) ELSE Len(room) + 1
    BY <1>2, <1>5, EntryStored
  <2> HIDE DEF r
  <2> QED
    BY <1>5, <2>1, UmsBounds
<1>7. UmsCallOK(d)
  BY <1>0, <1>1 DEF UmsCallOK, UmsCalls, UmsLabels
<1> HIDE DEF r, d
<1> QED
  BY <1>1, <1>6, <1>7, OneReaderSteps

LEMMA UmsTimePasses ==
  ASSUME UmsIInv, Ums!Tick
  PROVE  UmsIInv'
<1> DEFINE More(n) == IF n < Ttl THEN n + 1 ELSE n
           Older(e) == [e EXCEPT !.since = More(e.since)]
           Aged(e) == [e EXCEPT !.age = More(e.age), !.edges = Older(e.edges)]
           s == [i \in DOMAIN umsCache |-> Aged(umsCache[i])]
<1>0. /\ umsCache \in Seq(UmsEntries) /\ Len(umsCache) \in Nat
      /\ DOMAIN umsCache = 1 .. Len(umsCache)
      /\ \A i \in 1 .. Len(umsCache) : UmsEntryOK(umsCache[i])
      /\ \A i, j \in 1 .. Len(umsCache) : umsCache[i].key = umsCache[j].key => i = j
  BY DEF UmsIInv, UmsDict
<1>1. umsCache' = s /\ umsCall' = umsCall
  BY DEF Ums!Tick
<1>2. ASSUME NEW e, UmsEntryOK(e) PROVE UmsEntryOK(Aged(e)) /\ Aged(e).key = e.key
  <2>1. PICK a \in 0 .. Ttl, b \in 0 .. Ttl : a = e.age /\ b = e.edges.since /\ b <= a
    BY <1>2 DEF UmsEntryOK, UmsEntries, UmsEdges
  <2>2. PICK x \in 0 .. Ttl, y \in 0 .. Ttl : x = More(a) /\ y = More(b) /\ y <= x
    BY <2>1, UmsBounds
  <2>3. PICK f : f = [e.edges EXCEPT !.since = y]
    OBVIOUS
  <2>4. Aged(e) = [e EXCEPT !.age = x, !.edges = f]
    BY <2>1, <2>2, <2>3
  <2>5. /\ f \in UmsEdges /\ f.of = e.edges.of /\ f.since = y /\ f.pages = e.edges.pages
        /\ f.lost = e.edges.lost /\ f.total = e.edges.total
    BY <1>2, <2>3 DEF UmsEntryOK, UmsEntries, UmsEdges
  <2> HIDE DEF Aged
  <2>6. Aged(e) \in UmsEntries /\ Aged(e).key = e.key /\ Aged(e).age = x /\ Aged(e).edges = f
    BY <1>2, <2>4, <2>5 DEF UmsEntryOK, UmsEntries
  <2> QED
    BY <1>2, <2>2, <2>5, <2>6 DEF UmsEntryOK, Complete
<1> HIDE DEF Aged
<1>3. /\ \A i \in 1 .. Len(umsCache) : UmsEntryOK(s[i]) /\ s[i].key = umsCache[i].key
      /\ s = [i \in 1 .. Len(umsCache) |-> s[i]]
  BY <1>0, <1>2
<1> HIDE DEF s
<1>4. \A i \in 1 .. Len(umsCache) : s[i] \in UmsEntries
  BY <1>3 DEF UmsEntryOK
<1>5. s \in Seq(UmsEntries) /\ Len(s) = Len(umsCache)
  BY <1>0, <1>3, <1>4
<1>6. UmsDict(s)
  BY <1>0, <1>3, <1>5 DEF UmsDict
<1>7. PICK r : r = s
  OBVIOUS
<1> QED
  BY <1>1, <1>5, <1>6, <1>7 DEF UmsIInv, UmsDict, UmsCallOK

LEMMA UmsInductive == Ums!Spec => []UmsIInv
<1>1. Ums!Init => UmsIInv
  BY UmsInit
<1>2. UmsIInv /\ [Ums!Next]_(Ums!umsVars) => UmsIInv'
  <2> SUFFICES ASSUME UmsIInv, [Ums!Next]_(Ums!umsVars) PROVE UmsIInv'
    OBVIOUS
  <2>1. ASSUME NEW t \in Readers, Ums!Step(t) PROVE UmsIInv'
    BY <2>1, ReaderFetches, ReaderHits, ReaderStores DEF Ums!Step
  <2>2. ASSUME NEW t \in Readers, NEW k \in CacheKeys, Ums!Call(t, k) PROVE UmsIInv'
    <3>1. PICK first \in {"lookup", "prepare"} :
             umsCall' = [umsCall EXCEPT ![t] = Ums!CallOf(k, first)]
      BY <2>2 DEF Ums!Call
    <3>2. UmsCallOK(Ums!CallOf(k, first))
      BY NewCall
    <3>3. UmsDict(umsCache) /\ Len(umsCache) <= MaxEntries /\ umsCache' = umsCache
      BY <2>2 DEF UmsIInv, Ums!Call
    <3> QED
      BY <3>1, <3>2, <3>3, OneReaderSteps
  <2>3. CASE Ums!Tick
    BY <2>3, UmsTimePasses
  <2>4. CASE UNCHANGED Ums!umsVars
    BY <2>4 DEF Ums!umsVars, UmsIInv, UmsDict, UmsCallOK
  <2> QED
    BY <2>1, <2>2, <2>3, <2>4 DEF Ums!Next
<1> QED
  BY <1>1, <1>2, PTL DEF Ums!Spec

-----------------------------------------------------------------------------
(* The parts together *)

\* The types of all parts of the shared state; that the cache of tokens is over its
\* bound by no more entries than there are calls between inserting and evicting
\* (agentgateway/_token_cache.py); and that the cache of extensions never is over
\* its own (extensibility/_ums_transport.py).
THEOREM SharedTypes == SharedSpec => []TypesOK
<1>1. SharedSpec => []Ias!TypeOK
  BY ContainsIas, IasTypes, PTL
<1>2. SharedSpec => []TypeOK
  <2>1. ConstantsAreSound
    BY Bounds DEF ConstantsAreSound
  <2>2. Spec => []TypeInv
    BY <2>1, TypeCorrect
  <2>3. TypeInv => TypeOK
    BY DEF TypeInv
  <2> QED
    BY <2>2, <2>3, ContainsAdms, PTL
<1>3. SharedSpec => []Gateway!TypeOK
  <2>1. GatewayIInv => Gateway!TypeOK
    BY GatewayImplies
  <2> QED
    BY <2>1, ContainsGateway, GatewayInductive, PTL
<1>4. SharedSpec => []Ums!TypeOK
  <2>1. UmsIInv => Ums!TypeOK
    BY UmsImplies
  <2> QED
    BY <2>1, ContainsUms, UmsInductive, PTL
<1>5. SharedSpec => []Hook!TypeOK
  <2>1. Hook!Spec => []HookIInv
    BY HookInductive
  <2>2. HookIInv => Hook!TypeOK
    BY DEF HookIInv
  <2> QED
    BY <2>1, <2>2, ContainsHook, PTL
<1>6. SharedSpec => []Aicore!TypeOK
  <2>1. SharedOK /\ JobsOK /\ CalmOK => Aicore!TypeOK
    BY AicoreTyped
  <2> QED
    BY <2>1, ContainsAicore, AicoreInductive, PTL
<1>7. SharedSpec => [](part \in Parts)
  <2>1. SharedInit => part \in Parts
    BY DEF SharedInit
  <2>2. part \in Parts /\ [SharedNext]_sharedVars => (part \in Parts)'
    BY DEF SharedNext, sharedVars
  <2> QED
    BY <2>1, <2>2, PTL DEF SharedSpec
<1>8. (/\ part \in Parts /\ Ias!TypeOK /\ TypeOK /\ Gateway!TypeOK
       /\ Ums!TypeOK /\ Hook!TypeOK /\ Aicore!TypeOK)
      => TypesOK
  BY DEF TypesOK
<1> QED
  BY <1>1, <1>2, <1>3, <1>4, <1>5, <1>6, <1>7, <1>8, PTL

\* A get_token whose has_changed() reports the rotation, and that meets no other and no
\* further rotation, asks for its token with the mounted id and the mounted secret, and
\* returns a token of theirs, whatever user tokens are exchanged meanwhile
\* (adms/_ias_fetcher.py, _refresh_if_rotated and _apply_config).
THEOREM RotationsAreApplied == SharedSpec => []NoticedRotationIsApplied
<1>1. Ias!NoticedRotationIsApplied => NoticedRotationIsApplied
  BY DEF NoticedRotationIsApplied
<1>2. Ias!Spec => []Ias!NoticedRotationIsApplied
  BY NoticedRotations
<1> QED
  BY <1>1, <1>2, ContainsIas, PTL

\* A call of the gateway that runs alone raises no KeyError, at no bound of the cache:
\* the entry it has looked up is there when it is deleted or moved to the end
\* (agentgateway/_token_cache.py).
THEOREM LoneCallsRaiseNothing == SharedSpec => []OnlyRacesRaise
<1>1. GatewayIInv => OnlyRacesRaise
  BY GatewayImplies DEF OnlyRacesRaise
<1> QED
  BY <1>1, ContainsGateway, GatewayInductive, PTL

\* A token from the cache was alive when it was judged, at every buffer, lifetime and
\* delay of a response (agentgateway/_token_cache.py, compute_expires_at).
THEOREM TokensAreFresh == SharedSpec => []CachedTokensAreFresh
<1>1. GatewayIInv => CachedTokensAreFresh
  BY GatewayImplies DEF CachedTokensAreFresh
<1> QED
  BY <1>1, ContainsGateway, GatewayInductive, PTL

\* The token and the URL an LoB call returns are of one version of the destination,
\* always for a system token, and for a user's unless another user's fetch has stored
\* the URL of the scope (agentgateway/_lob.py, fetch_system_auth and fetch_user_auth).
THEOREM PairsAreOfOneVersion == SharedSpec => []PairsBelongTogether
<1>1. GatewayIInv => PairsBelongTogether
  BY GatewayImplies DEF PairsBelongTogether
<1> QED
  BY <1>1, ContainsGateway, GatewayInductive, PTL

\* A call returns every page once and in order, however many pages the service has,
\* unless it forgot a cursor or has more than _MAX_PAGES
\* (extensibility/_ums_transport.py, get_extension_capability_implementation).
THEOREM ExtensionsAreComplete == SharedSpec => []AnswersAreComplete
<1>1. UmsIInv => AnswersAreComplete
  BY UmsImplies DEF AnswersAreComplete
<1> QED
  BY <1>1, ContainsUms, UmsInductive, PTL

\* What a call returns is of its own tenant and capability and younger than the time
\* to live (extensibility/_ums_transport.py, the cache of edges).
THEOREM ExtensionsAreRecent == SharedSpec => []AnswersAreRecent
<1>1. UmsIInv => AnswersAreRecent
  BY UmsImplies DEF AnswersAreRecent
<1> QED
  BY <1>1, ContainsUms, UmsInductive, PTL

\* call_hook ends within the documented timeout plus the time of the first request, of
\* one interval and of the last request, and returns a message only of a workflow that
\* has succeeded (extensibility/client.py, call_hook).
THEOREM HooksEndInTime == SharedSpec => []CallsEndInTime
<1>1. HookIInv => CallsEndInTime
  BY DEF HookIInv, CallsEndInTime
<1> QED
  BY <1>1, HookInductive, ContainsHook, PTL

\* A completion is not refused twice if since its call the secret was neither rotated
\* nor unreadable and no older reload was under way, however the reloads of the other
\* completions and of the watcher interleave (aicore/__init__.py, aicore/completion.py).
THEOREM LoneCompletionsRecover == SharedSpec => []LoneCompletionRecovers
<1>1. CalmOK => LoneCompletionRecovers
  BY DEF CalmOK, RetryIsCurrent, LoneCompletionRecovers, Aicore!LoneCompletionRecovers, Aicore!At
<1>2. SharedOK /\ JobsOK /\ CalmOK => LoneCompletionRecovers
  BY <1>1
<1> QED
  BY <1>2, ContainsAicore, AicoreInductive, PTL
=============================================================================
