-------------------------- MODULE LocalStoreProofs --------------------------
(***************************************************************************)
(* LocalStore implements AtomicStore, for any number of threads, names,    *)
(* tenants and labels, and any number of calls and faults.                 *)
(***************************************************************************)
EXTENDS LocalStore, WellFoundedInduction, TLAPS

Data == [Levels -> Seq(Entry)]

-----------------------------------------------------------------------------
(* What the operations do to the data *)

\* An index that is found is an index of the list.
LEMMA IndexOfRange ==
  ASSUME NEW list \in Seq(Entry), NEW n, NEW k, Found(list, n, k)
  PROVE  IndexOf(list, n, k) \in 1 .. Len(list)
<1> DEFINE Hits == {i \in 1 .. Len(list) : Matches(list[i], n, k)}
<1>1. Hits # {} /\ IndexOf(list, n, k) = Min(Hits)
  BY DEF Found, IndexOf, SelectInSeq
<1>2. PICK m \in Hits : \A i \in Hits : <<i, m>> \notin OpToRel(<, Nat)
  <2>1. Hits \subseteq Nat
    OBVIOUS
  <2> HIDE DEF Hits
  <2> QED
    BY <1>1, <2>1, WFMin, NatLessThanWellFounded, Zenon
<1>3. ASSUME NEW i \in Hits PROVE m <= i
  <2>1. i \in Nat /\ m \in Nat /\ <<i, m>> \in Nat \X Nat
    OBVIOUS
  <2>2. ~(i < m)
    BY <1>2, <2>1 DEF OpToRel
  <2> QED
    BY <2>1, <2>2
<1>4. Min(Hits) \in Hits
  BY <1>3 DEF Min
<1> QED
  BY <1>1, <1>4

\* What each kind of operation carries.
LEMMA OperationTypes ==
  ASSUME NEW k \in Kinds, NEW o \in Operations(k)
  PROVE  /\ IsWrite(o) => o.level \in Levels
         /\ o.op \in {"create", "update"} => o.entity \in Entity
         /\ o.op \in {"set_labels", "patch_labels"} => o.labels \in SUBSET LabelKeys
<1>1. CASE o \in Lists
  <2>1. o.op \in {"list", "refuse"}
    BY <1>1 DEF Lists, Strategic
  <2> QED
    BY <2>1 DEF IsWrite
<1>2. ASSUME NEW n \in Names, o \in ReadsOf(n) PROVE o.op \in {"get", "refuse"}
  BY <1>2 DEF ReadsOf, Strategic
<1>3. ASSUME NEW n \in Names, o \in Labellings(n)
      PROVE  /\ o.op \in {"get_labels", "set_labels", "patch_labels"}
             /\ o.level \in Levels
             /\ o.op \in {"set_labels", "patch_labels"} => o.labels \in SUBSET LabelKeys
  BY <1>3 DEF Labellings
<1>4. ASSUME NEW n \in Names, o \in DestinationWrites(n)
      PROVE  /\ o.op \in {"create", "update", "delete"}
             /\ o.level \in Levels
             /\ o.op \in {"create", "update"} => o.entity \in Entity
  BY <1>4 DEF DestinationWrites
<1>5. ASSUME NEW n \in Names, o \in ByNameWrites(n)
      PROVE  /\ o.op \in {"create", "update", "delete"}
             /\ o.level \in Levels
             /\ o.op \in {"create", "update"} => o.entity \in Entity
  BY <1>5 DEF ByNameWrites
<1> QED
  BY <1>1, <1>2, <1>3, <1>4, <1>5 DEF Operations, WritesOf, IsWrite

LEMMA LabelsKeepEntries ==
  ASSUME NEW list \in Seq(Entry), NEW i \in 1 .. Len(list), NEW new \in SUBSET LabelKeys
  PROVE  [list EXCEPT ![i].labels = new] \in Seq(Entry)
<1>1. list[i] \in Entry
  OBVIOUS
<1> QED
  BY <1>1 DEF Entry

\* The data stay two lists of entries.
LEMMA PerformKeepsTypes ==
  ASSUME NEW d \in Data, NEW k \in Kinds, NEW o \in Operations(k)
  PROVE  Perform(d, o).data \in Data
<1> DEFINE list == d[o.level]
<1>0. \A l : Same(d, l).data \in Data
  BY DEF Same
<1>1. CASE ~IsWrite(o)
  BY <1>0, <1>1 DEF Perform, IsWrite, GetEntity, ListEntities, GetLabels
<1>2. CASE IsWrite(o)
  <2>1. o.level \in Levels /\ list \in Seq(Entry)
    BY <1>2, OperationTypes DEF Data
  <2>2. ASSUME NEW new \in Seq(Entry) PROVE Changed(d, o.level, new).data \in Data
    BY <2>1 DEF Changed, Data
  <2> HIDE DEF list
  <2>3. CASE o.op = "create"
    <3> DEFINE e == [name |-> o.entity.name, tenant |-> o.entity.tenant,
                     value |-> o.entity.value, labels |-> {}]
    <3>1. e \in Entry
      BY <2>3, OperationTypes DEF Entity, Entry
    <3>2. Append(list, e) \in Seq(Entry)
      BY <2>1, <3>1
    <3> QED
      BY <1>0, <2>2, <2>3, <3>2 DEF Perform, CreateEntity, list
  <2>4. CASE o.op = "update"
    <3> DEFINE i == IndexOf(list, o.entity.name, AnyTenant)
               existing == list[i]
               tenant == IF "tenant" \in o.keep /\ existing.tenant # NoTenant
                         THEN existing.tenant ELSE o.entity.tenant
               updated == [name |-> o.entity.name, tenant |-> tenant,
                           value |-> o.entity.value, labels |-> existing.labels]
    <3>1. ASSUME i # 0 PROVE [list EXCEPT ![i] = updated] \in Seq(Entry)
      <4>1. i \in 1 .. Len(list)
        BY <2>1, <3>1, IndexOfRange DEF Found
      <4>2. existing \in Entry
        BY <2>1, <4>1
      <4>3. updated \in Entry
        BY <2>4, <4>2, OperationTypes DEF Entity, Entry
      <4> HIDE DEF i, updated
      <4> QED
        BY <2>1, <4>1, <4>3
    <3> QED
      BY <1>0, <2>2, <2>4, <3>1 DEF Perform, UpdateEntity, list
  <2>5. CASE o.op = "delete"
    <3> DEFINE i == IndexOf(list, o.name, o.scope)
    <3>1. ASSUME i # 0 PROVE RemoveAt(list, i) \in Seq(Entry)
      <4>1. i \in 1 .. Len(list)
        BY <2>1, <3>1, IndexOfRange DEF Found
      <4> HIDE DEF i
      <4>2. SubSeq(list, 1, i - 1) \in Seq(Entry) /\ SubSeq(list, i + 1, Len(list)) \in Seq(Entry)
        BY <2>1, <4>1
      <4> QED
        BY <4>2 DEF RemoveAt
    <3> QED
      BY <1>0, <2>2, <2>5, <3>1 DEF Perform, DeleteEntity, list
  <2>6. CASE o.op \in {"set_labels", "patch_labels"}
    <3> DEFINE i == IndexOf(list, o.name, AnyTenant)
    <3>1. ASSUME NEW new \in SUBSET LabelKeys, i # 0
          PROVE  [list EXCEPT ![i].labels = new] \in Seq(Entry)
      BY <2>1, <3>1, IndexOfRange, LabelsKeepEntries DEF Found
    <3>2. ASSUME i # 0 PROVE list[i].labels \in SUBSET LabelKeys
      <4>1. i \in 1 .. Len(list)
        BY <2>1, <3>2, IndexOfRange DEF Found
      <4>2. list[i] \in Entry
        BY <2>1, <4>1
      <4> QED
        BY <4>2 DEF Entry
    <3>3. o.labels \in SUBSET LabelKeys
      BY <2>6, OperationTypes
    <3>4. CASE i = 0
      BY <1>0, <2>6, <3>4 DEF Perform, SetLabels, PatchLabels, WithLabels, list
    <3>5. CASE i # 0
      <4>1. CASE o.op = "set_labels"
        BY <2>2, <3>1, <3>3, <3>5, <4>1 DEF Perform, SetLabels, WithLabels, list
      <4>2. CASE o.op = "patch_labels" /\ o.action = "ADD"
        <5>1. list[i].labels \cup o.labels \in SUBSET LabelKeys
          BY <3>2, <3>3, <3>5
        <5> QED
          BY <2>2, <3>1, <3>5, <4>2, <5>1 DEF Perform, PatchLabels, WithLabels, list
      <4>3. CASE o.op = "patch_labels" /\ o.action # "ADD"
        <5>1. list[i].labels \ o.labels \in SUBSET LabelKeys
          BY <3>2, <3>3, <3>5
        <5> QED
          BY <2>2, <3>1, <3>5, <4>3, <5>1 DEF Perform, PatchLabels, WithLabels, list
      <4> QED
        BY <2>6, <4>1, <4>2, <4>3
    <3> QED
      BY <3>4, <3>5
  <2> QED
    BY <1>2, <2>3, <2>4, <2>5, <2>6 DEF IsWrite
<1> QED
  BY <1>1, <1>2

LEMMA PerformIsAPair ==
  ASSUME NEW d, NEW o
  PROVE  Perform(d, o) = [data |-> Perform(d, o).data, answer |-> Perform(d, o).answer]
  BY DEF Perform, GetEntity, ListEntities, CreateEntity, UpdateEntity, DeleteEntity,
         GetLabels, SetLabels, PatchLabels, WithLabels, Same, Changed

\* A read, a refusal and a failed write leave the data as they are.
LEMMA OnlySuccessfulWritesChange ==
  ASSUME NEW d, NEW o, IsRead(o) \/ Perform(d, o).answer # Ok
  PROVE  Perform(d, o).data = d
  BY DEF Perform, IsRead, GetEntity, ListEntities, CreateEntity, UpdateEntity, DeleteEntity,
         GetLabels, SetLabels, PatchLabels, WithLabels, Same, Changed

\* A call that needs a tenant and has none is answered without the data.
LEMMA RefusalsAnswer ==
  ASSUME NEW d, NEW o, ~IsRead(o), ~IsWrite(o)
  PROVE  Perform(d, o) = Same(d, NoTenantGiven)
  BY DEF Perform, IsRead, IsWrite

-----------------------------------------------------------------------------
(* The abstract store has the same operations *)

LEMMA SamePerform == \A d, o : Abstract!Perform(d, o) = Perform(d, o)
  BY DEF Abstract!Perform, Perform, Abstract!GetEntity, GetEntity,
         Abstract!ListEntities, ListEntities, Abstract!CreateEntity, CreateEntity,
         Abstract!UpdateEntity, UpdateEntity, Abstract!DeleteEntity, DeleteEntity,
         Abstract!GetLabels, GetLabels, Abstract!SetLabels, SetLabels,
         Abstract!PatchLabels, PatchLabels, Abstract!WithLabels, WithLabels,
         Abstract!Same, Same, Abstract!Changed, Changed, Abstract!Answer, Answer,
         Abstract!Ok, Ok, Abstract!NotFound, NotFound, Abstract!Conflict, Conflict,
         Abstract!NoTenantGiven, NoTenantGiven, Abstract!FirstFound, FirstFound,
         Abstract!FirstNonEmpty, FirstNonEmpty, Abstract!Found, Found,
         Abstract!IndexOf, IndexOf, Abstract!Matches, Matches,
         Abstract!SelectInSeq, SelectInSeq, Abstract!RemoveAt, RemoveAt, Abstract!Min, Min

LEMMA SameOperations == \A k : Abstract!Operations(k) = Operations(k)
  BY DEF Abstract!Operations, Operations, Abstract!Lists, Lists, Abstract!ReadsOf, ReadsOf,
         Abstract!Labellings, Labellings, Abstract!WritesOf, WritesOf,
         Abstract!DestinationWrites, DestinationWrites, Abstract!ByNameWrites, ByNameWrites,
         Abstract!Strategic, Strategic, Abstract!NeedsTenant, NeedsTenant,
         Abstract!ScopesOf, ScopesOf, Abstract!Strategies, Strategies, Abstract!Owners, Owners,
         Abstract!Levels, Levels, Abstract!Entity, Entity

LEMMA SameConstants ==
  /\ Abstract!EmptyData = EmptyData /\ Abstract!Ok = Ok /\ Abstract!StoreFailed = StoreFailed
  /\ Abstract!NoCall = NoCall /\ Abstract!Kinds = Kinds
  /\ [Abstract!Levels -> Seq(Abstract!Entry)] = Data
  /\ \A o : Abstract!IsRead(o) = IsRead(o)
  BY DEF Abstract!EmptyData, EmptyData, Abstract!Levels, Levels, Abstract!Ok, Ok,
         Abstract!Answer, Answer, Abstract!StoreFailed, StoreFailed, Abstract!NoCall, NoCall,
         Abstract!Kinds, Kinds, Abstract!Entry, Entry, Abstract!Owners, Owners,
         Abstract!IsRead, IsRead, Data

-----------------------------------------------------------------------------
(* The inductive invariant *)

(***************************************************************************)
(* What a label says of its thread.  While it holds the lock nobody else   *)
(* replaces the file, so what it has read of it is still true: a writer is *)
(* about to write what its operation makes of the file, and a reader that  *)
(* makes the file anew finds none.                                         *)
(***************************************************************************)
LabelOK(t) ==
    /\ pc[t] # "idle" => call[t] \in Operations(kind)
    /\ pc[t] \in Writing \cup {"lock"} => IsWrite(call[t])
    /\ pc[t] = "open" => IsRead(call[t])
    /\ pc[t] = "refuse" => ~IsRead(call[t]) /\ ~IsWrite(call[t])
    /\ pc[t] \in Ensuring => IsRead(call[t]) \/ (IsWrite(call[t]) /\ file = NoFile)
    /\ pc[t] \in {"ensure_open", "ensure_dump", "ensure_replace"} =>
           IsRead(call[t]) /\ file = NoFile /\ changed[t] = EmptyData
    /\ pc[t] \in {"open_tmp", "dump", "replace"} =>
           file # NoFile /\ Perform(file, call[t]) = [data |-> changed[t], answer |-> Ok]

IInv ==
    /\ TypeOK
    /\ changed \in [Threads -> Data]
    /\ call \in [Threads -> Operations(kind) \cup {NoCall}]
    /\ \A t \in Threads : LabelOK(t)

LEMMA EmptyIsData == EmptyData \in Data
  BY DEF EmptyData, Data

LEMMA ReadsDoNotWrite == \A o : ~(IsRead(o) /\ IsWrite(o))
  BY DEF IsRead, IsWrite

LEMMA StepKeepsIInv ==
  ASSUME IInv, [Next]_vars
  PROVE  IInv'
<1> USE LockAssumption, FileAssumption, BoundsAssumption, EmptyIsData, ReadsDoNotWrite
    DEF IInv, TypeOK, LabelOK, Holds, Ensuring, Writing, Goto
<1>1. ASSUME NEW t \in Threads, Call(t) PROVE IInv'
  BY <1>1 DEF Call, IsRead, IsWrite
<1>2. ASSUME NEW t \in Threads, Refuse(t) PROVE IInv'
  BY <1>2 DEF Refuse, Answers
<1>3. ASSUME NEW t \in Threads, ReadFile(t) PROVE IInv'
  BY <1>3 DEF ReadFile, Answers
<1>4. ASSUME NEW t \in Threads, EnsureExists(t) PROVE IInv'
  BY <1>4 DEF EnsureExists
<1>5. ASSUME NEW t \in Threads, EnsureLocked(t) PROVE IInv'
  BY <1>5 DEF EnsureLocked
<1>6. ASSUME NEW t \in Threads, AcquireLock(t) PROVE IInv'
  BY <1>6 DEF AcquireLock
<1>7. ASSUME NEW t \in Threads, LoadAndChange(t) PROVE IInv'
  <2> DEFINE r == Perform(file, call[t])
  <2>1. file \in Data /\ call[t] \in Operations(kind) /\ r.data \in Data
    BY <1>7, PerformKeepsTypes DEF LoadAndChange, Data
  <2>2. CASE r.answer = Ok
    <3>1. r = [data |-> r.data, answer |-> Ok]
      BY <2>2, PerformIsAPair
    <3> HIDE DEF r
    <3>2. /\ pc[t] = "load" /\ file # NoFile
          /\ pc' = [pc EXCEPT ![t] = "open_tmp"]
          /\ changed' = [changed EXCEPT ![t] = r.data]
          /\ UNCHANGED <<kind, file, tmp, lock, call, answer, calls, faults>>
      BY <1>7, <2>2 DEF LoadAndChange, r
    <3>3. TypeOK' /\ changed' \in [Threads -> Data]
      BY <2>1, <3>2
    <3>4. ASSUME NEW u \in Threads PROVE LabelOK(u)'
      BY <3>1, <3>2 DEF r
    <3> QED
      BY <3>2, <3>3, <3>4
  <2>3. CASE r.answer # Ok
    <3>1. /\ pc[t] = "load"
          /\ pc' = [pc EXCEPT ![t] = "unlock"]
          /\ UNCHANGED <<kind, file, tmp, lock, call, changed, calls, faults>>
      BY <1>7, <2>3 DEF LoadAndChange
    <3> HIDE DEF r
    <3> QED
      BY <3>1
  <2> QED
    BY <2>2, <2>3
<1>8. ASSUME NEW t \in Threads, LoadMissing(t) PROVE IInv'
  BY <1>8 DEF LoadMissing
<1>9. ASSUME NEW t \in Threads, OpenTmp(t) PROVE IInv'
  <2>1. lock = t /\ \A u \in Threads : Holds(u) => u = t
    BY <1>9 DEF OpenTmp
  <2>2. TypeOK'
    BY <1>9, <2>1 DEF OpenTmp
  <2>3. ASSUME NEW u \in Threads PROVE LabelOK(u)'
    BY <1>9, <2>1 DEF OpenTmp
  <2> QED
    BY <1>9, <2>2, <2>3 DEF OpenTmp
<1>10. ASSUME NEW t \in Threads, Dump(t) PROVE IInv'
  <2>1. lock = t /\ \A u \in Threads : Holds(u) => u = t
    BY <1>10 DEF Dump
  <2>2. TypeOK'
    <3>1. changed[t] \in [Levels -> Seq(Entry)]
      BY <1>10 DEF Dump, Data
    <3> QED
      BY <1>10, <2>1, <3>1 DEF Dump
  <2>3. ASSUME NEW u \in Threads PROVE LabelOK(u)'
    BY <1>10, <2>1 DEF Dump
  <2> QED
    BY <1>10, <2>2, <2>3 DEF Dump
<1>11. ASSUME NEW t \in Threads, Replace(t) PROVE IInv'
  <2>1. lock = t /\ \A u \in Threads : Holds(u) => u = t
    BY <1>11 DEF Replace, Answers
  <2>2. TypeOK'
    <3>1. changed[t] \in [Levels -> Seq(Entry)] /\ tmp = changed[t]
      BY <1>11 DEF Replace, Answers, Data
    <3> QED
      BY <1>11, <2>1, <3>1 DEF Replace, Answers
  <2>3. ASSUME NEW u \in Threads PROVE LabelOK(u)'
    BY <1>11, <2>1 DEF Replace, Answers
  <2> QED
    BY <1>11, <2>2, <2>3 DEF Replace, Answers
<1>12. ASSUME NEW t \in Threads, EnsureReplace(t) PROVE IInv'
  <2>1. lock = t /\ \A u \in Threads : Holds(u) => u = t
    BY <1>12 DEF EnsureReplace
  <2>2. TypeOK'
    <3>1. changed[t] \in [Levels -> Seq(Entry)] /\ tmp = changed[t]
      BY <1>12 DEF EnsureReplace, Data
    <3> QED
      BY <1>12, <2>1, <3>1 DEF EnsureReplace
  <2>3. ASSUME NEW u \in Threads PROVE LabelOK(u)'
    BY <1>12, <2>1 DEF EnsureReplace
  <2> QED
    BY <1>12, <2>2, <2>3 DEF EnsureReplace
<1>13. ASSUME NEW t \in Threads, WriteFails(t) PROVE IInv'
  BY <1>13 DEF WriteFails, Answers
<1>14. ASSUME NEW t \in Threads, EnsureFails(t) PROVE IInv'
  BY <1>14 DEF EnsureFails, Answers
<1>15. ASSUME NEW t \in Threads, Unlock(t) PROVE IInv'
  BY <1>15 DEF Unlock
<1>16. ASSUME NEW t \in Threads, Return(t) PROVE IInv'
  BY <1>16 DEF Return, Answers
<1>17. CASE Crash
  BY <1>17 DEF Crash
<1>18. CASE DeleteFile
  BY <1>18 DEF DeleteFile
<1>19. CASE UNCHANGED vars
  BY <1>19 DEF vars
<1> QED
  BY <1>1, <1>2, <1>3, <1>4, <1>5, <1>6, <1>7, <1>8, <1>9, <1>10, <1>11, <1>12, <1>13, <1>14,
     <1>15, <1>16, <1>17, <1>18, <1>19
  DEF Next, Work, Read, Write

LEMMA InitIInv == Init => IInv
<1> SUFFICES ASSUME Init PROVE IInv
  OBVIOUS
<1>1. PICK k \in Tenants :
        file \in [instance: {Of(k)},
                  subaccount: {<<>>, Of(NoTenant), Of(k), Of(k) \o Of(NoTenant)}]
  BY DEF Init
<1>2. \A j \in Owners : Of(j) \in Seq(Entry)
  BY NamesAssumption DEF Of, Entry
<1>3. Of(k) \in Seq(Entry) /\ Of(NoTenant) \in Seq(Entry)
  BY <1>2 DEF Owners
<1>4. file.instance \in Seq(Entry) /\ file.subaccount \in Seq(Entry)
  <2>1. <<>> \in Seq(Entry) /\ Of(k) \o Of(NoTenant) \in Seq(Entry)
    BY <1>3
  <2>2. /\ file.instance = Of(k)
        /\ file.subaccount \in {<<>>, Of(NoTenant), Of(k), Of(k) \o Of(NoTenant)}
    BY <1>1
  <2> QED
    BY <1>3, <2>1, <2>2
<1>5. file \in [Levels -> Seq(Entry)]
  BY <1>1, <1>4 DEF Levels
<1>6. TypeOK
  BY <1>5, LockAssumption, FileAssumption, BoundsAssumption
     DEF Init, TypeOK, Holds, Ensuring, Writing
<1>7. changed \in [Threads -> Data] /\ call \in [Threads -> Operations(kind) \cup {NoCall}]
  BY EmptyIsData DEF Init
<1>8. \A t \in Threads : LabelOK(t)
  BY DEF Init, LabelOK, Ensuring, Writing
<1> QED
  BY <1>6, <1>7, <1>8 DEF IInv

LEMMA IInvAlways == Spec => []IInv
  BY InitIInv, StepKeepsIInv, PTL DEF Spec

\* _lock is held exactly between taking it and releasing it, on every error
\* path of _write, _read and _ensure_file, the temporary file is complete when
\* os.replace renames it, and a reader of the path never finds partial data.
THEOREM TypeCorrect == Spec => []TypeOK
<1>1. IInv => TypeOK
  BY DEF IInv
<1> QED
  BY <1>1, IInvAlways, PTL

-----------------------------------------------------------------------------
(* The refinement *)

\* A step of one thread changes the phase of that thread.
LEMMA PhaseOfOne ==
  ASSUME NEW t \in Threads,
         \A u \in Threads \ {t} : pc'[u] = pc[u] /\ call'[u] = call[u]
  PROVE  [u \in Threads |-> Phase(u)]'
           = [[u \in Threads |-> Phase(u)] EXCEPT ![t] = Phase(t)']
<1>1. \A u \in Threads \ {t} : Phase(u)' = Phase(u)
  BY DEF Phase
<1> QED
  BY <1>1

Store == IF file = NoFile THEN EmptyData ELSE file
Phases == [u \in Threads |-> Phase(u)]

\* A thread's step that leaves its phase, its call, its answer and the data.
LEMMA Stutter ==
  ASSUME NEW t \in Threads, \A u \in Threads \ {t} : pc'[u] = pc[u],
         Phase(t)' = Phase(t), Store' = Store, UNCHANGED <<call, answer>>
  PROVE  UNCHANGED Abstract!vars
<1>1. \A u \in Threads \ {t} : pc'[u] = pc[u] /\ call'[u] = call[u]
  OBVIOUS
<1>2. Phases' = [Phases EXCEPT ![t] = Phase(t)']
  BY <1>1, PhaseOfOne DEF Phases
<1>3. Phases' = Phases
  BY <1>2 DEF Phases
<1> QED
  BY <1>3 DEF Abstract!vars, Store, Phases

\* A thread's step that answers its call and has the effect on the data.
LEMMA Effect ==
  ASSUME NEW t \in Threads, \A u \in Threads \ {t} : pc'[u] = pc[u],
         Phase(t) = "called", Phase(t)' = "answered",
         Store' = Perform(Store, call[t]).data,
         answer' = [answer EXCEPT ![t] = Perform(Store, call[t]).answer],
         UNCHANGED call
  PROVE  Abstract!Next
<1>1. \A u \in Threads \ {t} : pc'[u] = pc[u] /\ call'[u] = call[u]
  OBVIOUS
<1>2. Phases' = [Phases EXCEPT ![t] = "answered"]
  BY <1>1, PhaseOfOne DEF Phases
<1>3. Phases[t] = "called"
  BY DEF Phases
<1>4. Abstract!TakeEffect(t)
  BY <1>2, <1>3, SamePerform DEF Abstract!TakeEffect, Store, Phases
<1> QED
  BY <1>4 DEF Abstract!Next

\* A thread's step that fails its call.
LEMMA Failure ==
  ASSUME NEW t \in Threads, \A u \in Threads \ {t} : pc'[u] = pc[u],
         Phase(t) = "called" \/ (Phase(t) = "answered" /\ IsRead(call[t])),
         Phase(t)' = "answered", Store' = Store,
         answer' = [answer EXCEPT ![t] = StoreFailed],
         UNCHANGED call
  PROVE  Abstract!Next
<1>1. \A u \in Threads \ {t} : pc'[u] = pc[u] /\ call'[u] = call[u]
  OBVIOUS
<1>2. Phases' = [Phases EXCEPT ![t] = "answered"]
  BY <1>1, PhaseOfOne DEF Phases
<1>3. Phases[t] = Phase(t)
  BY DEF Phases
<1>4. Abstract!Fail(t)
  BY <1>2, <1>3, SameConstants DEF Abstract!Fail, Store, Phases
<1> QED
  BY <1>4 DEF Abstract!Next

LEMMA InitRefines == IInv /\ Init => Abstract!Init
<1> SUFFICES ASSUME IInv, Init PROVE Abstract!Init
  OBVIOUS
<1>1. Store \in Data
  BY EmptyIsData DEF Store, IInv, TypeOK, Data
<1>2. Phases = [t \in Threads |-> "idle"]
  <2>1. ASSUME NEW t \in Threads PROVE Phase(t) = "idle"
    <3>1. pc[t] = "idle"
      BY DEF Init
    <3> QED
      BY <3>1 DEF Phase, Ensuring
  <2> QED
    BY <2>1, Zenon DEF Phases
<1> QED
  BY <1>1, <1>2, SameConstants DEF Abstract!Init, Init, Store, Phases

LEMMA StepRefines ==
  ASSUME IInv, IInv', [Next]_vars
  PROVE  [Abstract!Next]_(Abstract!vars)
<1> USE FileAssumption, ReadsDoNotWrite DEF Ensuring, Goto
<1>0. \A t \in Threads : IsRead(call'[t]) \in BOOLEAN /\ IsRead(call[t]) \in BOOLEAN
  BY DEF IsRead
<1>T. pc \in [Threads -> {"idle", "refuse", "open", "lock", "unlock", "done"}
                          \cup Ensuring \cup Writing]
  BY DEF IInv, TypeOK
<1>L. \A t \in Threads : LabelOK(t)
  BY DEF IInv
<1>1. ASSUME NEW t \in Threads, Call(t) PROVE Abstract!Next
  <2>1. /\ pc[t] = "idle" /\ \A u \in Threads \ {t} : pc'[u] = pc[u] /\ call'[u] = call[u]
        /\ pc'[t] \in {"lock", "open", "refuse"}
        /\ UNCHANGED <<file, answer>>
    BY <1>1, <1>T DEF Call, IInv
  <2>2. PICK o \in Operations(kind) : call' = [call EXCEPT ![t] = o]
    BY <1>1 DEF Call
  <2>3. Phases' = [Phases EXCEPT ![t] = "called"] /\ Phases[t] = "idle"
    BY <2>1, PhaseOfOne DEF Phases, Phase
  <2>4. kind \in Abstract!Kinds /\ o \in Abstract!Operations(kind) /\ Store' = Store
    BY <2>1, SameConstants, SameOperations DEF IInv, TypeOK, Store
  <2>5. Abstract!Call(t)
    BY <2>1, <2>2, <2>3, <2>4 DEF Abstract!Call, Store, Phases
  <2> QED
    BY <2>5 DEF Abstract!Next
<1>2. ASSUME NEW t \in Threads, Refuse(t) PROVE Abstract!Next
  <2>1. /\ pc[t] = "refuse" /\ pc'[t] = "done" /\ \A u \in Threads \ {t} : pc'[u] = pc[u]
        /\ answer' = [answer EXCEPT ![t] = NoTenantGiven]
        /\ UNCHANGED <<file, call>>
    BY <1>2, <1>T DEF Refuse, Answers
  <2>2. /\ Perform(Store, call[t]).data = Store
        /\ Perform(Store, call[t]).answer = NoTenantGiven
    <3>1. ~IsRead(call[t]) /\ ~IsWrite(call[t])
      BY <1>L, <2>1 DEF LabelOK
    <3> QED
      BY <3>1, RefusalsAnswer DEF Same
  <2>3. Phase(t) = "called" /\ Phase(t)' = "answered" /\ Store' = Store
    BY <2>1 DEF Phase, Store
  <2> QED
    BY <2>1, <2>2, <2>3, Effect
<1>3. ASSUME NEW t \in Threads, ReadFile(t) PROVE Abstract!Next
  <2>1. /\ pc[t] = "open" /\ pc'[t] \in {"ensure", "done"}
        /\ \A u \in Threads \ {t} : pc'[u] = pc[u]
        /\ UNCHANGED <<file, call>>
    BY <1>3, <1>T DEF ReadFile
  <2>2. answer' = [answer EXCEPT ![t] = Perform(Store, call[t]).answer]
    BY <1>3 DEF ReadFile, Answers, Store
  <2>3. IsRead(call[t]) /\ Perform(Store, call[t]).data = Store
    <3>1. IsRead(call[t])
      BY <1>L, <2>1 DEF LabelOK
    <3> QED
      BY <3>1, OnlySuccessfulWritesChange
  <2>4. Phase(t) = "called" /\ Phase(t)' = "answered" /\ Store' = Store
    BY <2>1, <2>3 DEF Phase, Store
  <2> QED
    BY <2>1, <2>2, <2>3, <2>4, Effect
<1>4. ASSUME NEW t \in Threads, EnsureExists(t) PROVE UNCHANGED Abstract!vars
  <2>1. /\ pc[t] = "ensure" /\ pc'[t] = (IF file = NoFile THEN "ensure_lock" ELSE "done")
        /\ \A u \in Threads \ {t} : pc'[u] = pc[u]
        /\ UNCHANGED <<file, call, answer>>
    BY <1>4, <1>T DEF EnsureExists
  <2>2. IsRead(call[t]) \/ file = NoFile
    BY <1>L, <2>1 DEF LabelOK
  <2>3. Phase(t)' = Phase(t) /\ Store' = Store
    BY <2>1, <2>2 DEF Phase, Store
  <2> QED
    BY <2>1, <2>3, Stutter
<1>5. ASSUME NEW t \in Threads, EnsureLocked(t) PROVE UNCHANGED Abstract!vars
  <2>1. /\ pc[t] = "ensure_lock" /\ pc'[t] \in {"ensure_open", "unlock"} /\ lock = NoThread
        /\ \A u \in Threads \ {t} : pc'[u] = pc[u]
        /\ UNCHANGED <<file, call, answer>>
    BY <1>5, <1>T DEF EnsureLocked
  <2>2. IsRead(call[t])
    BY <1>L, <2>1, LockAssumption DEF LabelOK, IInv, TypeOK, Holds
  <2>3. Phase(t)' = Phase(t) /\ Store' = Store
    BY <2>1, <2>2 DEF Phase, Store
  <2> QED
    BY <2>1, <2>3, Stutter
<1>6. ASSUME NEW t \in Threads, AcquireLock(t) PROVE UNCHANGED Abstract!vars
  <2>1. /\ pc[t] = "lock" /\ pc'[t] = "load"
        /\ \A u \in Threads \ {t} : pc'[u] = pc[u]
        /\ UNCHANGED <<file, call, answer>>
    BY <1>6, <1>T DEF AcquireLock
  <2>2. Phase(t)' = Phase(t) /\ Store' = Store
    BY <2>1 DEF Phase, Store
  <2> QED
    BY <2>1, <2>2, Stutter
<1>7. ASSUME NEW t \in Threads, LoadAndChange(t)
      PROVE  Abstract!Next \/ UNCHANGED Abstract!vars
  <2> DEFINE r == Perform(file, call[t])
  <2>1. /\ pc[t] = "load" /\ file # NoFile /\ Store = file /\ Store' = Store
        /\ UNCHANGED <<file, call>>
    BY <1>7 DEF LoadAndChange, Store
  <2>2. CASE r.answer = Ok
    <3>1. /\ pc'[t] = "open_tmp" /\ \A u \in Threads \ {t} : pc'[u] = pc[u]
          /\ UNCHANGED <<call, answer>>
      BY <1>7, <1>T, <2>2 DEF LoadAndChange
    <3>2. Phase(t)' = Phase(t)
      BY <2>1, <3>1 DEF Phase
    <3> QED
      BY <2>1, <3>1, <3>2, Stutter
  <2>3. CASE r.answer # Ok
    <3>1. /\ pc'[t] = "unlock" /\ \A u \in Threads \ {t} : pc'[u] = pc[u]
          /\ answer' = [answer EXCEPT ![t] = r.answer]
      BY <1>7, <1>T, <2>3 DEF LoadAndChange, Answers
    <3>2. r.data = file
      BY <2>3, OnlySuccessfulWritesChange
    <3>3. Phase(t) = "called" /\ Phase(t)' = "answered"
      BY <2>1, <3>1 DEF Phase
    <3> QED
      BY <2>1, <3>1, <3>2, <3>3, Effect
  <2> QED
    BY <2>2, <2>3
<1>8. ASSUME NEW t \in Threads, LoadMissing(t) PROVE UNCHANGED Abstract!vars
  <2>1. /\ pc[t] = "load" /\ pc'[t] = "ensure"
        /\ \A u \in Threads \ {t} : pc'[u] = pc[u]
        /\ UNCHANGED <<file, call, answer>>
    BY <1>8, <1>T DEF LoadMissing
  <2>2. ~IsRead(call[t])
    BY <1>L, <2>1 DEF LabelOK, Writing
  <2>3. Phase(t)' = Phase(t) /\ Store' = Store
    BY <2>1, <2>2 DEF Phase, Store
  <2> QED
    BY <2>1, <2>3, Stutter
<1>9. ASSUME NEW t \in Threads, OpenTmp(t) \/ Dump(t) PROVE UNCHANGED Abstract!vars
  <2>1. /\ \/ pc[t] = "open_tmp" /\ pc'[t] = "dump"
           \/ pc[t] = "dump" /\ pc'[t] = "replace"
           \/ pc[t] = "ensure_open" /\ pc'[t] = "ensure_dump"
           \/ pc[t] = "ensure_dump" /\ pc'[t] = "ensure_replace"
        /\ \A u \in Threads \ {t} : pc'[u] = pc[u]
        /\ UNCHANGED <<file, call, answer>>
    BY <1>9, <1>T DEF OpenTmp, Dump
  <2>2. Phase(t)' = Phase(t) /\ Store' = Store
    BY <2>1 DEF Phase, Store
  <2> QED
    BY <2>1, <2>2, Stutter
<1>10. ASSUME NEW t \in Threads, Replace(t) PROVE Abstract!Next
  <2>1. /\ pc[t] = "replace" /\ pc'[t] = "unlock" /\ \A u \in Threads \ {t} : pc'[u] = pc[u]
        /\ answer' = [answer EXCEPT ![t] = Ok] /\ file' = tmp
        /\ UNCHANGED call
    BY <1>10, <1>T DEF Replace, Answers
  <2>2. /\ tmp = changed[t] /\ changed[t] \in Data
        /\ file # NoFile /\ Perform(file, call[t]) = [data |-> changed[t], answer |-> Ok]
    BY <1>L, <2>1 DEF IInv, TypeOK, LabelOK
  <2>3. Store = file /\ Store' = changed[t]
    BY <2>1, <2>2 DEF Store, Data
  <2>4. Perform(Store, call[t]).data = Store' /\ Perform(Store, call[t]).answer = Ok
    BY <2>2, <2>3
  <2>5. Phase(t) = "called" /\ Phase(t)' = "answered"
    BY <2>1 DEF Phase
  <2> QED
    BY <2>1, <2>4, <2>5, Effect
<1>11. ASSUME NEW t \in Threads, EnsureReplace(t) PROVE UNCHANGED Abstract!vars
  <2>1. /\ pc[t] = "ensure_replace" /\ pc'[t] = "unlock"
        /\ \A u \in Threads \ {t} : pc'[u] = pc[u]
        /\ file' = tmp
        /\ UNCHANGED <<call, answer>>
    BY <1>11, <1>T DEF EnsureReplace
  <2>2. /\ tmp = changed[t] /\ changed[t] = EmptyData /\ file = NoFile /\ IsRead(call[t])
    BY <1>L, <2>1 DEF IInv, TypeOK, LabelOK
  <2>3. Phase(t)' = Phase(t) /\ Store' = Store
    BY <2>1, <2>2 DEF Phase, Store
  <2> QED
    BY <2>1, <2>3, Stutter
<1>12. ASSUME NEW t \in Threads, WriteFails(t) \/ EnsureFails(t) PROVE Abstract!Next
  <2>1. /\ pc[t] \in {"open_tmp", "dump", "replace",
                      "ensure_open", "ensure_dump", "ensure_replace"}
        /\ pc'[t] = "unlock" /\ \A u \in Threads \ {t} : pc'[u] = pc[u]
        /\ answer' = [answer EXCEPT ![t] = StoreFailed]
        /\ UNCHANGED <<file, call>>
    BY <1>12, <1>T DEF WriteFails, EnsureFails, Answers
  <2>2. pc[t] \in {"ensure_open", "ensure_dump", "ensure_replace"} => IsRead(call[t])
    BY <1>L DEF LabelOK
  <2>3. /\ Phase(t) = "called" \/ (Phase(t) = "answered" /\ IsRead(call[t]))
        /\ Phase(t)' = "answered" /\ Store' = Store
    BY <2>1, <2>2 DEF Phase, Store
  <2> QED
    BY <2>1, <2>3, Failure
<1>13. ASSUME NEW t \in Threads, Unlock(t) PROVE UNCHANGED Abstract!vars
  <2>1. /\ pc[t] = "unlock" /\ pc'[t] = "done"
        /\ \A u \in Threads \ {t} : pc'[u] = pc[u]
        /\ UNCHANGED <<file, call, answer>>
    BY <1>13, <1>T DEF Unlock
  <2>2. Phase(t)' = Phase(t) /\ Store' = Store
    BY <2>1 DEF Phase, Store
  <2> QED
    BY <2>1, <2>2, Stutter
<1>14. ASSUME NEW t \in Threads, Return(t) PROVE Abstract!Next
  <2>1. /\ pc[t] = "done" /\ pc'[t] = "idle"
        /\ \A u \in Threads \ {t} : pc'[u] = pc[u] /\ call'[u] = call[u]
        /\ call' = [call EXCEPT ![t] = NoCall] /\ answer' = [answer EXCEPT ![t] = Ok]
        /\ UNCHANGED file
    BY <1>14, <1>T DEF Return, Answers, IInv
  <2>2. Phases' = [Phases EXCEPT ![t] = "idle"] /\ Phases[t] = "answered"
    BY <2>1, PhaseOfOne DEF Phases, Phase
  <2>3. Store' = Store
    BY <2>1 DEF Store
  <2>4. Abstract!Return(t)
    BY <2>1, <2>2, <2>3, SameConstants DEF Abstract!Return, Store, Phases
  <2> QED
    BY <2>4 DEF Abstract!Next
<1>15. CASE Crash
  <2>1. Phases' = [t \in Threads |-> "idle"] /\ Store' = Store
    BY <1>15 DEF Crash, Phases, Phase, Store
  <2>2. Abstract!Crash
    BY <1>15, <2>1, SameConstants DEF Crash, Abstract!Crash, Store, Phases
  <2> QED
    BY <2>2 DEF Abstract!Next
<1>16. CASE DeleteFile
  <2>1. /\ \A t \in Threads : pc[t] = "idle"
        /\ file' = NoFile /\ UNCHANGED <<pc, call, answer>>
    BY <1>16 DEF DeleteFile
  <2>2. Phases' = Phases /\ (\A t \in Threads : Phases[t] = "idle") /\ Store' = EmptyData
    BY <2>1 DEF Phases, Phase, Store
  <2>3. Abstract!FileDeleted
    BY <2>1, <2>2, SameConstants DEF Abstract!FileDeleted, Store, Phases
  <2> QED
    BY <2>3 DEF Abstract!Next
<1>17. CASE UNCHANGED vars
  <2>1. UNCHANGED <<Phases, Store, call, answer>>
    BY <1>17 DEF vars, Phases, Phase, Store
  <2> QED
    BY <2>1 DEF Abstract!vars, Store, Phases
<1> QED
  BY <1>1, <1>2, <1>3, <1>4, <1>5, <1>6, <1>7, <1>8, <1>9, <1>10, <1>11, <1>12, <1>13,
     <1>14, <1>15, <1>16, <1>17 DEF Next, Work, Read, Write

\* The operations of a local client on its file, taken apart into the steps of
\* _read, _write and _ensure_file and interleaved with other threads, crashes
\* and deletions, are those of a store in which each takes effect at once.
THEOREM StoreImplementsAtomicStore == Spec => Implements
<1>1. Spec => []IInv
  BY IInvAlways
<1> QED
  BY <1>1, InitIInv, InitRefines, StepRefines, PTL DEF Spec, Implements, Abstract!Spec
=============================================================================
