-------------------------- MODULE EnvironmentProofs --------------------------
(***************************************************************************)
(* What holds of the bindings of the services and of the calls of the      *)
(* Agent Gateway, at every number of rotations, of changes of the          *)
(* environment, of servers and of concurrent tasks; and of these and of    *)
(* the local store as MCEnvironment composes them.                         *)
(***************************************************************************)
EXTENDS MCEnvironment, LocalStoreProofs, FiniteSetTheorems

-----------------------------------------------------------------------------
(* The order in which a discovery returns what it has found *)

\* Induction without a predicate: a set of naturals has a least element.
LEMMA LeastNatural ==
  ASSUME NEW T, T \subseteq Nat, T # {}
  PROVE  \E n \in T : \A m \in T : n <= m
<1>1. PICK n \in T : \A m \in T : ~(<<m, n>> \in OpToRel(<, Nat))
  BY WFMin, NatLessThanWellFounded, Zenon
<1>2. ASSUME NEW m \in T, m < n PROVE <<m, n>> \in OpToRel(<, Nat)
  BY <1>2 DEF OpToRel
<1>3. \A m \in T : ~(m < n)
  BY <1>1, <1>2, Zenon
<1> QED
  BY <1>3

\* r has the members of S up to n, each once and in order.
Enumerates(r, S, n) ==
    /\ r \in Seq(Nat)
    /\ \A i \in 1 .. Len(r) : r[i] \in S /\ r[i] \in 1 .. n
    /\ \A m \in 1 .. n : m \in S => \E i \in 1 .. Len(r) : r[i] = m
    /\ \A i, j \in 1 .. Len(r) : i < j => r[i] < r[j]

LEMMA EnumerateNext ==
  ASSUME NEW S, NEW n \in Nat \ {0}, NEW r, Enumerates(r, S, n - 1)
  PROVE  /\ n \notin S => Enumerates(r, S, n)
         /\ n \in S => Enumerates(Append(r, n), S, n)
<1>1. Len(r) \in Nat /\ r \in Seq(Nat)
  BY DEF Enumerates
<1>2. ASSUME n \notin S PROVE Enumerates(r, S, n)
  BY <1>1, <1>2 DEF Enumerates
<1>3. ASSUME n \in S PROVE Enumerates(Append(r, n), S, n)
  <2> DEFINE q == Append(r, n)
  <2>1. /\ q \in Seq(Nat) /\ Len(q) = Len(r) + 1 /\ q[Len(r) + 1] = n
        /\ \A i \in 1 .. Len(r) : q[i] = r[i]
    BY <1>1
  <2> HIDE DEF q
  <2>2. \A i \in 1 .. Len(q) : i = Len(r) + 1 \/ i \in 1 .. Len(r)
    BY <1>1, <2>1
  <2>3. ASSUME NEW i \in 1 .. Len(q) PROVE q[i] \in S /\ q[i] \in 1 .. n
    <3>1. CASE i = Len(r) + 1
      BY <1>3, <2>1, <3>1
    <3>2. CASE i \in 1 .. Len(r)
      <4>1. q[i] \in S /\ q[i] \in 1 .. (n - 1)
        BY <2>1, <3>2 DEF Enumerates
      <4> QED
        BY <4>1
    <3> QED
      BY <2>2, <3>1, <3>2
  <2>4. ASSUME NEW m \in 1 .. n, m \in S PROVE \E i \in 1 .. Len(q) : q[i] = m
    <3>1. CASE m = n
      BY <1>1, <2>1, <3>1
    <3>2. CASE m # n
      <4>1. m \in 1 .. (n - 1)
        BY <3>2
      <4>2. PICK i \in 1 .. Len(r) : r[i] = m
        BY <2>4, <4>1 DEF Enumerates
      <4> QED
        BY <1>1, <2>1, <4>2
    <3> QED
      BY <3>1, <3>2
  <2>5. ASSUME NEW i \in 1 .. Len(q), NEW j \in 1 .. Len(q), i < j PROVE q[i] < q[j]
    <3>1. i \in 1 .. Len(r) /\ q[i] = r[i] /\ r[i] \in 1 .. (n - 1)
      BY <1>1, <2>1, <2>2, <2>5 DEF Enumerates
    <3>2. CASE j = Len(r) + 1
      BY <2>1, <3>1, <3>2
    <3>3. CASE j \in 1 .. Len(r)
      BY <2>1, <2>5, <3>1, <3>3 DEF Enumerates
    <3> QED
      BY <2>2, <3>2, <3>3
  <2>6. Enumerates(q, S, n)
    BY <2>1, <2>3, <2>4, <2>5 DEF Enumerates
  <2> QED
    BY <2>6 DEF q
<1> QED
  BY <1>2, <1>3

\* The value of the loop variable at i, from the one before in f.
Turn(f, S, i) ==
    IF i = 0 THEN <<>> ELSE IF i \in S THEN Append(f[i - 1], i) ELSE f[i - 1]

Runs(f, S, n) == f = [i \in 0 .. n |-> Turn(f, S, i)]

LEMMA RunsExist ==
  ASSUME NEW S, NEW last \in Nat
  PROVE  \A n \in 0 .. last : \E f : Runs(f, S, n) /\ Enumerates(f[n], S, n)
<1> DEFINE T == {n \in 0 .. last : ~\E f : Runs(f, S, n) /\ Enumerates(f[n], S, n)}
<1> SUFFICES ASSUME T # {} PROVE FALSE
  OBVIOUS
<1>1. PICK n \in T : \A m \in T : n <= m
  <2>1. T \subseteq Nat
    OBVIOUS
  <2> HIDE DEF T
  <2> QED
    BY <2>1, LeastNatural
<1>2. n \in 0 .. last /\ ~\E f : Runs(f, S, n) /\ Enumerates(f[n], S, n)
  OBVIOUS
<1>3. CASE n = 0
  <2> DEFINE f == [i \in 0 .. 0 |-> <<>>]
  <2>1. f[0] = <<>> /\ f = [i \in 0 .. 0 |-> Turn(f, S, i)]
    BY DEF Turn
  <2> HIDE DEF f
  <2>2. Runs(f, S, 0) /\ Enumerates(f[0], S, 0)
    BY <2>1 DEF Runs, Enumerates
  <2> QED
    BY <1>2, <1>3, <2>2
<1>4. CASE n # 0
  <2>1. n - 1 \in 0 .. last /\ n - 1 \notin T
    BY <1>1, <1>2, <1>4
  <2>2. PICK g : Runs(g, S, n - 1) /\ Enumerates(g[n - 1], S, n - 1)
    BY <2>1
  <2> DEFINE r == Turn(g, S, n)
             f == [i \in 0 .. n |-> IF i = n THEN r ELSE g[i]]
  <2>3. Enumerates(r, S, n)
    BY <1>2, <1>4, <2>2, EnumerateNext DEF Turn
  <2>4. \A i \in 0 .. (n - 1) : g[i] = Turn(g, S, i)
    BY <2>2 DEF Runs
  <2> HIDE DEF r
  <2>5. \A i \in 0 .. (n - 1) : f[i] = g[i]
    BY <1>2
  <2>6. f[n] = r
    BY <1>2
  <2>7. \A i \in 0 .. n : f[i] = Turn(f, S, i)
    <3> TAKE i \in 0 .. n
    <3>1. i = 0 \/ i - 1 \in 0 .. (n - 1)
      BY <1>2
    <3>2. Turn(f, S, i) = Turn(g, S, i)
      BY <2>5, <3>1 DEF Turn
    <3>3. CASE i = n
      BY <2>6, <3>2, <3>3 DEF r
    <3>4. CASE i # n
      <4>1. i \in 0 .. (n - 1)
        BY <1>2, <3>4
      <4> QED
        BY <2>4, <2>5, <3>2, <4>1
    <3> QED
      BY <3>3, <3>4
  <2>8. f = [i \in 0 .. n |-> f[i]]
    OBVIOUS
  <2> HIDE DEF f
  <2>9. Runs(f, S, n)
    BY <2>7, <2>8 DEF Runs
  <2> QED
    BY <1>2, <2>3, <2>6, <2>9
<1> QED
  BY <1>3, <1>4

\* No other function satisfies the definition.
LEMMA RunsAgree ==
  ASSUME NEW S, NEW n \in Nat, NEW f, Runs(f, S, n), NEW g, Runs(g, S, n)
  PROVE  \A i \in 0 .. n : f[i] = g[i]
<1> DEFINE T == {i \in 0 .. n : f[i] # g[i]}
<1> SUFFICES ASSUME T # {} PROVE FALSE
  OBVIOUS
<1>1. PICK i \in T : \A j \in T : i <= j
  <2>1. T \subseteq Nat
    OBVIOUS
  <2> HIDE DEF T
  <2> QED
    BY <2>1, LeastNatural
<1>2. i \in 0 .. n /\ f[i] # g[i]
  OBVIOUS
<1>3. f[i] = Turn(f, S, i) /\ g[i] = Turn(g, S, i)
  BY <1>2 DEF Runs
<1>4. i # 0
  BY <1>2, <1>3 DEF Turn
<1>5. i - 1 \in 0 .. n /\ i - 1 \notin T
  BY <1>1, <1>2, <1>4
<1>6. f[i - 1] = g[i - 1]
  BY <1>5
<1> QED
  BY <1>2, <1>3, <1>6 DEF Turn

LEMMA InOrderEnumerates ==
  ASSUME NEW S, Len(answers) \in Nat
  PROVE  Enumerates(Discovery!InOrder(S), S, Len(answers))
<1> DEFINE n == Len(answers)
           u == CHOOSE f : Runs(f, S, n)
<1>1. PICK f : Runs(f, S, n) /\ Enumerates(f[n], S, n)
  BY RunsExist
<1>2. Runs(u, S, n)
  BY <1>1
<1>3. u[n] = f[n]
  <2> HIDE DEF u
  <2> QED
    BY <1>1, <1>2, RunsAgree
<1>4. Discovery!InOrder(S) = u[n]
  BY DEF Discovery!InOrder, Runs, Turn
<1> QED
  BY <1>1, <1>3, <1>4

-----------------------------------------------------------------------------
(* GatewayDiscovery: the inductive invariant *)

Content == Discovery!Offers \cup Discovery!Cards

ServerAnswers == Content \cup {"waiting", "asked", "failed"}

Asked(a) == {i \in 1 .. Len(a) : a[i] = "asked"}

\* Every server that is asked has a permit of the semaphore.
PermitsOK ==
    /\ answers \in Seq(ServerAnswers)
    /\ permits = MaxConcurrent - Cardinality(Asked(answers))

DiscoveryLabels == {"guard", "auth", "detect", "list", "gather", "match", "invokeLob",
                    "invokeCustomer", "parse", "returned", "raised"}

\* Which operations are where: a hook gathers before it has its tool, and invokes after;
\* and where a token has been fetched and the servers have been chosen.
PhaseOK ==
    /\ mode \in Discovery!Modes /\ changes \in 0 .. MaxChanges
    /\ operation \in Discovery!Operations /\ gwPc \in DiscoveryLabels
    /\ token \in Discovery!Modes \cup {"none"} /\ target \in Discovery!Modes \cup {"none"}
    /\ tool \in {"none", "hook"} /\ (tool = "hook" => operation = "hook")
    /\ onlyNamed => operation \in {"tools", "cards"}
    /\ gwPc \in {"list", "gather"} => Discovery!Lists
    /\ Discovery!Invoking => ~Discovery!Lists
    /\ gwPc = "match" => operation = "hook" /\ tool = "none"
    /\ gwPc = "parse" => tool = "hook"
    /\ gwPc = "guard" => token = "none"
    /\ gwPc \in {"auth", "detect"} \/ Discovery!Invoking
          => operation \notin {"integrations", "clientId"}
    /\ gwPc = "detect" => operation # "cards"
    /\ gwPc \in {"detect", "list", "gather"} \/ Discovery!Invoking => token # "none"
    /\ gwPc \in {"list", "gather", "match"} \/ operation = "call" \/ tool = "hook"
          => target # "none"
    /\ gwPc = "auth" /\ operation = "cards" => target # "none"

\* What the caller has kept of a listing.
KeptOK ==
    /\ kept \in [flow : Discovery!Modes \cup {"none"}, at : 0 .. changes]
    /\ kept.flow = "none" => kept = Discovery!NothingKept
    /\ kept.flow # "none" /\ kept.at = changes => kept.flow = mode

\* What the environment has not changed since is of its flow: a token, and the servers,
\* which for agent cards are those of an LoB agent.
FlowOK ==
    /\ tokenAt \in 0 .. changes /\ urlAt \in 0 .. changes
    /\ token # "none" /\ tokenAt = changes => token = mode
    /\ target # "none" /\ urlAt = changes =>
          IF operation = "cards" THEN mode # "customer" ELSE target = mode
    /\ operation = "cards" => target \in {"none", "lob"}
    /\ token # "none" /\ target # "none" /\ tokenAt = urlAt =>
          token = target \/ (operation = "cards" /\ token = "transparent")
    /\ Discovery!Invoking /\ token = "lob" => user \/ tokenAt < changes

Wanted(i) ==
    answers[i] \in Content \ {"nothing"} /\ (onlyNamed => Discovery!Named(answers[i]))

Gathered == Enumerates(found, {i \in 1 .. Len(answers) : Wanted(i)}, Len(answers))

\* What is found is what is wanted, except while answers arrive; there are no answers
\* before a listing; and a discovery raises only for the reasons of its own.
ResultOK ==
    /\ gwPc \notin {"gather", "raised"} => Gathered
    /\ gwPc \in {"guard", "auth", "detect", "list", "invokeLob", "invokeCustomer"}
       /\ tool = "none" =>
          answers = <<>> /\ found = <<>>
    /\ operation = "cards" => \A i \in 1 .. Len(answers) : answers[i] # "nothing"
    /\ gwPc = "raised" /\ answers # <<>> =>
          \/ operation = "hook"
          \/ /\ operation = "cards" /\ onlyNamed
             /\ \E i \in 1 .. Len(answers) : answers[i] = "noObject"
    /\ gwPc = "raised" /\ gwError = "ExtensibilityError" /\ tool = "none" =>
          \A i \in 1 .. Len(answers) : answers[i] # "hook"

DiscoveryInv == PermitsOK /\ PhaseOK /\ KeptOK /\ FlowOK /\ ResultOK

-----------------------------------------------------------------------------
LEMMA DiscoveryBounds ==
  MaxServers \in Nat /\ MaxConcurrent \in Nat \ {0} /\ MaxChanges \in Nat
BY Bounds DEF Discovery!DiscoveryAssumption

LEMMA AskedIsFinite ==
  ASSUME NEW a \in Seq(ServerAnswers)
  PROVE  IsFiniteSet(Asked(a)) /\ Cardinality(Asked(a)) \in Nat
<1>1. IsFiniteSet(1 .. Len(a))
  BY FS_Interval
<1>2. Asked(a) \subseteq 1 .. Len(a)
  BY DEF Asked
<1> QED
  BY <1>1, <1>2, FS_Subset, FS_CardinalityType

\* Cardinality as GatewayDiscovery sees it.
LEMMA SameCardinality == \A S : Discovery!Cardinality(S) = Cardinality(S)
BY Zenon DEF Discovery!Cardinality, Cardinality, Discovery!IsFiniteSet, IsFiniteSet

LEMMA NothingIsGathered ==
  ASSUME answers = <<>>, found = <<>>
  PROVE  Gathered
BY DEF Gathered, Enumerates

LEMMA DiscoveryInit == Discovery!Init => DiscoveryInv
<1> SUFFICES ASSUME Discovery!Init PROVE DiscoveryInv
  OBVIOUS
<1> USE DEF Discovery!Init
<1>1. PermitsOK
  <2>1. Asked(<<>>) = {} /\ answers \in Seq(ServerAnswers) /\ answers = <<>>
    BY DEF Asked
  <2> QED
    BY <2>1, FS_EmptySet, DiscoveryBounds DEF PermitsOK
<1>2. PhaseOK
  BY DiscoveryBounds
    DEF PhaseOK, Discovery!Modes, Discovery!Operations, DiscoveryLabels, Discovery!Invoking
<1>3. KeptOK
  BY DEF KeptOK, Discovery!NothingKept, Discovery!Modes
<1>4. FlowOK
  BY DEF FlowOK, Discovery!Invoking
<1>5. ResultOK
  BY NothingIsGathered DEF ResultOK
<1> QED
  BY <1>1, <1>2, <1>3, <1>4, <1>5 DEF DiscoveryInv

LEMMA KeepsPhase ==
  ASSUME DiscoveryInv, [Discovery!Next]_(Discovery!discoveryVars)
  PROVE  PhaseOK'
<1> USE DEF DiscoveryInv, PhaseOK, KeptOK, DiscoveryLabels, Discovery!Modes, Discovery!Operations,
            Discovery!Lists, Discovery!Invoking, Discovery!context, Discovery!fetched,
            Discovery!chosen, Discovery!gathering, Discovery!Goto
<1>1. ASSUME NEW o \in Discovery!Operations, NEW u \in Discovery!Passes(o), Discovery!Call(o, u)
      PROVE  PhaseOK'
  BY <1>1 DEF Discovery!Call, Discovery!Passes, Discovery!NothingKept
<1>2. ASSUME Discovery!GuardCards PROVE PhaseOK'
  BY <1>2 DEF Discovery!GuardCards, Discovery!Raise
<1>3. ASSUME Discovery!Integrations PROVE PhaseOK'
  BY <1>3 DEF Discovery!Integrations, Discovery!Raise
<1>4. ASSUME Discovery!ClientId PROVE PhaseOK'
  BY <1>4 DEF Discovery!ClientId, Discovery!Raise
<1>5. ASSUME Discovery!Authenticate PROVE PhaseOK'
  BY <1>5 DEF Discovery!Authenticate, Discovery!Raise, Discovery!CallError
<1>6. ASSUME Discovery!Detect PROVE PhaseOK'
  BY <1>6 DEF Discovery!Detect
<1>7. ASSUME Discovery!DetectFails PROVE PhaseOK'
  BY <1>7 DEF Discovery!DetectFails, Discovery!Raise, Discovery!CallError
<1>8. ASSUME Discovery!ListFragments PROVE PhaseOK'
  BY <1>8 DEF Discovery!ListFragments, Discovery!Servers
<1>9. ASSUME Discovery!FragmentsFail PROVE PhaseOK'
  BY <1>9 DEF Discovery!FragmentsFail, Discovery!Raise
<1>10. ASSUME Discovery!ListDependencies PROVE PhaseOK'
  BY <1>10 DEF Discovery!ListDependencies, Discovery!Servers
<1>11. ASSUME NEW i \in DOMAIN answers, Discovery!Ask(i) PROVE PhaseOK'
  BY <1>11 DEF Discovery!Ask
<1>12. ASSUME NEW i \in DOMAIN answers,
              Discovery!AnswerTools(i) \/ Discovery!AnswerCard(i) \/ Discovery!Fails(i)
      PROVE  PhaseOK'
  BY <1>12 DEF Discovery!AnswerTools, Discovery!AnswerCard, Discovery!Fails, Discovery!Receive
<1>13. ASSUME Discovery!Collect PROVE PhaseOK'
  BY <1>13 DEF Discovery!Collect
<1>14. ASSUME Discovery!CollectCards PROVE PhaseOK'
  BY <1>14 DEF Discovery!CollectCards, Discovery!Raise
<1>15. ASSUME Discovery!Match PROVE PhaseOK'
  BY <1>15 DEF Discovery!Match, Discovery!Raise
<1>16. ASSUME Discovery!InvokeLob \/ Discovery!InvokeCustomer PROVE PhaseOK'
  BY <1>16
    DEF Discovery!InvokeLob, Discovery!InvokeCustomer, Discovery!Invoked, Discovery!Raise,
        Discovery!CallError
<1>17. ASSUME Discovery!Parse PROVE PhaseOK'
  BY <1>17 DEF Discovery!Parse, Discovery!Raise
<1>18. ASSUME Discovery!ChangeEnvironment PROVE PhaseOK'
  BY <1>18, DiscoveryBounds DEF Discovery!ChangeEnvironment
<1>19. ASSUME UNCHANGED Discovery!discoveryVars PROVE PhaseOK'
  BY <1>19 DEF Discovery!discoveryVars
<1> QED
  BY <1>1, <1>2, <1>3, <1>4, <1>5, <1>6, <1>7, <1>8, <1>9, <1>10,
     <1>11, <1>12, <1>13, <1>14, <1>15, <1>16, <1>17, <1>18, <1>19
  DEF Discovery!Next

LEMMA KeptStays ==
  ASSUME KeptOK, UNCHANGED <<kept, changes, mode>>
  PROVE  KeptOK'
BY DEF KeptOK

LEMMA KeepsKept ==
  ASSUME DiscoveryInv, [Discovery!Next]_(Discovery!discoveryVars)
  PROVE  KeptOK'
<1> USE DEF DiscoveryInv, Discovery!context, Discovery!chosen
<1>1. ASSUME Discovery!Collect PROVE KeptOK'
  <2>1. CASE kept' = kept
    BY <1>1, <2>1, KeptStays DEF Discovery!Collect
  <2>2. CASE kept' # kept
    <3>1. kept' = [flow |-> target, at |-> urlAt] /\ operation = "tools"
      BY <1>1, <2>2 DEF Discovery!Collect, Discovery!Keep
    <3>2. target # "none" /\ target \in Discovery!Modes /\ UNCHANGED <<changes, mode>>
      BY <1>1 DEF Discovery!Collect, PhaseOK
    <3> QED
      BY <3>1, <3>2 DEF KeptOK, FlowOK
  <2> QED
    BY <2>1, <2>2
<1>2. ASSUME Discovery!ChangeEnvironment PROVE KeptOK'
  BY <1>2 DEF Discovery!ChangeEnvironment, KeptOK, PhaseOK
<1>3. ASSUME ~Discovery!Collect, ~Discovery!ChangeEnvironment PROVE KeptOK'
  <2>1. UNCHANGED <<kept, changes, mode>>
    BY <1>3 DEF Discovery!Next, Discovery!Call, Discovery!GuardCards, Discovery!Integrations,
       Discovery!ClientId, Discovery!Authenticate, Discovery!Detect, Discovery!DetectFails,
       Discovery!ListFragments, Discovery!FragmentsFail, Discovery!ListDependencies,
       Discovery!Ask, Discovery!AnswerTools, Discovery!AnswerCard, Discovery!Fails,
       Discovery!Receive, Discovery!CollectCards, Discovery!Match, Discovery!InvokeLob,
       Discovery!InvokeCustomer, Discovery!Invoked, Discovery!Parse, Discovery!discoveryVars
  <2> QED
    BY <2>1, KeptStays
<1> QED
  BY <1>1, <1>2, <1>3

LEMMA KeepsFlow ==
  ASSUME DiscoveryInv, [Discovery!Next]_(Discovery!discoveryVars)
  PROVE  FlowOK'
<1> USE DEF DiscoveryInv, PhaseOK, KeptOK, FlowOK, Discovery!Modes, Discovery!Lists,
            Discovery!Invoking, Discovery!context, Discovery!fetched, Discovery!chosen,
            Discovery!gathering, Discovery!Goto
<1>1. ASSUME NEW o \in Discovery!Operations, NEW u \in Discovery!Passes(o), Discovery!Call(o, u)
      PROVE  FlowOK'
  BY <1>1, DiscoveryBounds DEF Discovery!Call, Discovery!Passes, Discovery!NothingKept
<1>2. ASSUME Discovery!GuardCards PROVE FlowOK'
  BY <1>2 DEF Discovery!GuardCards, Discovery!Raise
<1>3. ASSUME Discovery!Integrations PROVE FlowOK'
  BY <1>3 DEF Discovery!Integrations, Discovery!Raise
<1>4. ASSUME Discovery!ClientId PROVE FlowOK'
  BY <1>4 DEF Discovery!ClientId, Discovery!Raise
<1>5. ASSUME Discovery!Authenticate PROVE FlowOK'
  BY <1>5 DEF Discovery!Authenticate, Discovery!Raise, Discovery!CallError
<1>6. ASSUME Discovery!Detect PROVE FlowOK'
  BY <1>6 DEF Discovery!Detect
<1>7. ASSUME Discovery!DetectFails PROVE FlowOK'
  BY <1>7 DEF Discovery!DetectFails, Discovery!Raise, Discovery!CallError
<1>8. ASSUME Discovery!ListFragments PROVE FlowOK'
  BY <1>8 DEF Discovery!ListFragments, Discovery!Servers
<1>9. ASSUME Discovery!FragmentsFail PROVE FlowOK'
  BY <1>9 DEF Discovery!FragmentsFail, Discovery!Raise
<1>10. ASSUME Discovery!ListDependencies PROVE FlowOK'
  BY <1>10 DEF Discovery!ListDependencies, Discovery!Servers
<1>11. ASSUME NEW i \in DOMAIN answers, Discovery!Ask(i) PROVE FlowOK'
  BY <1>11 DEF Discovery!Ask
<1>12. ASSUME NEW i \in DOMAIN answers,
              Discovery!AnswerTools(i) \/ Discovery!AnswerCard(i) \/ Discovery!Fails(i)
      PROVE  FlowOK'
  BY <1>12 DEF Discovery!AnswerTools, Discovery!AnswerCard, Discovery!Fails, Discovery!Receive
<1>13. ASSUME Discovery!Collect PROVE FlowOK'
  BY <1>13 DEF Discovery!Collect
<1>14. ASSUME Discovery!CollectCards PROVE FlowOK'
  BY <1>14 DEF Discovery!CollectCards, Discovery!Raise
<1>15. ASSUME Discovery!Match PROVE FlowOK'
  BY <1>15 DEF Discovery!Match, Discovery!Raise
<1>16. ASSUME Discovery!InvokeLob \/ Discovery!InvokeCustomer PROVE FlowOK'
  BY <1>16
    DEF Discovery!InvokeLob, Discovery!InvokeCustomer, Discovery!Invoked, Discovery!Raise,
        Discovery!CallError
<1>17. ASSUME Discovery!Parse PROVE FlowOK'
  BY <1>17 DEF Discovery!Parse, Discovery!Raise
<1>18. ASSUME Discovery!ChangeEnvironment PROVE FlowOK'
  BY <1>18 DEF Discovery!ChangeEnvironment
<1>19. ASSUME UNCHANGED Discovery!discoveryVars PROVE FlowOK'
  BY <1>19 DEF Discovery!discoveryVars
<1> QED
  BY <1>1, <1>2, <1>3, <1>4, <1>5, <1>6, <1>7, <1>8, <1>9, <1>10,
     <1>11, <1>12, <1>13, <1>14, <1>15, <1>16, <1>17, <1>18, <1>19
  DEF Discovery!Next

LEMMA OneAnswerChanges ==
  ASSUME PermitsOK, NEW i \in DOMAIN answers, NEW c \in ServerAnswers,
         answers' = [answers EXCEPT ![i] = c]
  PROVE  /\ answers' \in Seq(ServerAnswers) /\ Len(answers') = Len(answers)
         /\ c = "asked" => Asked(answers') = Asked(answers) \cup {i}
         /\ c # "asked" => Asked(answers') = Asked(answers) \ {i}
<1>1. /\ answers \in Seq(ServerAnswers) /\ Len(answers) \in Nat
      /\ i \in 1 .. Len(answers)
  BY DEF PermitsOK
<1>2. answers' \in Seq(ServerAnswers) /\ Len(answers') = Len(answers)
  BY <1>1
<1> QED
  BY <1>1, <1>2 DEF Asked

LEMMA KeepsPermits ==
  ASSUME DiscoveryInv, [Discovery!Next]_(Discovery!discoveryVars)
  PROVE  PermitsOK'
<1> USE DEF DiscoveryInv, PhaseOK, Discovery!context, Discovery!fetched, Discovery!chosen,
            Discovery!gathering, Discovery!Goto
<1>1. ASSUME NEW o \in Discovery!Operations, NEW u \in Discovery!Passes(o), Discovery!Call(o, u)
      PROVE  PermitsOK'
  <2>1. Asked(<<>>) = {} /\ <<>> \in Seq(ServerAnswers)
    BY DEF Asked
  <2>2. answers' = <<>> /\ permits' = MaxConcurrent
    BY <1>1 DEF Discovery!Call
  <2>3. Asked(answers') = {}
    BY <2>1, <2>2
  <2>4. Cardinality(Asked(answers')) = 0
    BY <2>3, FS_EmptySet
  <2> QED
    BY <2>1, <2>2, <2>4, DiscoveryBounds DEF PermitsOK
<1>2. ASSUME Discovery!GuardCards PROVE PermitsOK'
  BY <1>2 DEF PermitsOK, Discovery!GuardCards, Discovery!Raise
<1>3. ASSUME Discovery!Integrations PROVE PermitsOK'
  BY <1>3 DEF PermitsOK, Discovery!Integrations, Discovery!Raise
<1>4. ASSUME Discovery!ClientId PROVE PermitsOK'
  BY <1>4 DEF PermitsOK, Discovery!ClientId, Discovery!Raise
<1>5. ASSUME Discovery!Authenticate PROVE PermitsOK'
  BY <1>5 DEF PermitsOK, Discovery!Authenticate, Discovery!Raise, Discovery!CallError
<1>6. ASSUME Discovery!Detect PROVE PermitsOK'
  BY <1>6 DEF PermitsOK, Discovery!Detect
<1>7. ASSUME Discovery!DetectFails PROVE PermitsOK'
  BY <1>7 DEF PermitsOK, Discovery!DetectFails, Discovery!Raise, Discovery!CallError
<1>8. ASSUME Discovery!ListFragments PROVE PermitsOK'
  <2>1. PICK n \in 0 .. MaxServers : answers' = [i \in 1 .. n |-> "waiting"]
    BY <1>8 DEF PermitsOK, Discovery!ListFragments, Discovery!Servers
  <2>2. answers' \in Seq(ServerAnswers) /\ Len(answers') = n
    BY <2>1 DEF ServerAnswers
  <2>3. Asked(answers') = {} /\ Asked(answers) = {} /\ permits' = permits
    BY <1>8, <2>1, <2>2 DEF Discovery!ListFragments, ResultOK, Asked, Discovery!Lists
  <2> QED
    BY <2>2, <2>3 DEF PermitsOK
<1>9. ASSUME Discovery!FragmentsFail PROVE PermitsOK'
  BY <1>9 DEF PermitsOK, Discovery!FragmentsFail, Discovery!Raise
<1>10. ASSUME Discovery!ListDependencies PROVE PermitsOK'
  <2>1. PICK n \in 0 .. MaxServers : answers' = [i \in 1 .. n |-> "waiting"]
    BY <1>10 DEF PermitsOK, Discovery!ListDependencies, Discovery!Servers
  <2>2. answers' \in Seq(ServerAnswers) /\ Len(answers') = n
    BY <2>1 DEF ServerAnswers
  <2>3. Asked(answers') = {} /\ Asked(answers) = {} /\ permits' = permits
    BY <1>10, <2>1, <2>2 DEF Discovery!ListDependencies, ResultOK, Asked, Discovery!Lists
  <2> QED
    BY <2>2, <2>3 DEF PermitsOK
<1>11. ASSUME NEW i \in DOMAIN answers, Discovery!Ask(i) PROVE PermitsOK'
  <2>1. answers' = [answers EXCEPT ![i] = "asked"] /\ permits' = permits - 1 /\ i \notin Asked(answers)
    BY <1>11 DEF PermitsOK, Discovery!Ask, Asked
  <2>2. answers' \in Seq(ServerAnswers) /\ Asked(answers') = Asked(answers) \cup {i}
    BY <2>1, OneAnswerChanges DEF ServerAnswers
  <2>3. IsFiniteSet(Asked(answers)) /\ Cardinality(Asked(answers)) \in Nat
    BY AskedIsFinite DEF PermitsOK
  <2>4. Cardinality(Asked(answers')) = Cardinality(Asked(answers)) + 1
    <3> HIDE DEF DiscoveryInv, PhaseOK
    <3> QED
      BY <2>1, <2>2, <2>3, FS_AddElement
  <2> QED
    BY <2>1, <2>2, <2>3, <2>4, DiscoveryBounds DEF PermitsOK
<1>12. ASSUME NEW i \in DOMAIN answers,
              Discovery!AnswerTools(i) \/ Discovery!AnswerCard(i) \/ Discovery!Fails(i)
      PROVE  PermitsOK'
  <2>1. PICK c \in Content \cup {"failed"} :
           answers' = [answers EXCEPT ![i] = c] /\ permits' = permits + 1
    BY <1>12
      DEF PermitsOK, Discovery!AnswerTools, Discovery!AnswerCard, Discovery!Fails,
          Discovery!Receive, Content
  <2>2. i \in Asked(answers)
    BY <1>12
      DEF PermitsOK, Discovery!AnswerTools, Discovery!AnswerCard, Discovery!Fails,
          Discovery!Receive, Asked,
              PermitsOK
  <2>3. answers' \in Seq(ServerAnswers) /\ Asked(answers') = Asked(answers) \ {i}
    BY <2>1, OneAnswerChanges DEF ServerAnswers, Content, Discovery!Offers, Discovery!Cards
  <2>4. IsFiniteSet(Asked(answers)) /\ Cardinality(Asked(answers)) \in Nat
    BY AskedIsFinite DEF PermitsOK
  <2>5. Cardinality(Asked(answers')) = Cardinality(Asked(answers)) - 1
    BY <2>2, <2>3, <2>4, FS_RemoveElement
  <2> QED
    BY <2>1, <2>3, <2>4, <2>5, DiscoveryBounds DEF PermitsOK
<1>13. ASSUME Discovery!Collect PROVE PermitsOK'
  BY <1>13 DEF PermitsOK, Discovery!Collect
<1>14. ASSUME Discovery!CollectCards PROVE PermitsOK'
  BY <1>14 DEF PermitsOK, Discovery!CollectCards, Discovery!Raise
<1>15. ASSUME Discovery!Match PROVE PermitsOK'
  BY <1>15 DEF PermitsOK, Discovery!Match, Discovery!Raise
<1>16. ASSUME Discovery!InvokeLob \/ Discovery!InvokeCustomer PROVE PermitsOK'
  BY <1>16
    DEF PermitsOK, Discovery!InvokeLob, Discovery!InvokeCustomer, Discovery!Invoked,
        Discovery!Raise, Discovery!CallError
<1>17. ASSUME Discovery!Parse PROVE PermitsOK'
  BY <1>17 DEF PermitsOK, Discovery!Parse, Discovery!Raise
<1>18. ASSUME Discovery!ChangeEnvironment PROVE PermitsOK'
  BY <1>18 DEF PermitsOK, Discovery!ChangeEnvironment
<1>19. ASSUME UNCHANGED Discovery!discoveryVars PROVE PermitsOK'
  BY <1>19 DEF PermitsOK, Discovery!discoveryVars
<1> QED
  BY <1>1, <1>2, <1>3, <1>4, <1>5, <1>6, <1>7, <1>8, <1>9, <1>10,
     <1>11, <1>12, <1>13, <1>14, <1>15, <1>16, <1>17, <1>18, <1>19
  DEF Discovery!Next

\* What leaves answers and results alone, and raises or ends nothing.
LEMMA GatheredStays ==
  ASSUME Gathered, UNCHANGED <<answers, found, onlyNamed>>
  PROVE  Gathered'
BY DEF Gathered, Wanted

LEMMA CollectedIsGathered ==
  ASSUME answers \in Seq(ServerAnswers), UNCHANGED <<answers, onlyNamed>>,
         NEW S, S = {i \in 1 .. Len(answers) : Wanted(i)}, found' = Discovery!InOrder(S)
  PROVE  Gathered'
<1>1. Len(answers) \in Nat
  OBVIOUS
<1>2. Enumerates(found', S, Len(answers))
  BY <1>1, InOrderEnumerates
<1>3. S = {i \in 1 .. Len(answers') : Wanted(i)'}
  BY DEF Wanted
<1> QED
  BY <1>2, <1>3 DEF Gathered

LEMMA KeepsResult ==
  ASSUME DiscoveryInv, [Discovery!Next]_(Discovery!discoveryVars)
  PROVE  ResultOK'
<1> USE DEF DiscoveryInv, PhaseOK, ResultOK, Discovery!Lists, Discovery!Invoking,
            Discovery!context, Discovery!fetched, Discovery!chosen, Discovery!gathering,
            Discovery!Goto
<1>1. ASSUME NEW o \in Discovery!Operations, NEW u \in Discovery!Passes(o), Discovery!Call(o, u)
      PROVE  ResultOK'
  <2>1. answers' = <<>> /\ found' = <<>>
    BY <1>1 DEF Discovery!Call
  <2>2. Gathered'
    BY <2>1 DEF Gathered, Enumerates
  <2> QED
    BY <1>1, <2>1, <2>2 DEF Discovery!Call
<1>2. ASSUME Discovery!GuardCards PROVE ResultOK'
  <2>1. UNCHANGED <<answers, found, onlyNamed>>
    BY <1>2 DEF Discovery!GuardCards, Discovery!Raise
  <2>2. Gathered => Gathered'
    BY <2>1, GatheredStays
  <2> QED
    BY <1>2, <2>1, <2>2 DEF Discovery!GuardCards, Discovery!Raise
<1>3. ASSUME Discovery!Integrations PROVE ResultOK'
  <2>1. UNCHANGED <<answers, found, onlyNamed>>
    BY <1>3 DEF Discovery!Integrations, Discovery!Raise
  <2>2. Gathered => Gathered'
    BY <2>1, GatheredStays
  <2> QED
    BY <1>3, <2>1, <2>2 DEF Discovery!Integrations, Discovery!Raise
<1>4. ASSUME Discovery!ClientId PROVE ResultOK'
  <2>1. UNCHANGED <<answers, found, onlyNamed>>
    BY <1>4 DEF Discovery!ClientId, Discovery!Raise
  <2>2. Gathered => Gathered'
    BY <2>1, GatheredStays
  <2> QED
    BY <1>4, <2>1, <2>2 DEF Discovery!ClientId, Discovery!Raise
<1>5. ASSUME Discovery!Authenticate PROVE ResultOK'
  <2>1. UNCHANGED <<answers, found, onlyNamed>>
    BY <1>5 DEF Discovery!Authenticate, Discovery!Raise, Discovery!CallError
  <2>2. Gathered => Gathered'
    BY <2>1, GatheredStays
  <2> QED
    BY <1>5, <2>1, <2>2 DEF Discovery!Authenticate, Discovery!Raise, Discovery!CallError
<1>6. ASSUME Discovery!Detect PROVE ResultOK'
  <2>1. UNCHANGED <<answers, found, onlyNamed>>
    BY <1>6 DEF Discovery!Detect
  <2>2. Gathered => Gathered'
    BY <2>1, GatheredStays
  <2> QED
    BY <1>6, <2>1, <2>2 DEF Discovery!Detect
<1>7. ASSUME Discovery!DetectFails PROVE ResultOK'
  <2>1. UNCHANGED <<answers, found, onlyNamed>>
    BY <1>7 DEF Discovery!DetectFails, Discovery!Raise, Discovery!CallError
  <2>2. Gathered => Gathered'
    BY <2>1, GatheredStays
  <2> QED
    BY <1>7, <2>1, <2>2 DEF Discovery!DetectFails, Discovery!Raise, Discovery!CallError
<1>8. ASSUME Discovery!ListFragments PROVE ResultOK'
  <2>1. PICK n \in 0 .. MaxServers : answers' = [i \in 1 .. n |-> "waiting"]
    BY <1>8 DEF Discovery!ListFragments, Discovery!Servers
  <2>2. \A i \in 1 .. Len(answers') : answers'[i] = "waiting"
    BY <2>1, DiscoveryBounds
  <2> QED
    BY <1>8, <2>2 DEF Discovery!ListFragments
<1>9. ASSUME Discovery!FragmentsFail PROVE ResultOK'
  <2>1. UNCHANGED <<answers, found, onlyNamed>>
    BY <1>9 DEF Discovery!FragmentsFail, Discovery!Raise
  <2>2. Gathered => Gathered'
    BY <2>1, GatheredStays
  <2> QED
    BY <1>9, <2>1, <2>2 DEF Discovery!FragmentsFail, Discovery!Raise
<1>10. ASSUME Discovery!ListDependencies PROVE ResultOK'
  <2>1. PICK n \in 0 .. MaxServers : answers' = [i \in 1 .. n |-> "waiting"]
    BY <1>10 DEF Discovery!ListDependencies, Discovery!Servers
  <2>2. \A i \in 1 .. Len(answers') : answers'[i] = "waiting"
    BY <2>1, DiscoveryBounds
  <2> QED
    BY <1>10, <2>2 DEF Discovery!ListDependencies
<1>11. ASSUME NEW i \in DOMAIN answers, Discovery!Ask(i) PROVE ResultOK'
  <2>1. answers' = [answers EXCEPT ![i] = "asked"] /\ answers' \in Seq(ServerAnswers)
        /\ Len(answers') = Len(answers)
    BY <1>11, OneAnswerChanges DEF Discovery!Ask, ServerAnswers
  <2> QED
    BY <1>11, <2>1 DEF Discovery!Ask, PermitsOK
<1>12. ASSUME NEW i \in DOMAIN answers,
              Discovery!AnswerTools(i) \/ Discovery!AnswerCard(i) \/ Discovery!Fails(i)
      PROVE  ResultOK'
  <2>1. PICK c \in Content \cup {"failed"} :
           /\ answers' = [answers EXCEPT ![i] = c]
           /\ operation = "cards" => c # "nothing"
    BY <1>12 DEF Discovery!AnswerTools, Discovery!AnswerCard, Discovery!Fails, Discovery!Receive,
              Content, Discovery!Cards, Discovery!Offers
  <2>2. Len(answers') = Len(answers)
    BY <2>1, OneAnswerChanges DEF ServerAnswers
  <2> QED
    BY <1>12, <2>1, <2>2 DEF Discovery!AnswerTools, Discovery!AnswerCard, Discovery!Fails,
              Discovery!Receive, PermitsOK
<1>13. ASSUME Discovery!Collect PROVE ResultOK'
  <2> DEFINE S == {i \in 1 .. Len(answers) : Wanted(i)}
  <2>1. \A i \in 1 .. Len(answers) : answers[i] \in Content \cup {"failed"}
    BY <1>13 DEF Discovery!Collect, Discovery!Answered, PermitsOK, ServerAnswers
  <2>2. S = {i \in DOMAIN answers : /\ answers[i] \notin {"failed", "nothing"}
                                     /\ (onlyNamed => Discovery!Named(answers[i]))}
    BY <2>1 DEF Wanted, PermitsOK, Content, Discovery!Offers, Discovery!Cards
  <2>3. found' = Discovery!InOrder(S) /\ UNCHANGED <<answers, onlyNamed>>
    BY <1>13, <2>2 DEF Discovery!Collect
  <2>4. Gathered'
    BY <2>3, CollectedIsGathered DEF PermitsOK
  <2> QED
    BY <1>13, <2>3, <2>4 DEF Discovery!Collect
<1>14. ASSUME Discovery!CollectCards PROVE ResultOK'
  <2> DEFINE S == {i \in 1 .. Len(answers) : Wanted(i)}
             received == {i \in DOMAIN answers : answers[i] # "failed"}
  <2>1. \A i \in 1 .. Len(answers) : answers[i] \in Content \cup {"failed"}
    BY <1>14 DEF Discovery!CollectCards, Discovery!Answered, PermitsOK, ServerAnswers
  <2>2. S = {i \in received : onlyNamed => Discovery!Named(answers[i])}
    BY <1>14, <2>1 DEF Wanted, PermitsOK, Content, Discovery!Offers, Discovery!Cards,
                     Discovery!CollectCards
  <2>3. operation = "cards" /\ UNCHANGED <<answers, onlyNamed, operation, tool>>
    BY <1>14 DEF Discovery!CollectCards
  <2>4. CASE onlyNamed /\ \E i \in received : answers[i] = "noObject"
    <3>1. gwPc' = "raised" /\ gwError' = "AgentGatewaySDKError"
      BY <1>14, <2>4 DEF Discovery!CollectCards, Discovery!Raise
    <3> QED
      BY <2>3, <2>4, <3>1 DEF PermitsOK
  <2>5. CASE ~(onlyNamed /\ \E i \in received : answers[i] = "noObject")
    <3>1. gwPc' = "returned" /\ found' = Discovery!InOrder(S)
      BY <1>14, <2>2, <2>5 DEF Discovery!CollectCards
    <3>2. Gathered'
      BY <2>3, <3>1, CollectedIsGathered DEF PermitsOK
    <3> QED
      BY <2>3, <3>1, <3>2
  <2> QED
    BY <2>4, <2>5
<1>15. ASSUME Discovery!Match PROVE ResultOK'
  <2>1. UNCHANGED <<answers, found, onlyNamed, operation>>
    BY <1>15 DEF Discovery!Match
  <2>2. Gathered /\ Gathered'
    BY <1>15, <2>1, GatheredStays DEF Discovery!Match
  <2>3. ~(\E i \in DOMAIN found : answers[found[i]] = "hook")
        => \A i \in 1 .. Len(answers) : answers[i] # "hook"
    <3>1. \A i \in 1 .. Len(answers) : answers[i] = "hook" => Wanted(i)
      BY DEF Wanted, Content, Discovery!Offers, Discovery!Named
    <3> QED
      BY <2>2, <3>1 DEF Gathered, Enumerates
  <2> QED
    BY <1>15, <2>1, <2>2, <2>3 DEF Discovery!Match, Discovery!Raise
<1>16. ASSUME Discovery!InvokeLob \/ Discovery!InvokeCustomer PROVE ResultOK'
  <2>1. UNCHANGED <<answers, found, onlyNamed>>
    BY <1>16
      DEF Discovery!InvokeLob, Discovery!InvokeCustomer, Discovery!Invoked, Discovery!Raise,
          Discovery!CallError
  <2>2. Gathered => Gathered'
    BY <2>1, GatheredStays
  <2> QED
    BY <1>16, <2>1, <2>2
      DEF Discovery!InvokeLob, Discovery!InvokeCustomer, Discovery!Invoked, Discovery!Raise,
          Discovery!CallError
<1>17. ASSUME Discovery!Parse PROVE ResultOK'
  <2>1. UNCHANGED <<answers, found, onlyNamed>>
    BY <1>17 DEF Discovery!Parse, Discovery!Raise
  <2>2. Gathered => Gathered'
    BY <2>1, GatheredStays
  <2> QED
    BY <1>17, <2>1, <2>2 DEF Discovery!Parse, Discovery!Raise
<1>18. ASSUME Discovery!ChangeEnvironment PROVE ResultOK'
  <2>1. UNCHANGED <<answers, found, onlyNamed>>
    BY <1>18 DEF Discovery!ChangeEnvironment
  <2>2. Gathered => Gathered'
    BY <2>1, GatheredStays
  <2> QED
    BY <1>18, <2>1, <2>2 DEF Discovery!ChangeEnvironment
<1>19. ASSUME UNCHANGED Discovery!discoveryVars PROVE ResultOK'
  <2>1. UNCHANGED <<answers, found, onlyNamed>>
    BY <1>19 DEF Discovery!discoveryVars
  <2>2. Gathered => Gathered'
    BY <2>1, GatheredStays
  <2> QED
    BY <1>19, <2>1, <2>2 DEF Discovery!discoveryVars
<1> QED
  BY <1>1, <1>2, <1>3, <1>4, <1>5, <1>6, <1>7, <1>8, <1>9, <1>10,
     <1>11, <1>12, <1>13, <1>14, <1>15, <1>16, <1>17, <1>18, <1>19
  DEF Discovery!Next

LEMMA DiscoveryInductive == Discovery!Spec => []DiscoveryInv
<1>1. DiscoveryInv /\ [Discovery!Next]_(Discovery!discoveryVars) => DiscoveryInv'
  BY KeepsPermits, KeepsPhase, KeepsKept, KeepsFlow, KeepsResult DEF DiscoveryInv
<1> QED
  BY <1>1, DiscoveryInit, PTL DEF Discovery!Spec

LEMMA DiscoveryImplies ==
  DiscoveryInv => /\ Discovery!TypeOK /\ Discovery!TokensStayInTheirFlow
                  /\ Discovery!DiscoveriesAreComplete
<1> SUFFICES ASSUME DiscoveryInv
             PROVE  /\ Discovery!TypeOK /\ Discovery!TokensStayInTheirFlow
                    /\ Discovery!DiscoveriesAreComplete
  OBVIOUS
<1>1. answers \in Seq(ServerAnswers) /\ DOMAIN answers = 1 .. Len(answers)
  BY DEF DiscoveryInv, PermitsOK
<1>2. Discovery!TypeOK
  <2>1. Asked(answers) = {i \in DOMAIN answers : answers[i] = "asked"}
    BY <1>1 DEF Asked
  <2>2. permits = MaxConcurrent
                  - Discovery!Cardinality({i \in DOMAIN answers : answers[i] = "asked"})
    BY <2>1, SameCardinality DEF DiscoveryInv, PermitsOK
  <2>3. \A i \in DOMAIN answers : answers[i] \in ServerAnswers
    BY <1>1
  <2> QED
    BY <2>2, <2>3
      DEF DiscoveryInv, PhaseOK, KeptOK, FlowOK, Discovery!TypeOK, DiscoveryLabels,
          ServerAnswers, Content
<1>3. Discovery!TokensStayInTheirFlow
  BY DEF DiscoveryInv, PhaseOK, FlowOK, Discovery!Invoking, Discovery!Lists,
         Discovery!Operations, Discovery!TokensStayInTheirFlow
<1>4. Discovery!DiscoveriesAreComplete
  <2> DEFINE offered == {i \in DOMAIN answers :
                            /\ answers[i] \in Content \ {"nothing"}
                            /\ onlyNamed => Discovery!Named(answers[i])}
  <2>1. offered = {i \in 1 .. Len(answers) : Wanted(i)}
    BY <1>1 DEF Wanted
  <2>2. ASSUME gwPc \in {"match", "returned"}
        PROVE  /\ {found[i] : i \in DOMAIN found} = offered
               /\ \A i, j \in DOMAIN found : i < j => found[i] < found[j]
    <3>1. Enumerates(found, offered, Len(answers))
      BY <2>1, <2>2 DEF DiscoveryInv, ResultOK, Gathered
    <3>2. DOMAIN found = 1 .. Len(found)
      BY <3>1 DEF Enumerates
    <3>3. offered \subseteq 1 .. Len(answers)
      BY <1>1
    <3> HIDE DEF offered
    <3> QED
      BY <3>1, <3>2, <3>3 DEF Enumerates
  <2> QED
    BY <1>1, <2>2 DEF DiscoveryInv, ResultOK, Discovery!DiscoveriesAreComplete, Content
<1> QED
  BY <1>2, <1>3, <1>4

-----------------------------------------------------------------------------
(* ServiceBindings: the inductive invariant *)

LEMMA BindingBounds == MaxRotations \in Nat
BY Bounds DEF Bindings!RotationsAssumption

\* The declarations of the ten services.
ServiceOK(b) ==
    /\ Len(b.fields) \in Nat \ {0} /\ DOMAIN b.fields = 1 .. Len(b.fields)
    /\ \A i, j \in 1 .. Len(b.fields) : b.fields[i] = b.fields[j] => i = j
    /\ b.parsed \subseteq b.mandatory
    /\ \A f \in b.mandatory : \E i \in 1 .. Len(b.fields) : f = b.fields[i]

LEMMA ServicesAreSound ==
  ASSUME NEW s \in DOMAIN Bindings!Services
  PROVE  ServiceOK(Bindings!Services[s])
<1> USE DEF ServiceOK, Bindings!Binding
<1>1. ServiceOK(Bindings!Destination)
  BY DEF Bindings!Destination
<1>2. ServiceOK(Bindings!DestinationInstance)
  BY DEF Bindings!DestinationInstance
<1>3. ServiceOK(Bindings!Sdm)
  BY DEF Bindings!Sdm
<1>4. ServiceOK(Bindings!PrintService)
  BY DEF Bindings!PrintService
<1>5. ServiceOK(Bindings!Adms)
  BY DEF Bindings!Adms
<1>6. ServiceOK(Bindings!AgentMemory)
  BY DEF Bindings!AgentMemory
<1>7. ServiceOK(Bindings!AuditLog)
  BY DEF Bindings!AuditLog
<1>8. ServiceOK(Bindings!BucketBinding)
  BY DEF Bindings!BucketBinding
<1>9. ServiceOK(Bindings!DataAnonymization)
  BY DEF Bindings!DataAnonymization
<1>10. ServiceOK(Bindings!Identity)
  BY DEF Bindings!Identity
<1> HIDE DEF ServiceOK, Bindings!Binding
<1> QED
  BY <1>1, <1>2, <1>3, <1>4, <1>5, <1>6, <1>7, <1>8, <1>9, <1>10 DEF Bindings!Services

FieldNames == Bindings!Services[service].fields
LastField == FieldNames[Len(FieldNames)]

\* An object of the service's binding class.
LoadOK ==
    /\ service \in DOMAIN Bindings!Services /\ entry \in Bindings!Entries(service)
    /\ bindPc \in {"inputs", "read", "unresolved", "validate", "extract", "vcap", "verdict",
                   "iasUrl", "returned", "raised"}
    /\ bindPc \in {"vcap", "verdict", "iasUrl"} => service = "ias"
    /\ rootSet \in BOOLEAN /\ rotations \in 0 .. MaxRotations
    /\ history \in [rotated : BOOLEAN, faulty : BOOLEAN]
    /\ DOMAIN binding \subseteq Bindings!Fields(service)
    /\ bindPc \notin {"returned", "raised"} => DOMAIN binding = Bindings!Fields(service)
    /\ \A f \in DOMAIN binding :
          binding[f] \in [from : {"none", "flat", "mount", "env"}, at : Nat,
                         is : {"empty"} \cup Bindings!Contents(service, f)]

Untouched == \A f \in DOMAIN binding : binding[f] = Bindings!Unset

\* All fields are of one source, and of one version of its files.
Whole ==
    \A f, g \in DOMAIN binding :
        /\ binding[f].from = binding[g].from /\ binding[f].from # "none"
        /\ ~history.rotated => binding[f].at = binding[g].at

\* What the fields read before the source s have left behind.
Earlier(s) ==
    {"none"} \cup (IF s = "flat" THEN {} ELSE IF s = "mount" THEN {"flat"}
                   ELSE {"flat", "mount"})

VersionOf(s) == IF s = "env" THEN 0 ELSE rotations

\* Of the current source s the first fields have been read, never the last one: who
\* reads that has them all.
ReadOK(s) ==
    /\ \A f \in DOMAIN binding : binding[f].from \in Earlier(s) \cup {s}
    /\ binding[LastField] = Bindings!Unset
    /\ ~history.rotated =>
          \A f \in DOMAIN binding : binding[f].from = s => binding[f].at = VersionOf(s)
    /\ \E p \in 1 .. Len(FieldNames) : \A i \in 1 .. Len(FieldNames) :
          binding[FieldNames[i]].from = s <=> i < p

SourcesOK == left \in {<<"flat", "mount", "env">>, <<"mount", "env">>, <<"env">>}

SourceOK ==
    /\ bindPc \in {"inputs", "vcap"} => Untouched
    /\ bindPc = "read" => SourcesOK /\ ReadOK(Head(left))
    /\ bindPc \in {"validate", "extract"} => Whole
    /\ bindPc = "extract" =>
          \A f \in Bindings!Services[service].mandatory : binding[f].is # "empty"
    /\ bindPc = "verdict" => Whole \/ binding["clientid"] = Bindings!Unset
    /\ Bindings!ConfigsComeFromOneSource

BindingsInv == LoadOK /\ SourceOK

-----------------------------------------------------------------------------
LEMMA InitBindings == Bindings!Init => BindingsInv
<1> SUFFICES ASSUME Bindings!Init PROVE BindingsInv
  OBVIOUS
<1> USE DEF Bindings!Init
<1>1. service \in DOMAIN Bindings!Services /\ entry \in Bindings!Entries(service)
  BY DEF Bindings!Services, Bindings!Entries
<1>2. LoadOK
  BY <1>1, BindingBounds DEF LoadOK, Bindings!FreshHistory
<1>3. SourceOK
  BY DEF SourceOK, Bindings!ConfigsComeFromOneSource, Bindings!LoadedFromBinding
<1> QED
  BY <1>2, <1>3 DEF BindingsInv

LEMMA FieldsOfService ==
  ASSUME LoadOK
  PROVE  /\ Len(FieldNames) \in Nat \ {0} /\ DOMAIN FieldNames = 1 .. Len(FieldNames)
         /\ Bindings!Fields(service) = {FieldNames[i] : i \in 1 .. Len(FieldNames)}
         /\ \A i, j \in 1 .. Len(FieldNames) : FieldNames[i] = FieldNames[j] => i = j
         /\ Bindings!Services[service].parsed \subseteq Bindings!Services[service].mandatory
         /\ Bindings!Services[service].mandatory \subseteq Bindings!Fields(service)
BY ServicesAreSound DEF LoadOK, ServiceOK, FieldNames, Bindings!Fields

LEMMA OnlyIasIsVerified ==
  ASSUME NEW s \in DOMAIN Bindings!Services, "verifier" \in Bindings!Entries(s)
  PROVE  s = "ias"
BY DEF Bindings!Entries, Bindings!Services

LEMMA IasFields ==
  ASSUME service = "ias"
  PROVE  /\ LastField = "clientid" /\ Bindings!Fields(service) = {"url", "clientid"}
         /\ Bindings!Services[service].mandatory = {"url", "clientid"}
         /\ Bindings!Services[service].parsed = {}
<1>1. Bindings!Services[service] = Bindings!Identity
  BY DEF Bindings!Services
<1> QED
  BY <1>1 DEF Bindings!Identity, Bindings!Binding, LastField, FieldNames, Bindings!Fields

\* The next field is the first that has not been read from the current source.
LEMMA NextFieldIs ==
  ASSUME LoadOK, left # <<>>, NEW p \in 1 .. Len(FieldNames),
         \A i \in 1 .. Len(FieldNames) : binding[FieldNames[i]].from = Head(left) <=> i < p
  PROVE  Bindings!NextField(service) = FieldNames[p]
<1> DEFINE unread == {i \in DOMAIN FieldNames : binding[FieldNames[i]].from # Head(left)}
<1>1. unread = p .. Len(FieldNames) /\ Len(FieldNames) \in Nat
  BY FieldsOfService
<1>2. Bindings!NextField(service)
        = FieldNames[CHOOSE i \in unread : \A j \in unread : i <= j]
  BY DEF Bindings!NextField, FieldNames
<1> HIDE DEF unread
<1>3. p \in unread /\ \A j \in unread : p <= j
  BY <1>1
<1>4. ASSUME NEW i \in unread, \A j \in unread : i <= j PROVE i = p
  BY <1>1, <1>3, <1>4
<1>5. (CHOOSE i \in unread : \A j \in unread : i <= j) = p
  BY <1>3, <1>4
<1> QED
  BY <1>2, <1>5

\* Whoever raises leaves no field of the binding.
LEMMA RaisingKeepsLoad ==
  ASSUME LoadOK, NEW e, Bindings!Raise(e),
         history' \in {history, [history EXCEPT !.faulty = TRUE]}
  PROVE  LoadOK'
<1>1. /\ binding' = [f \in Bindings!Fields(service) |-> Bindings!Unset]
      /\ bindPc' = "raised"
      /\ UNCHANGED <<service, entry, rootSet, rotations>>
  BY DEF Bindings!Raise
<1>2. \A f \in DOMAIN binding' : binding'[f] = [from |-> "none", at |-> 0, is |-> "empty"]
  BY <1>1 DEF Bindings!Unset
<1>3. history' \in [rotated : BOOLEAN, faulty : BOOLEAN]
  BY DEF LoadOK
<1> QED
  BY <1>1, <1>2, <1>3 DEF LoadOK

LEMMA KeepsLoad ==
  ASSUME BindingsInv, [Bindings!Next]_(Bindings!bindingVars)
  PROVE  LoadOK'
<1> USE DEF BindingsInv, LoadOK
<1>1. ASSUME NEW s \in DOMAIN Bindings!Services, NEW e \in Bindings!Entries(s), Bindings!Call(s, e)
      PROVE  LoadOK'
  <2>1. binding' = [f \in Bindings!Fields(s) |-> Bindings!Unset] /\ service' = s /\ entry' = e
    BY <1>1 DEF Bindings!Call
  <2>2. e = "verifier" => s = "ias"
    BY OnlyIasIsVerified
  <2> QED
    BY <1>1, <2>1, <2>2 DEF Bindings!Call, Bindings!Unset, Bindings!FreshHistory
<1>2. ASSUME Bindings!BadName PROVE LoadOK'
  BY <1>2, RaisingKeepsLoad DEF Bindings!BadName
<1>3. ASSUME Bindings!GoodName PROVE LoadOK'
  BY <1>3 DEF Bindings!GoodName
<1>4. ASSUME Bindings!Given PROVE LoadOK'
  BY <1>4 DEF Bindings!Given
<1>5. ASSUME Bindings!ReadField PROVE LoadOK'
  <2>1. PICK f : \E c \in Bindings!Contents(service, f) :
           binding' = [binding EXCEPT ![f] =
              [from |-> Head(left), is |-> c, at |-> IF Head(left) = "env" THEN 0 ELSE rotations]]
    BY <1>5 DEF Bindings!ReadField
  <2>2. Head(left) \in {"flat", "mount", "env"}
    BY <1>5 DEF Bindings!ReadField, SourceOK, SourcesOK
  <2>3. entry = "verifier" => service = "ias"
    BY OnlyIasIsVerified
  <2>4. bindPc = "read" /\ bindPc' \in {"read", "verdict", "validate"}
        /\ (bindPc' = "verdict" => entry = "verifier")
        /\ UNCHANGED <<service, entry, rootSet, rotations, left, history>>
    BY <1>5 DEF Bindings!ReadField
  <2>5. DOMAIN binding' = DOMAIN binding
    BY <2>1
  <2>6. ASSUME NEW g \in DOMAIN binding'
        PROVE  binding'[g] \in [from : {"none", "flat", "mount", "env"}, at : Nat,
                               is : {"empty"} \cup Bindings!Contents(service, g)]
    <3>1. CASE g = f
      BY <2>1, <2>2, <2>5, <3>1, BindingBounds
    <3>2. CASE g # f
      BY <2>1, <2>5, <3>2
    <3> QED
      BY <3>1, <3>2
  <2> QED
    BY <2>3, <2>4, <2>5, <2>6
<1>6. ASSUME Bindings!SourceLacks PROVE LoadOK'
  <2>1. entry = "verifier" => service = "ias"
    BY OnlyIasIsVerified
  <2> QED
    BY <1>6, <2>1 DEF Bindings!SourceLacks, Bindings!NextSource
<1>7. ASSUME Bindings!FieldsRefused PROVE LoadOK'
  <2>1. entry = "verifier" => service = "ias"
    BY OnlyIasIsVerified
  <2> QED
    BY <1>7, <2>1 DEF Bindings!FieldsRefused, Bindings!NextSource
<1>8. ASSUME Bindings!Unresolved PROVE LoadOK'
  BY <1>8, RaisingKeepsLoad DEF Bindings!Unresolved
<1>9. ASSUME Bindings!Validate PROVE LoadOK'
  <2>1. \/ /\ bindPc = "validate" /\ bindPc' = "extract"
           /\ UNCHANGED <<service, entry, rootSet, rotations, left, binding, history>>
        \/ /\ history' = [history EXCEPT !.faulty = TRUE]
           /\ \E e : Bindings!Raise(e)
    BY <1>9, Zenon DEF Bindings!Validate
  <2> QED
    BY <2>1, RaisingKeepsLoad
<1>10. ASSUME Bindings!Extract PROVE LoadOK'
  <2>1. \/ /\ bindPc = "extract" /\ bindPc' = "returned"
           /\ UNCHANGED <<service, entry, rootSet, rotations, left, binding, history>>
        \/ /\ history' = [history EXCEPT !.faulty = TRUE]
           /\ \E e : Bindings!Raise(e)
    BY <1>10, Zenon DEF Bindings!Extract
  <2> QED
    BY <2>1, RaisingKeepsLoad
<1>11. ASSUME Bindings!Vcap PROVE LoadOK'
  BY <1>11 DEF Bindings!Vcap
<1>12. ASSUME Bindings!Verdict PROVE LoadOK'
  BY <1>12 DEF Bindings!Verdict
<1>13. ASSUME Bindings!IasUrl PROVE LoadOK'
  <2>1. binding' = [f \in Bindings!Fields(service) |-> Bindings!Unset]
    BY <1>13 DEF Bindings!IasUrl
  <2> QED
    BY <1>13, <2>1 DEF Bindings!IasUrl, Bindings!Unset
<1>14. ASSUME Bindings!Rotate PROVE LoadOK'
  <2>1. rotations' \in 0 .. MaxRotations
    BY <1>14, BindingBounds DEF Bindings!Rotate
  <2>2. PICK b \in BOOLEAN : history' = [history EXCEPT !.rotated = b]
    BY <1>14 DEF Bindings!Rotate, Bindings!Idle
  <2>3. UNCHANGED <<bindPc, service, entry, rootSet, binding>>
    BY <1>14 DEF Bindings!Rotate
  <2> QED
    BY <2>1, <2>2, <2>3
<1>15. ASSUME UNCHANGED Bindings!bindingVars PROVE LoadOK'
  BY <1>15 DEF Bindings!bindingVars
<1> QED
  BY <1>1, <1>2, <1>3, <1>4, <1>5, <1>6, <1>7, <1>8, <1>9, <1>10,
     <1>11, <1>12, <1>13, <1>14, <1>15
  DEF Bindings!Next

\* What a source that gives up leaves behind is earlier to the next one.
LEMMA SourcePassed ==
  ASSUME BindingsInv, bindPc = "read", left' = Tail(left),
         bindPc' = IF left' # <<>> THEN "read"
                   ELSE IF entry = "verifier" THEN "verdict" ELSE "unresolved",
         UNCHANGED <<service, entry, binding, rotations>>, history'.rotated = history.rotated
  PROVE  SourceOK'
<1>1. SourcesOK /\ ReadOK(Head(left))
  BY DEF BindingsInv, SourceOK
<1>2. CASE left = <<"env">>
  <2>1. left' = <<>> /\ bindPc' \in {"verdict", "unresolved"}
        /\ (bindPc' = "verdict" => entry = "verifier")
    BY <1>2
  <2>2. bindPc' = "verdict" => binding["clientid"] = Bindings!Unset
    BY <1>1, <2>1, OnlyIasIsVerified, IasFields DEF ReadOK, BindingsInv, LoadOK
  <2> QED
    BY <2>1, <2>2 DEF SourceOK, Bindings!ConfigsComeFromOneSource, Bindings!LoadedFromBinding
<1>3. CASE left # <<"env">>
  <2>1. /\ left' \in {<<"mount", "env">>, <<"env">>} /\ bindPc' = "read"
        /\ Head(left') \in {"mount", "env"}
        /\ Earlier(Head(left)) \cup {Head(left)} \subseteq Earlier(Head(left'))
        /\ Head(left') \notin Earlier(Head(left'))
    <3>1. CASE left = <<"flat", "mount", "env">>
      <4>1. Head(left) = "flat" /\ left' = <<"mount", "env">> /\ Head(left') = "mount"
        BY <3>1
      <4>2. Earlier("flat") \cup {"flat"} \subseteq Earlier("mount") /\ "mount" \notin Earlier("mount")
        BY DEF Earlier
      <4>3. left' \in {<<"mount", "env">>, <<"env">>}
        BY <4>1, Zenon
      <4>4. <<"mount", "env">> # <<>>
        OBVIOUS
      <4>5. bindPc' = "read"
        BY <4>1, <4>4, Zenon
      <4> QED
        BY <4>1, <4>2, <4>3, <4>5
    <3>2. CASE left = <<"mount", "env">>
      <4>1. Head(left) = "mount" /\ left' = <<"env">> /\ Head(left') = "env"
        BY <3>2
      <4>2. Earlier("mount") \cup {"mount"} \subseteq Earlier("env") /\ "env" \notin Earlier("env")
        BY DEF Earlier
      <4>3. left' \in {<<"mount", "env">>, <<"env">>}
        BY <4>1, Zenon
      <4>4. <<"env">> # <<>>
        OBVIOUS
      <4>5. bindPc' = "read"
        BY <4>1, <4>4, Zenon
      <4> QED
        BY <4>1, <4>2, <4>3, <4>5
    <3> QED
      BY <1>1, <1>3, <3>1, <3>2 DEF SourcesOK
  <2>2. \A f \in DOMAIN binding : binding[f].from \in Earlier(Head(left'))
    BY <1>1, <2>1 DEF ReadOK
  <2>3. \A i \in 1 .. Len(FieldNames) : binding[FieldNames[i]].from # Head(left')
    BY <2>1, <2>2, FieldsOfService DEF BindingsInv, LoadOK
  <2>4. \E p \in 1 .. Len(FieldNames) : \A i \in 1 .. Len(FieldNames) :
           binding[FieldNames[i]].from = Head(left') <=> i < p
    <3>1. 1 \in 1 .. Len(FieldNames) /\ \A i \in 1 .. Len(FieldNames) : ~(i < 1)
      BY FieldsOfService DEF BindingsInv
    <3> QED
      BY <2>3, <3>1
  <2>5. binding[LastField] = Bindings!Unset
    BY <1>1 DEF ReadOK
  <2>6. \A f \in DOMAIN binding : binding[f].from # Head(left')
    BY <2>1, <2>2
  <2>7. PICK s : s = Head(left')
    OBVIOUS
  <2>8. ReadOK(s)'
    BY <2>1, <2>2, <2>4, <2>5, <2>6, <2>7 DEF ReadOK, LastField, FieldNames, Earlier
  <2>9. SourcesOK'
    BY <2>1 DEF SourcesOK
  <2> QED
    BY <2>1, <2>7, <2>8, <2>9 DEF SourceOK, Bindings!ConfigsComeFromOneSource,
                           Bindings!LoadedFromBinding
<1> QED
  BY <1>2, <1>3

\* The last field makes the object whole, any other lengthens what has been read.
LEMMA FieldIsRead ==
  ASSUME BindingsInv, Bindings!ReadField
  PROVE  SourceOK'
<1> DEFINE n == Len(FieldNames)
           s == Head(left)
<1>1. bindPc = "read" /\ SourcesOK /\ ReadOK(s)
  BY DEF BindingsInv, SourceOK, Bindings!ReadField
<1>2. s \in {"flat", "mount", "env"} /\ left # <<>> /\ s # "none" /\ s \notin Earlier(s)
  BY <1>1 DEF SourcesOK, Earlier
<1>3. PICK p \in 1 .. n : \A i \in 1 .. n : binding[FieldNames[i]].from = s <=> i < p
  BY <1>1 DEF ReadOK
<1>4. Bindings!NextField(service) = FieldNames[p]
  BY <1>2, <1>3, NextFieldIs DEF BindingsInv
<1>5. /\ n \in Nat \ {0} /\ DOMAIN binding = {FieldNames[i] : i \in 1 .. n}
      /\ \A i, j \in 1 .. n : FieldNames[i] = FieldNames[j] => i = j
  BY <1>1, FieldsOfService DEF BindingsInv, LoadOK
<1>6. PICK r : /\ r.from = s /\ r.at = VersionOf(s)
               /\ binding' = [binding EXCEPT ![FieldNames[p]] = r]
  BY <1>4 DEF Bindings!ReadField, VersionOf
<1>7. /\ UNCHANGED <<service, entry, rotations, left, history>>
      /\ bindPc' = IF p = n THEN IF entry = "verifier" THEN "verdict" ELSE "validate"
                   ELSE bindPc
  <2>1. FieldNames[p] = FieldNames[n] <=> p = n
    BY <1>5
  <2> QED
    BY <1>4, <2>1 DEF Bindings!ReadField, FieldNames
<1> HIDE DEF n, s
<1>8. /\ DOMAIN binding' = DOMAIN binding
      /\ \A i \in 1 .. n : binding'[FieldNames[i]] = IF i = p THEN r ELSE binding[FieldNames[i]]
  BY <1>5, <1>6
<1>9. \A i \in 1 .. n : /\ binding'[FieldNames[i]].from = s <=> i <= p
                        /\ ~history.rotated /\ i <= p => binding'[FieldNames[i]].at = VersionOf(s)
  <2> TAKE i \in 1 .. n
  <2>1. CASE i = p
    BY <1>5, <1>6, <1>8, <2>1
  <2>2. CASE i # p
    <3>1. (i <= p <=> i < p) /\ FieldNames[i] \in DOMAIN binding
      BY <1>5, <2>2
    <3> QED
      BY <1>1, <1>3, <1>8, <2>2, <3>1 DEF ReadOK
  <2> QED
    BY <2>1, <2>2
<1>10. CASE p = n
  <2>1. Whole'
    <3>1. \A i \in 1 .. n : i <= p
      BY <1>5, <1>10
    <3>2. \A f \in DOMAIN binding' : /\ binding'[f].from = s
                                     /\ ~history.rotated => binding'[f].at = VersionOf(s)
      BY <1>5, <1>8, <1>9, <3>1
    <3> QED
      BY <1>2, <1>7, <3>2 DEF Whole
  <2>2. bindPc' \in {"verdict", "validate"}
    BY <1>7, <1>10
  <2> QED
    BY <2>1, <2>2 DEF SourceOK, Bindings!ConfigsComeFromOneSource, Bindings!LoadedFromBinding
<1>11. CASE p # n
  <2>1. p + 1 \in 1 .. n /\ \A i \in 1 .. n : (i <= p <=> i < p + 1)
    BY <1>5, <1>11
  <2>2. \E q \in 1 .. n : \A i \in 1 .. n : binding'[FieldNames[i]].from = s <=> i < q
    BY <1>9, <2>1
  <2>3. binding'[LastField] = Bindings!Unset
    BY <1>1, <1>5, <1>8, <1>11 DEF ReadOK, LastField, n
  <2>4. \A f \in DOMAIN binding' : binding'[f].from \in Earlier(s) \cup {s}
    BY <1>1, <1>5, <1>6, <1>8 DEF ReadOK
  <2>5. \A f \in DOMAIN binding' :
           ~history.rotated /\ binding'[f].from = s => binding'[f].at = VersionOf(s)
    BY <1>5, <1>8, <1>9
  <2>6. PICK c : c = s
    OBVIOUS
  <2>7. ReadOK(c)'
    BY <1>7, <2>2, <2>3, <2>4, <2>5, <2>6
    DEF ReadOK, LastField, FieldNames, Earlier, VersionOf, n
  <2>8. bindPc' = "read" /\ Head(left') = c
    BY <1>1, <1>7, <1>11, <2>6 DEF s
  <2> QED
    BY <1>1, <1>7, <2>7, <2>8
      DEF SourceOK, SourcesOK, Bindings!ConfigsComeFromOneSource, Bindings!LoadedFromBinding
<1> QED
  BY <1>10, <1>11

LEMMA KeepsSource ==
  ASSUME BindingsInv, [Bindings!Next]_(Bindings!bindingVars)
  PROVE  SourceOK'
<1> USE DEF BindingsInv, SourceOK
<1>1. ASSUME NEW s \in DOMAIN Bindings!Services, NEW e \in Bindings!Entries(s), Bindings!Call(s, e)
      PROVE  SourceOK'
  <2>1. binding' = [f \in Bindings!Fields(s) |-> Bindings!Unset] /\ bindPc' \in {"vcap", "inputs"}
    BY <1>1 DEF Bindings!Call
  <2> QED
    BY <2>1 DEF Untouched, Bindings!ConfigsComeFromOneSource, Bindings!LoadedFromBinding
<1>2. ASSUME Bindings!BadName PROVE SourceOK'
  BY <1>2
    DEF Bindings!BadName, Bindings!Raise, Bindings!ConfigsComeFromOneSource,
        Bindings!LoadedFromBinding
<1>3. ASSUME Bindings!GoodName PROVE SourceOK'
  <2>1. bindPc = "inputs" /\ bindPc' = "read" /\ left' = Bindings!Sources
        /\ UNCHANGED <<service, entry, rotations, binding, history>>
    BY <1>3 DEF Bindings!GoodName
  <2>2. SourcesOK' /\ Head(left') \in {"flat", "mount", "env"}
    BY <2>1 DEF SourcesOK, Bindings!Sources
  <2>3. Untouched
    BY <2>1
  <2>4. PICK s \in {"flat", "mount", "env"} : s = Head(left')
    BY <2>2
  <2>5. LastField \in DOMAIN binding /\ \A i \in 1 .. Len(FieldNames) : FieldNames[i] \in DOMAIN binding
    BY <2>1, FieldsOfService DEF LastField, LoadOK
  <2>6. \E p \in 1 .. Len(FieldNames) : \A i \in 1 .. Len(FieldNames) :
           binding[FieldNames[i]].from = s <=> i < p
    BY <2>3, <2>5, FieldsOfService DEF Untouched, Bindings!Unset
  <2>7. ReadOK(s)'
    BY <2>1, <2>3, <2>5, <2>6
    DEF ReadOK, Untouched, Bindings!Unset, Earlier, LastField, FieldNames
  <2> QED
    BY <2>1, <2>2, <2>4, <2>7 DEF Bindings!ConfigsComeFromOneSource, Bindings!LoadedFromBinding
<1>4. ASSUME Bindings!Given PROVE SourceOK'
  BY <1>4
    DEF Bindings!Given, Untouched, Bindings!Unset, Bindings!ConfigsComeFromOneSource,
        Bindings!LoadedFromBinding
<1>5. ASSUME Bindings!ReadField PROVE SourceOK'
  BY <1>5, FieldIsRead
<1>6. ASSUME Bindings!SourceLacks PROVE SourceOK'
  <2>1. /\ bindPc = "read" /\ left' = Tail(left)
        /\ bindPc' = IF left' # <<>> THEN "read"
                     ELSE IF entry = "verifier" THEN "verdict" ELSE "unresolved"
        /\ UNCHANGED <<service, entry, binding, rotations>> /\ history'.rotated = history.rotated
    BY <1>6 DEF Bindings!SourceLacks, Bindings!NextSource, LoadOK
  <2> QED
    BY <2>1, SourcePassed
<1>7. ASSUME Bindings!FieldsRefused PROVE SourceOK'
  <2>1. /\ bindPc = "read" /\ left' = Tail(left)
        /\ bindPc' = IF left' # <<>> THEN "read"
                     ELSE IF entry = "verifier" THEN "verdict" ELSE "unresolved"
        /\ UNCHANGED <<service, entry, binding, rotations>> /\ history'.rotated = history.rotated
    BY <1>7 DEF Bindings!FieldsRefused, Bindings!NextSource, LoadOK
  <2> QED
    BY <2>1, SourcePassed
<1>8. ASSUME Bindings!Unresolved PROVE SourceOK'
  BY <1>8
    DEF Bindings!Unresolved, Bindings!Raise, Bindings!ConfigsComeFromOneSource,
        Bindings!LoadedFromBinding
<1>9. ASSUME Bindings!Validate PROVE SourceOK'
  <2>1. /\ bindPc = "validate"
        /\ bindPc' = "raised" \/ (bindPc' = "extract" /\ UNCHANGED <<service, binding, history>>)
    BY <1>9 DEF Bindings!Validate, Bindings!Raise
  <2>2. bindPc' = "extract" =>
          \A f \in Bindings!Services[service].mandatory : binding[f].is # "empty"
    BY <1>9 DEF Bindings!Validate, Bindings!Raise
  <2> QED
    BY <2>1, <2>2 DEF Whole, Bindings!ConfigsComeFromOneSource, Bindings!LoadedFromBinding
<1>10. ASSUME Bindings!Extract PROVE SourceOK'
  <2>1. /\ bindPc = "extract"
        /\ bindPc' = "raised" \/ (bindPc' = "returned" /\ UNCHANGED <<service, binding, history>>)
    BY <1>10 DEF Bindings!Extract, Bindings!Raise
  <2>2. ASSUME bindPc' = "returned", NEW f \in Bindings!Services[service].mandatory
        PROVE  binding[f].is = "good"
    <3>1. f \in DOMAIN binding
      BY <2>1, FieldsOfService DEF LoadOK
    <3>2. binding[f].is \in {"empty"} \cup Bindings!Contents(service, f) /\ binding[f].is # "empty"
      BY <2>1, <3>1 DEF LoadOK
    <3>3. f \in Bindings!Services[service].parsed => binding[f].is = "good"
      BY <1>10, <2>2 DEF Bindings!Extract, Bindings!Raise, Bindings!Unusable
    <3> QED
      BY <3>2, <3>3 DEF Bindings!Contents
  <2>3. Bindings!Services[service].parsed \subseteq Bindings!Services[service].mandatory
    BY FieldsOfService
  <2> QED
    BY <2>1, <2>2, <2>3 DEF Whole, Bindings!ConfigsComeFromOneSource, Bindings!LoadedFromBinding
<1>11. ASSUME Bindings!Vcap PROVE SourceOK'
  BY <1>11
    DEF Bindings!Vcap, Untouched, Bindings!Unset, Bindings!ConfigsComeFromOneSource,
        Bindings!LoadedFromBinding
<1>12. ASSUME Bindings!Verdict PROVE SourceOK'
  <2>1. bindPc = "verdict" /\ UNCHANGED <<service, binding, history>>
        /\ bindPc' \in {"iasUrl", "raised", "returned"}
    BY <1>12 DEF Bindings!Verdict
  <2>2. ASSUME bindPc' = "returned"
        PROVE  /\ binding["url"].is # "empty" /\ binding["clientid"].is # "empty"
    BY <1>12, <2>2 DEF Bindings!Verdict
  <2>3. /\ service = "ias" /\ DOMAIN binding = {"url", "clientid"}
        /\ Bindings!Services[service].mandatory = {"url", "clientid"}
        /\ Bindings!Services[service].parsed = {}
    BY <2>1, IasFields DEF LoadOK
  <2>4. \A f \in {"url", "clientid"} : binding[f].is # "empty" => binding[f].is = "good"
    BY <2>3 DEF LoadOK, Bindings!Contents
  <2>5. bindPc' = "returned" => Whole
    BY <2>1, <2>2 DEF Bindings!Unset
  <2> QED
    BY <2>1, <2>2, <2>3, <2>4, <2>5
      DEF Whole, Bindings!ConfigsComeFromOneSource, Bindings!LoadedFromBinding
<1>13. ASSUME Bindings!IasUrl PROVE SourceOK'
  <2>1. binding' = [f \in Bindings!Fields(service) |-> Bindings!Unset] /\ bindPc' \in {"raised", "returned"}
    BY <1>13 DEF Bindings!IasUrl
  <2> QED
    BY <2>1 DEF Bindings!Unset, Bindings!ConfigsComeFromOneSource, Bindings!LoadedFromBinding
<1>14. ASSUME Bindings!Rotate PROVE SourceOK'
  <2>1. /\ UNCHANGED <<bindPc, service, entry, left, binding>>
        /\ bindPc \notin {"returned", "raised"} => history'.rotated
        /\ history'.rotated \in BOOLEAN /\ (history.rotated => history'.rotated)
    BY <1>14 DEF Bindings!Rotate, Bindings!Idle, LoadOK
  <2>2. PICK s : s = Head(left)
    OBVIOUS
  <2>3. bindPc = "read" /\ ReadOK(s) => ReadOK(s)'
    BY <2>1 DEF ReadOK, LastField, FieldNames
  <2>4. Whole => Whole'
    BY <2>1 DEF Whole
  <2> QED
    BY <2>1, <2>2, <2>3, <2>4
      DEF Untouched, SourcesOK, Bindings!ConfigsComeFromOneSource, Bindings!LoadedFromBinding
<1>15. ASSUME UNCHANGED Bindings!bindingVars PROVE SourceOK'
  <2>1. PICK s : s = Head(left)
    OBVIOUS
  <2>2. UNCHANGED <<bindPc, service, entry, left, binding, rotations, history>>
    BY <1>15 DEF Bindings!bindingVars
  <2>3. ReadOK(s) => ReadOK(s)'
    BY <2>2 DEF ReadOK, LastField, FieldNames, VersionOf
  <2> QED
    BY <2>1, <2>2, <2>3
      DEF Untouched, Whole, SourcesOK, Bindings!ConfigsComeFromOneSource,
          Bindings!LoadedFromBinding
<1> QED
  BY <1>1, <1>2, <1>3, <1>4, <1>5, <1>6, <1>7, <1>8, <1>9, <1>10,
     <1>11, <1>12, <1>13, <1>14, <1>15
  DEF Bindings!Next

LEMMA BindingsInductive == Bindings!Spec => []BindingsInv
<1>1. BindingsInv /\ [Bindings!Next]_(Bindings!bindingVars) => BindingsInv'
  BY KeepsLoad, KeepsSource DEF BindingsInv
<1> QED
  BY <1>1, InitBindings, PTL DEF Bindings!Spec

LEMMA BindingsImplies ==
  BindingsInv => Bindings!TypeOK /\ Bindings!ConfigsComeFromOneSource
<1> SUFFICES ASSUME BindingsInv PROVE Bindings!TypeOK /\ Bindings!ConfigsComeFromOneSource
  OBVIOUS
<1>1. bindPc = "read" => left # <<>>
  BY DEF BindingsInv, SourceOK, SourcesOK
<1>2. Bindings!TypeOK
  BY <1>1 DEF BindingsInv, LoadOK, Bindings!TypeOK
<1> QED
  BY <1>2 DEF BindingsInv, SourceOK

-----------------------------------------------------------------------------
(* The parts together *)

\* Behaviours of the composition are behaviours of each part.
LEMMA ContainsStore == EnvironmentSpec => Spec
<1>1. EnvironmentInit => Init
  BY DEF EnvironmentInit
<1>2. [EnvironmentNext]_<<part, storeVars, bindingVars, discoveryVars>> => [Next]_vars
  BY DEF EnvironmentNext, storeVars
<1> QED
  BY <1>1, <1>2, PTL DEF EnvironmentSpec, Spec

LEMMA ContainsBindings == EnvironmentSpec => Bindings!Spec
<1>1. EnvironmentInit => Bindings!Init
  BY DEF EnvironmentInit
<1>2. [EnvironmentNext]_<<part, storeVars, bindingVars, discoveryVars>>
      => [Bindings!Next]_(Bindings!bindingVars)
  BY DEF EnvironmentNext, bindingVars, Bindings!bindingVars
<1> QED
  BY <1>1, <1>2, PTL DEF EnvironmentSpec, Bindings!Spec

LEMMA ContainsDiscovery == EnvironmentSpec => Discovery!Spec
<1>1. EnvironmentInit => Discovery!Init
  BY DEF EnvironmentInit
<1>2. [EnvironmentNext]_<<part, storeVars, bindingVars, discoveryVars>>
      => [Discovery!Next]_(Discovery!discoveryVars)
  BY DEF EnvironmentNext, discoveryVars, Discovery!discoveryVars
<1> QED
  BY <1>1, <1>2, PTL DEF EnvironmentSpec, Discovery!Spec

\* The types of all parts; the lock of the local store is held exactly between taking
\* and releasing it; a load that reads has a source to read from
\* (core/secret_resolver/resolver.py); and every server that is asked has a permit of
\* the semaphore (agentgateway/_lob.py, _customer.py).
THEOREM EnvironmentTypes == EnvironmentSpec => []TypesOK
<1>1. EnvironmentSpec => []TypeOK
  BY ContainsStore, TypeCorrect, PTL
<1>2. EnvironmentSpec => []BindingsInv
  BY ContainsBindings, BindingsInductive, PTL
<1>3. EnvironmentSpec => []DiscoveryInv
  BY ContainsDiscovery, DiscoveryInductive, PTL
<1>4. (TypeOK /\ BindingsInv /\ DiscoveryInv) => TypesOK
  BY BindingsImplies, DiscoveryImplies DEF TypesOK
<1> QED
  BY <1>1, <1>2, <1>3, <1>4, PTL

\* A config comes from one source, of one version of the mounted files unless they were
\* replaced during the load, with nothing empty it needs and nothing broken it parses,
\* although the sources tried before have left their fields in the same object, and for
\* IAS although the error of the resolver is swallowed
\* (core/secret_resolver/resolver.py, ias/_verifier.py).
THEOREM ConfigsAreOfOneSource == EnvironmentSpec => []ConfigsComeFromOneSource
<1>1. BindingsInv => ConfigsComeFromOneSource
  BY BindingsImplies DEF ConfigsComeFromOneSource
<1> QED
  BY <1>1, ContainsBindings, BindingsInductive, PTL

\* A token goes to servers of another flow only if the environment has changed between
\* the fetch of the token and the choice of the servers - which for a call of a tool is
\* its listing, calls ago - or if cards are listed in the transparent mode; and the
\* token of an LoB agent calls a tool without a user only after such a change
\* (agentgateway/agw_client.py).
THEOREM TokensStay == EnvironmentSpec => []TokensStayInTheirFlow
<1>1. DiscoveryInv => TokensStayInTheirFlow
  BY DiscoveryImplies DEF TokensStayInTheirFlow
<1> QED
  BY <1>1, ContainsDiscovery, DiscoveryInductive, PTL

\* A discovery finds what the servers that answered offer, each once and in the order of
\* the servers, at every number of servers and of concurrent tasks
\* (agentgateway/_lob.py, get_mcp_tools_lob and get_agent_cards_lob).
THEOREM DiscoveriesFindAll == EnvironmentSpec => []DiscoveriesAreComplete
<1>1. DiscoveryInv => DiscoveriesAreComplete
  BY DiscoveryImplies DEF DiscoveriesAreComplete
<1> QED
  BY <1>1, ContainsDiscovery, DiscoveryInductive, PTL
=============================================================================
