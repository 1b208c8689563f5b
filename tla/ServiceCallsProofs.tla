------------------------- MODULE ServiceCallsProofs -------------------------
(***************************************************************************)
(* What holds of ServiceCalls for any number of threads, calls and faults, *)
(* and for every method of the clients.                                    *)
(***************************************************************************)
EXTENDS ServiceCalls, TLAPS

-----------------------------------------------------------------------------
(* Programs.  No method writes twice; what it sends only if a lookup found *)
(* nothing is another lookup; and what it sends first leaves the entity    *)
(* that there is.                                                          *)

\* r may be sent after q
Follows(q, r) ==
    /\ q.kind \in {"find", "find_list", "get", "act"}
    /\ q.kind \in Writes => r.kind \notin Writes
    /\ r.when = "if_nothing" => {q.kind, r.kind} \subseteq {"find", "find_list"}
    /\ r.when = "if_clean" => q.kind = "get" /\ r.kind = "get" /\ q.scope = r.scope
    /\ r.when = "always" => r.kind \notin {"find", "find_list", "list"}

WellFormed(p) == Len(p) <= 2 /\ (Len(p) = 2 => Follows(p[1], p[2]))

WellFormedPrograms == {p \in Seq(Request) : WellFormed(p)}

Kinds == Reads \cup Writes

LEMMA NoRequestWellFormed == NoRequest \in WellFormedPrograms
<1>1. <<>> \in Seq(Request) /\ Len(<<>>) = 0
  OBVIOUS
<1> QED
  BY <1>1 DEF NoRequest, WellFormedPrograms, WellFormed

LEMMA SingleWellFormed ==
  ASSUME NEW r \in Request
  PROVE  <<r>> \in WellFormedPrograms
<1>1. <<r>> \in Seq(Request) /\ Len(<<r>>) = 1
  OBVIOUS
<1> QED
  BY <1>1 DEF WellFormedPrograms, WellFormed

LEMMA PairWellFormed ==
  ASSUME NEW q \in Request, NEW r \in Request, Follows(q, r)
  PROVE  <<q, r>> \in WellFormedPrograms
<1> DEFINE p == <<q, r>>
<1>1. p \in Seq(Request) /\ Len(p) = 2 /\ p[1] = q /\ p[2] = r
  OBVIOUS
<1> HIDE DEF p
<1>2. p \in WellFormedPrograms
  BY <1>1 DEF WellFormedPrograms, WellFormed
<1> QED
  BY <1>2 DEF p

LEMMA SendType ==
  ASSUME NEW k \in Kinds, NEW s \in Scopes, NEW w \in Conditions
  PROVE  /\ Send(k, s, w) \in Request
         /\ Send(k, s, w).kind = k /\ Send(k, s, w).scope = s /\ Send(k, s, w).when = w
  BY DEF Send, Request, Kinds

LEMMA OnceWellFormed ==
  ASSUME NEW k \in Kinds
  PROVE  Once(k) \subseteq WellFormedPrograms
<1>1. Send(k, "provider", "always") \in Request
  BY SendType DEF Scopes, Conditions
<1> QED
  BY <1>1, SingleWellFormed DEF Once

LEMMA CheckedWellFormed ==
  ASSUME NEW S, S \subseteq WellFormedPrograms
  PROVE  Checked(S) \subseteq WellFormedPrograms
  BY NoRequestWellFormed DEF Checked

LEMMA TwiceWellFormed ==
  /\ Twice("get", "get", "if_clean") \subseteq WellFormedPrograms
  /\ Twice("get", "change", "always") \subseteq WellFormedPrograms
  /\ Twice("get", "delete", "always") \subseteq WellFormedPrograms
  /\ Twice("act", "get", "always") \subseteq WellFormedPrograms
<1>1. ASSUME NEW a \in Kinds, NEW b \in Kinds, NEW w \in Conditions,
             Follows(Send(a, "provider", "always"), Send(b, "provider", w))
      PROVE  Twice(a, b, w) \subseteq WellFormedPrograms
  <2>1. Send(a, "provider", "always") \in Request /\ Send(b, "provider", w) \in Request
    BY SendType DEF Scopes, Conditions
  <2> QED
    BY <1>1, <2>1, PairWellFormed DEF Twice
<1>2. {"get", "change", "delete", "act"} \subseteq Kinds /\ {"if_clean", "always"} \subseteq Conditions
  BY DEF Kinds, Reads, Writes, Conditions
<1>3. /\ Follows(Send("get", "provider", "always"), Send("get", "provider", "if_clean"))
      /\ Follows(Send("get", "provider", "always"), Send("change", "provider", "always"))
      /\ Follows(Send("get", "provider", "always"), Send("delete", "provider", "always"))
      /\ Follows(Send("act", "provider", "always"), Send("get", "provider", "always"))
  BY DEF Follows, Send, Writes, Creates
<1> QED
  BY <1>1, <1>2, <1>3

LEMMA StrategiesWellFormed ==
  ASSUME NEW k \in {"find", "find_list"}
  PROVE  ByStrategy(k) \subseteq WellFormedPrograms
<1>1. \A s \in Scopes, w \in Conditions : Send(k, s, w) \in Request
  BY SendType DEF Kinds, Reads
<1>2. \A s, r \in Scopes : Follows(Send(k, s, "always"), Send(k, r, "if_nothing"))
  BY DEF Follows, Send, Writes, Creates
<1>3. \A s \in Scopes : <<Send(k, s, "always")>> \in WellFormedPrograms
  BY <1>1, SingleWellFormed DEF Conditions
<1>4. \A s, r \in Scopes :
         <<Send(k, s, "always"), Send(k, r, "if_nothing")>> \in WellFormedPrograms
  BY <1>1, <1>2, PairWellFormed DEF Conditions
<1> QED
  BY <1>3, <1>4, NoRequestWellFormed DEF ByStrategy, Scopes

LEMMA TableWellFormed ==
  ASSUME NEW T, \A m \in DOMAIN T : T[m] \subseteq WellFormedPrograms
  PROVE  ProgramsOf(T) \subseteq WellFormedPrograms
  BY DEF ProgramsOf

LEMMA ProgramsWellFormed ==
  ASSUME NEW c \in Clients
  PROVE  Programs(c) \subseteq WellFormedPrograms
<1>1. \A k \in Kinds : Once(k) \subseteq WellFormedPrograms
  BY OnceWellFormed
<1>2. \A S : S \subseteq WellFormedPrograms => Checked(S) \subseteq WellFormedPrograms
  BY CheckedWellFormed
<1>3. {"get", "find", "list", "find_list", "create", "upload", "change", "delete", "act",
       "append"} \subseteq Kinds
  BY DEF Kinds, Reads, Writes, Creates
<1>4. DmsPrograms \cup PrintPrograms \subseteq WellFormedPrograms
  <2>1. ProgramsOf(Repositories) \subseteq WellFormedPrograms
    BY <1>1, <1>2, <1>3, TableWellFormed DEF Repositories
  <2>2. ProgramsOf(Configs) \subseteq WellFormedPrograms
    BY <1>1, <1>2, <1>3, TableWellFormed DEF Configs
  <2>3. ProgramsOf(Creation) \subseteq WellFormedPrograms
    BY <1>1, <1>2, <1>3, TableWellFormed DEF Creation
  <2>4. ProgramsOf(Versioning) \subseteq WellFormedPrograms
    BY <1>1, <1>2, <1>3, TableWellFormed DEF Versioning
  <2>5. ProgramsOf(AccessControl) \subseteq WellFormedPrograms
    BY <1>1, <1>2, <1>3, TableWellFormed DEF AccessControl
  <2>6. ProgramsOf(Objects) \subseteq WellFormedPrograms
    BY <1>1, <1>2, <1>3, TableWellFormed DEF Objects
  <2>7. ProgramsOf(Properties) \subseteq WellFormedPrograms
    BY <1>1, <1>2, <1>3, TableWellFormed DEF Properties
  <2>8. ProgramsOf(Removal) \subseteq WellFormedPrograms
    BY <1>1, <1>2, <1>3, TableWellFormed DEF Removal
  <2>9. ProgramsOf(Streaming) \subseteq WellFormedPrograms
    BY <1>1, <1>2, <1>3, TableWellFormed DEF Streaming
  <2>10. ProgramsOf(Queues) \subseteq WellFormedPrograms
    BY <1>1, <1>2, <1>3, TableWellFormed DEF Queues
  <2> QED
    BY <2>1, <2>2, <2>3, <2>4, <2>5, <2>6, <2>7, <2>8, <2>9, <2>10 DEF DmsPrograms, PrintPrograms
<1>5. MemoryPrograms \subseteq WellFormedPrograms
  <2>1. ProgramsOf(Memories) \subseteq WellFormedPrograms
    BY <1>1, <1>2, <1>3, TableWellFormed DEF Memories
  <2>2. ProgramsOf(MemoryQueries) \subseteq WellFormedPrograms
    BY <1>1, <1>2, <1>3, TableWellFormed DEF MemoryQueries
  <2>3. ProgramsOf(Messages) \subseteq WellFormedPrograms
    BY <1>1, <1>2, <1>3, TableWellFormed DEF Messages
  <2>4. ProgramsOf(MessageQueries) \subseteq WellFormedPrograms
    BY <1>1, <1>2, <1>3, TableWellFormed DEF MessageQueries
  <2>5. ProgramsOf(Retention) \subseteq WellFormedPrograms
    BY <1>1, <1>2, <1>3, TableWellFormed DEF Retention
  <2> QED
    BY <2>1, <2>2, <2>3, <2>4, <2>5 DEF MemoryPrograms
<1>6. DestinationPrograms \subseteq WellFormedPrograms
  <2>0. \A k \in {"find", "find_list"} : ByStrategy(k) \subseteq WellFormedPrograms
    BY StrategiesWellFormed
  <2>1. ProgramsOf(DestinationLists) \subseteq WellFormedPrograms
    BY <1>1, <1>2, <1>3, <2>0, TableWellFormed
    DEF DestinationLists, DestinationHelpers, DestinationStrategies
  <2>2. ProgramsOf(DestinationReads) \subseteq WellFormedPrograms
    BY <1>1, <1>2, <1>3, <2>0, TableWellFormed
    DEF DestinationReads, DestinationHelpers, DestinationStrategies
  <2>3. ProgramsOf(Consumption) \subseteq WellFormedPrograms
    BY <1>1, <1>2, <1>3, TableWellFormed DEF Consumption
  <2>4. ProgramsOf(DestinationWrites) \subseteq WellFormedPrograms
    BY <1>1, <1>2, <1>3, TableWellFormed DEF DestinationWrites
  <2>5. ProgramsOf(DestinationLabels) \subseteq WellFormedPrograms
    BY <1>1, <1>2, <1>3, TableWellFormed DEF DestinationLabels
  <2>6. ProgramsOf(FragmentReads) \subseteq WellFormedPrograms
    BY <1>1, <1>2, <1>3, <2>0, TableWellFormed
    DEF FragmentReads, FragmentHelpers, FragmentStrategies
  <2>7. ProgramsOf(FragmentWrites) \subseteq WellFormedPrograms
    BY <1>1, <1>2, <1>3, TableWellFormed DEF FragmentWrites
  <2>8. ProgramsOf(FragmentLabels) \subseteq WellFormedPrograms
    BY <1>1, <1>2, <1>3, TableWellFormed DEF FragmentLabels
  <2>9. ProgramsOf(CertificateReads) \subseteq WellFormedPrograms
    BY <1>1, <1>2, <1>3, <2>0, TableWellFormed
    DEF CertificateReads, CertificateHelpers, CertificateStrategies
  <2>10. ProgramsOf(CertificateWrites) \subseteq WellFormedPrograms
    BY <1>1, <1>2, <1>3, TableWellFormed DEF CertificateWrites
  <2>11. ProgramsOf(CertificateLabels) \subseteq WellFormedPrograms
    BY <1>1, <1>2, <1>3, TableWellFormed DEF CertificateLabels
  <2> QED
    BY <2>1, <2>2, <2>3, <2>4, <2>5, <2>6, <2>7, <2>8, <2>9, <2>10, <2>11 DEF DestinationPrograms
<1>7. AdmsPrograms \subseteq WellFormedPrograms
  <2>1. ProgramsOf(Documents) \subseteq WellFormedPrograms
    BY <1>1, <1>3, TableWellFormed DEF Documents
  <2>2. ProgramsOf(DownloadUrl) \subseteq WellFormedPrograms
    BY <1>1, <1>3, TwiceWellFormed, TableWellFormed DEF DownloadUrl
  <2>3. ProgramsOf(DocumentWrites) \subseteq WellFormedPrograms
    BY <1>1, <1>3, TwiceWellFormed, TableWellFormed DEF DocumentWrites
  <2>4. ProgramsOf(Relations) \subseteq WellFormedPrograms
    BY <1>1, <1>3, TableWellFormed DEF Relations
  <2>5. ProgramsOf(Drafts) \subseteq WellFormedPrograms
    BY <1>1, <1>3, TableWellFormed DEF Drafts
  <2>6. ProgramsOf(Jobs) \subseteq WellFormedPrograms
    BY <1>1, <1>3, TableWellFormed DEF Jobs
  <2>7. ProgramsOf(AllowedDomains) \subseteq WellFormedPrograms
    BY <1>1, <1>3, TableWellFormed DEF AllowedDomains
  <2>8. ProgramsOf(DocumentTypes) \subseteq WellFormedPrograms
    BY <1>1, <1>3, TableWellFormed DEF DocumentTypes
  <2>9. ProgramsOf(BusinessObjectTypes) \subseteq WellFormedPrograms
    BY <1>1, <1>3, TableWellFormed DEF BusinessObjectTypes
  <2>10. ProgramsOf(TypeMappings) \subseteq WellFormedPrograms
    BY <1>1, <1>3, TableWellFormed DEF TypeMappings
  <2>11. ProgramsOf(FileExtensionPolicies) \subseteq WellFormedPrograms
    BY <1>1, <1>3, TableWellFormed DEF FileExtensionPolicies
  <2>12. ProgramsOf(ApplicationTenants) \subseteq WellFormedPrograms
    BY <1>1, <1>3, TableWellFormed DEF ApplicationTenants
  <2> QED
    BY <2>1, <2>2, <2>3, <2>4, <2>5, <2>6, <2>7, <2>8, <2>9, <2>10, <2>11, <2>12
    DEF AdmsPrograms, AsyncDocuments, AsyncRelations, AsyncDrafts, AsyncJobs,
        AsyncDomainsAndDocumentTypes, AsyncObjectTypesAndMappings, AsyncPoliciesAndTenants
<1>8. ConsentPrograms \subseteq WellFormedPrograms
  <2>0. /\ Listing \subseteq WellFormedPrograms /\ Reading \subseteq WellFormedPrograms
        /\ Creating \subseteq WellFormedPrograms /\ Changing \subseteq WellFormedPrograms
        /\ Deleting \subseteq WellFormedPrograms /\ Acting \subseteq WellFormedPrograms
    BY <1>1, <1>3, TwiceWellFormed DEF Listing, Reading, Creating, Changing, Deleting, Acting
  <2>1. ProgramsOf(ConsentPurposes) \subseteq WellFormedPrograms
    BY <2>0, TableWellFormed DEF ConsentPurposes
  <2>2. ProgramsOf(PurposeActions) \subseteq WellFormedPrograms
    BY <2>0, TableWellFormed DEF PurposeActions
  <2>3. ProgramsOf(PurposeTexts) \subseteq WellFormedPrograms
    BY <2>0, TableWellFormed DEF PurposeTexts
  <2>4. ProgramsOf(RetentionRules) \subseteq WellFormedPrograms
    BY <2>0, TableWellFormed DEF RetentionRules
  <2>5. ProgramsOf(RetentionActions) \subseteq WellFormedPrograms
    BY <2>0, TableWellFormed DEF RetentionActions
  <2>6. ProgramsOf(Templates) \subseteq WellFormedPrograms
    BY <2>0, TableWellFormed DEF Templates
  <2>7. ProgramsOf(TemplateActions) \subseteq WellFormedPrograms
    BY <2>0, TableWellFormed DEF TemplateActions
  <2>8. ProgramsOf(TemplateTexts) \subseteq WellFormedPrograms
    BY <2>0, TableWellFormed DEF TemplateTexts
  <2>9. ProgramsOf(ThirdPartyPersData) \subseteq WellFormedPrograms
    BY <2>0, TableWellFormed DEF ThirdPartyPersData
  <2>10. ProgramsOf(Consents) \subseteq WellFormedPrograms
    BY <2>0, TableWellFormed DEF Consents
  <2>11. ProgramsOf(ConsentActions) \subseteq WellFormedPrograms
    BY <2>0, <1>1, <1>3, TableWellFormed DEF ConsentActions
  <2>12. ProgramsOf(ThirdParties) \subseteq WellFormedPrograms
    BY <2>0, TableWellFormed DEF ThirdParties
  <2>13. ProgramsOf(Jurisdictions) \subseteq WellFormedPrograms
    BY <2>0, TableWellFormed DEF Jurisdictions
  <2>14. ProgramsOf(JurisdictionTexts) \subseteq WellFormedPrograms
    BY <2>0, TableWellFormed DEF JurisdictionTexts
  <2>15. ProgramsOf(Languages) \subseteq WellFormedPrograms
    BY <2>0, TableWellFormed DEF Languages
  <2>16. ProgramsOf(LanguageDescriptions) \subseteq WellFormedPrograms
    BY <2>0, TableWellFormed DEF LanguageDescriptions
  <2>17. ProgramsOf(SourceInfos) \subseteq WellFormedPrograms
    BY <2>0, TableWellFormed DEF SourceInfos
  <2>18. ProgramsOf(Controllers) \subseteq WellFormedPrograms
    BY <2>0, TableWellFormed DEF Controllers
  <2>19. ProgramsOf(DataSubjectTypes) \subseteq WellFormedPrograms
    BY <2>0, TableWellFormed DEF DataSubjectTypes
  <2>20. ProgramsOf(Applications) \subseteq WellFormedPrograms
    BY <2>0, TableWellFormed DEF Applications
  <2>21. ProgramsOf(MasterDataSources) \subseteq WellFormedPrograms
    BY <2>0, TableWellFormed DEF MasterDataSources
  <2>22. ProgramsOf(OutboundChannelTypes) \subseteq WellFormedPrograms
    BY <2>0, TableWellFormed DEF OutboundChannelTypes
  <2> QED
    BY <2>1, <2>2, <2>3, <2>4, <2>5, <2>6, <2>7, <2>8, <2>9, <2>10, <2>11, <2>12, <2>13, <2>14,
       <2>15, <2>16, <2>17, <2>18, <2>19, <2>20, <2>21, <2>22
    DEF ConsentPrograms, ConsentTables
<1> QED
  BY <1>4, <1>5, <1>6, <1>7, <1>8 DEF Programs, Clients

-----------------------------------------------------------------------------
(* The inductive invariant *)

Replies == [status: Statuses, body: BOOLEAN, value: Contents]

CallRecords == [
    pc: {"next", "send", "sent", "answered", "returned"}, program: WellFormedPrograms,
    step: {1, 2}, attempt: Nat, header: BOOLEAN,
    reply: Replies, answer: Answers, applied: Nat, swallowed: BOOLEAN,
    seen: [Scopes -> SUBSET Contents], feasible: BOOLEAN, mark: Nat]

TypeInv ==
    /\ client \in Clients
    /\ store \in [Scopes -> Contents]
    /\ stale \in BOOLEAN /\ ifMatch \in BOOLEAN
    /\ calls \in 0..MaxCalls /\ faults \in 0..MaxFaults
    /\ call \in [Threads -> CallRecords]

\* the i-th request of the program is a write
Write(c, i) == i <= Len(c.program) /\ c.program[i].kind \in Writes

(***************************************************************************)
(* What a label says of its call.                                          *)
(***************************************************************************)
LabelOK(c) ==
    /\ c.program \in Programs(client) \cup {NoRequest}
    /\ Active(c) => c.step <= Len(c.program)
    /\ c.pc \in {"next", "send"} => c.attempt <= 1
    /\ c.pc \in {"sent", "answered"} => c.attempt \in {1, 2}
    /\ c.pc = "send" => NeedsIfMatch(Now(c))
    /\ c.pc = "returned" => c.attempt = 0
    /\ c.swallowed => client = "agent_memory"

\* If-Match is taken away by the call that set it, or before
Holds(c) == c.pc \in {"send", "sent", "answered"} /\ NeedsIfMatch(Now(c))
HeaderHeld == ifMatch => \E t \in Threads : Holds(call[t])

(***************************************************************************)
(* The writes that are still to come have not been executed, those that    *)
(* the program has passed have: unless an error was taken for a result.    *)
(***************************************************************************)
EffectsOK(c) ==
    /\ c.applied <= 1
    /\ Active(c) =>
          \A i \in {1, 2} : Write(c, i) =>
              /\ i > c.step => c.applied = 0
              /\ i < c.step /\ ~c.swallowed => c.applied = 1
              /\ i = c.step /\ c.pc # "answered" => c.applied = 0
              /\ i = c.step /\ c.pc = "answered" =>
                    /\ c.reply.status = 200 => c.applied = 1
                    /\ c.reply.status = 401 => c.applied = 0
    /\ c.pc = "returned" /\ c.answer \notin {"raised", "local"} /\ ~c.swallowed =>
          \A i \in {1, 2} : Write(c, i) => c.applied = 1

(***************************************************************************)
(* A call has seen what its answers say, and why it went on.               *)
(***************************************************************************)
Saw(c, i, content) == content \in c.seen[c.program[i].scope]

PathOK(c) ==
    /\ Active(c) => \A s \in Scopes : store[s] \in c.seen[s]
    /\ c.step = 2 =>
          /\ Len(c.program) = 2
          /\ c.program[2].when = "if_nothing" => Saw(c, 1, "absent")
          /\ c.program[2].when = "if_clean" => Saw(c, 1, "full")
    /\ c.pc = "answered" =>
          /\ c.reply.status = 200 =>
                /\ Saw(c, c.step, c.reply.value)
                /\ c.reply.value = "absent" => Now(c).kind \in Creates \cup {"list"}
          /\ c.reply.status = 404 => Saw(c, c.step, "absent")
    /\ Returned(c, Contents) => Saw(c, c.step, c.answer)
    /\ Returned(c, {"nothing"}) => \A i \in 1..Len(c.program) : Saw(c, i, "absent")

(***************************************************************************)
(* While nothing has happened since a call began that could be executed,   *)
(* it is the only one, its next requests can be executed, the header is    *)
(* there when it is needed, and a credential is refused once at most.      *)
(***************************************************************************)
Undisturbed(c) == c.feasible /\ c.mark = calls + faults

Possible(st, r) == r.kind \in {"find", "find_list"} \/ CanDo(r.kind, st[r.scope])

LoneOK(c) ==
    /\ ~Returned(c, {"raised"})
    /\ Active(c) =>
          /\ stale => client # "dpi_ng"
          /\ \A i \in {1, 2} : i <= Len(c.program) =>
                /\ i > c.step \/ (i = c.step /\ (c.pc = "answered" => c.reply.status = 401)) =>
                      Possible(store, c.program[i])
                /\ i > c.step /\ c.program[i].when = "if_clean" =>
                      store[c.program[i].scope] = "full"
          /\ c.pc \in {"next", "send"} => (c.attempt = 1 => ~stale)
          /\ c.pc = "next" => ~ifMatch
          /\ c.pc = "send" => ifMatch
    /\ c.pc \in {"sent", "answered"} =>
          /\ c.attempt = 2 => ~stale
          /\ ifMatch = NeedsIfMatch(Now(c)) /\ c.header = ifMatch
    /\ c.pc = "answered" =>
          /\ c.reply.status \in {200, 401, 404}
          /\ c.reply.status = 401 => c.attempt = 1 /\ SentAgain(Now(c))
          /\ c.reply.status = 404 => Now(c).kind \in {"find", "find_list"}
          /\ c.reply.status = 200 /\ Len(c.program) > c.step
                /\ c.program[c.step + 1].when = "if_clean" => c.reply.value = "full"

Alone(t) ==
    /\ call[t].mark <= calls + faults
    /\ Undisturbed(call[t]) =>
          /\ \A u \in Threads \ {t} : ~Active(call[u])
          /\ LoneOK(call[t])

IInv ==
    /\ TypeInv /\ HeaderHeld
    /\ \A t \in Threads :
          LabelOK(call[t]) /\ EffectsOK(call[t]) /\ PathOK(call[t]) /\ Alone(t)

-----------------------------------------------------------------------------
(* What the steps do to the records of the calls *)

Same(d, c) ==
    /\ d.pc = c.pc /\ d.program = c.program /\ d.step = c.step /\ d.attempt = c.attempt
    /\ d.header = c.header /\ d.reply = c.reply /\ d.answer = c.answer
    /\ d.applied = c.applied /\ d.swallowed = c.swallowed
    /\ d.feasible = c.feasible /\ d.mark = c.mark

Grows(d, c) == \A s \in Scopes : c.seen[s] \subseteq d.seen[s]

\* what no step after Call changes of a call
Kept(d, c) == d.program = c.program /\ d.feasible = c.feasible /\ d.mark = c.mark

\* thread u lets another move, and sees what that does to the store
Watches(u) ==
    /\ Same(call'[u], call[u]) /\ Grows(call'[u], call[u])
    /\ ~Active(call[u]) => call'[u].seen = call[u].seen
    /\ Active(call[u]) => \A s \in Scopes : store'[s] \in call'[u].seen[s]

LEMMA WatchEffect ==
  ASSUME NEW c \in CallRecords, NEW st \in [Scopes -> Contents]
  PROVE  /\ Watch(c, st) \in CallRecords
         /\ Same(Watch(c, st), c) /\ Grows(Watch(c, st), c)
         /\ ~Active(c) => Watch(c, st).seen = c.seen
         /\ Active(c) => \A s \in Scopes : st[s] \in Watch(c, st).seen[s]
<1>1. CASE Active(c)
  <2> DEFINE seen == [s \in Scopes |-> c.seen[s] \cup {st[s]}]
  <2>1. Watch(c, st) = [c EXCEPT !.seen = seen]
    BY <1>1 DEF Watch
  <2>2. seen \in [Scopes -> SUBSET Contents]
    BY DEF CallRecords
  <2>3. \A s \in Scopes : c.seen[s] \subseteq seen[s] /\ st[s] \in seen[s]
    OBVIOUS
  <2> HIDE DEF seen
  <2>4. [c EXCEPT !.seen = seen] \in CallRecords /\ [c EXCEPT !.seen = seen].seen = seen
    BY <2>2 DEF CallRecords
  <2>5. Same([c EXCEPT !.seen = seen], c)
    BY DEF CallRecords, Same
  <2> QED
    BY <1>1, <2>1, <2>3, <2>4, <2>5 DEF Grows
<1>2. CASE ~Active(c)
  BY <1>2 DEF Watch, Same, Grows
<1> QED
  BY <1>1, <1>2

LEMMA NowType ==
  ASSUME NEW c \in CallRecords, c.step <= Len(c.program)
  PROVE  Now(c) \in Request /\ Now(c).scope \in Scopes /\ Now(c).kind \in Kinds
<1>1. c.program \in Seq(Request) /\ c.step \in 1 .. Len(c.program)
  BY DEF CallRecords, WellFormedPrograms
<1>2. c.program[c.step] \in Request
  BY <1>1
<1> QED
  BY <1>2 DEF Now, Request, Kinds

LEMMA StoredType ==
  ASSUME NEW c, NEW content \in Contents
  PROVE  Stored(c, content) \in Contents
  BY DEF Stored, Contents

Answered(c, a, r) == [c EXCEPT !.pc = "answered", !.applied = a, !.reply = r]

LEMMA AnsweredEffect ==
  ASSUME NEW c \in CallRecords, NEW a \in Nat, NEW r \in Replies
  PROVE  LET d == Answered(c, a, r) IN
         /\ d \in CallRecords /\ Kept(d, c) /\ d.seen = c.seen
         /\ d.pc = "answered" /\ d.step = c.step /\ d.attempt = c.attempt
         /\ d.header = c.header /\ d.answer = c.answer /\ d.swallowed = c.swallowed
         /\ d.applied = a /\ d.reply = r
<1> DEFINE d == Answered(c, a, r)
<1> USE DEF Answered
<1>1. d \in CallRecords
  BY DEF CallRecords
<1>2. Kept(d, c) /\ d.seen = c.seen
  BY DEF CallRecords, Kept
<1>3. d.pc = "answered" /\ d.step = c.step /\ d.attempt = c.attempt
  BY DEF CallRecords
<1>4. d.header = c.header /\ d.answer = c.answer /\ d.swallowed = c.swallowed
  BY DEF CallRecords
<1>5. d.applied = a /\ d.reply = r
  BY DEF CallRecords
<1> QED
  BY <1>1, <1>2, <1>3, <1>4, <1>5

LEMMA AnswerEffect ==
  ASSUME TypeInv, NEW t \in Threads, NEW status \in Statuses, NEW executed \in BOOLEAN,
         Active(call[t]), call[t].step <= Len(call[t].program), Answer(t, status, executed)
  PROVE  LET c == call[t]
             d == call'[t]
             s == Now(c).scope
         IN  /\ store' \in [Scopes -> Contents] /\ call' \in [Threads -> CallRecords]
             /\ store' = IF executed THEN [store EXCEPT ![s] = Stored(c, @)] ELSE store
             /\ Kept(d, c) /\ Grows(d, c)
             /\ d.pc = "answered" /\ d.step = c.step /\ d.attempt = c.attempt
             /\ d.header = c.header /\ d.answer = c.answer /\ d.swallowed = c.swallowed
             /\ d.applied = c.applied + (IF executed /\ Now(c).kind \in Writes THEN 1 ELSE 0)
             /\ d.reply.status = status
             /\ d.reply.value = IF executed THEN store[s] ELSE "absent"
             /\ \A x \in Scopes : store'[x] \in d.seen[x]
             /\ \A u \in Threads \ {t} : Watches(u)
<1> DEFINE c == call[t]
           s == Now(c).scope
           value == IF executed THEN store[s] ELSE "absent"
           writes == IF executed /\ Now(c).kind \in Writes THEN 1 ELSE 0
           A(body) == [c EXCEPT !.pc = "answered", !.applied = @ + writes,
                           !.reply = [status |-> status, body |-> body, value |-> value]]
<1>1. c \in CallRecords /\ s \in Scopes
  BY NowType DEF TypeInv
<1>2. PICK body \in BOOLEAN :
         /\ store' = IF executed THEN [store EXCEPT ![s] = Stored(c, @)] ELSE store
         /\ call' = [u \in Threads |-> Watch(IF u = t THEN A(body) ELSE call[u], store')]
  <2> DEFINE bodies == IF client = "agent_memory" /\ status # 200 THEN BOOLEAN ELSE {TRUE}
             after == IF executed THEN [store EXCEPT ![s] = Stored(c, @)] ELSE store
  <2>1. \E body \in bodies :
           /\ store' = after
           /\ call' = [u \in Threads |-> Watch(IF u = t THEN A(body) ELSE call[u], after)]
    BY Zenon DEF Answer
  <2>2. bodies \subseteq BOOLEAN
    OBVIOUS
  <2> HIDE DEF bodies, A
  <2> QED
    BY <2>1, <2>2
<1>3. store' \in [Scopes -> Contents]
  BY <1>1, <1>2, StoredType DEF TypeInv
<1>4. value \in Contents /\ writes \in Nat
  BY <1>1 DEF TypeInv, Contents
<1> HIDE DEF c, s, value, writes, A
<1>5. PICK r \in Replies : r = [status |-> status, body |-> body, value |-> value]
  BY <1>4 DEF Replies
<1>6. PICK a \in Nat : a = c.applied + writes
  <2>1. c.applied \in Nat
    BY <1>1 DEF CallRecords
  <2>2. c.applied + writes \in Nat
    BY <1>4, <2>1
  <2> QED
    BY <2>2, Zenon
<1>14. A(body) = Answered(c, a, r)
  BY <1>5, <1>6 DEF A, Answered
<1>13. /\ A(body) \in CallRecords
      /\ Kept(A(body), c) /\ A(body).seen = c.seen
      /\ A(body).pc = "answered" /\ A(body).step = c.step /\ A(body).attempt = c.attempt
      /\ A(body).header = c.header /\ A(body).answer = c.answer
      /\ A(body).swallowed = c.swallowed
      /\ A(body).applied = a /\ A(body).reply = r
  BY <1>1, <1>14, AnsweredEffect
<1>7. Active(A(body))
  BY <1>13 DEF Active
<1>8. call'[t] = Watch(A(body), store')
  BY <1>2
<1>9. /\ call'[t] \in CallRecords
      /\ Same(call'[t], A(body)) /\ Grows(call'[t], A(body))
      /\ \A x \in Scopes : store'[x] \in call'[t].seen[x]
  BY <1>3, <1>7, <1>8, <1>13, WatchEffect
<1>10. ASSUME NEW u \in Threads \ {t}
       PROVE  call'[u] \in CallRecords /\ Watches(u)
  <2>1. call'[u] = Watch(call[u], store') /\ call[u] \in CallRecords
    BY <1>2 DEF TypeInv
  <2> QED
    BY <1>3, <2>1, WatchEffect DEF Watches
<1>11. call' \in [Threads -> CallRecords]
  <2>1. \A u \in Threads : call'[u] \in CallRecords
    BY <1>9, <1>10
  <2> QED
    BY <1>2, <2>1
<1>12. /\ Kept(call'[t], c) /\ Grows(call'[t], c)
       /\ call'[t].pc = "answered" /\ call'[t].step = c.step /\ call'[t].attempt = c.attempt
       /\ call'[t].header = c.header /\ call'[t].answer = c.answer
       /\ call'[t].swallowed = c.swallowed /\ call'[t].applied = c.applied + writes
       /\ call'[t].reply.status = status /\ call'[t].reply.value = value
  BY <1>5, <1>6, <1>9, <1>13 DEF Same, Kept, Grows
<1> QED
  BY <1>2, <1>3, <1>9, <1>10, <1>11, <1>12 DEF c, s, value, writes

\* thread t moves alone, and its call goes on or ends
Moves(t) ==
    /\ call' \in [Threads -> CallRecords]
    /\ \A u \in Threads \ {t} : call'[u] = call[u]
    /\ Kept(call'[t], call[t]) /\ call'[t].seen = call[t].seen
    /\ call'[t].applied = call[t].applied

LEMMA MovesByReplacing ==
  ASSUME TypeInv, NEW t \in Threads, NEW d \in CallRecords, call' = [call EXCEPT ![t] = d],
         Kept(d, call[t]), d.seen = call[t].seen, d.applied = call[t].applied
  PROVE  Moves(t) /\ call'[t] = d
  BY DEF TypeInv, Moves

LEMMA SetIfMatchEffect ==
  ASSUME TypeInv, NEW t \in Threads, SetIfMatch(t)
  PROVE  /\ Moves(t) /\ call'[t].pc = "send" /\ call'[t].step = call[t].step
         /\ call'[t].attempt = call[t].attempt /\ call'[t].swallowed = call[t].swallowed
<1> DEFINE d == [call[t] EXCEPT !.pc = "send"]
<1>1. call[t] \in CallRecords /\ call' = [call EXCEPT ![t] = d]
  BY DEF SetIfMatch, TypeInv
<1>2. /\ d \in CallRecords /\ Kept(d, call[t]) /\ d.seen = call[t].seen
      /\ d.applied = call[t].applied /\ d.pc = "send" /\ d.step = call[t].step
      /\ d.attempt = call[t].attempt /\ d.swallowed = call[t].swallowed
  BY <1>1 DEF CallRecords, Kept
<1> HIDE DEF d
<1> QED
  BY <1>1, <1>2, MovesByReplacing

LEMMA SendRequestEffect ==
  ASSUME TypeInv, NEW t \in Threads, SendRequest(t)
  PROVE  /\ Moves(t) /\ call'[t].pc = "sent" /\ call'[t].step = call[t].step
         /\ call'[t].header = ifMatch /\ call'[t].attempt = call[t].attempt + 1
         /\ call'[t].swallowed = call[t].swallowed
<1>1. PICK a \in Nat : a = call[t].attempt + 1
  <2>1. call[t].attempt \in Nat
    BY DEF TypeInv, CallRecords
  <2>2. call[t].attempt + 1 \in Nat
    BY <2>1
  <2> QED
    BY <2>2, Zenon
<1> DEFINE d == [call[t] EXCEPT !.pc = "sent", !.header = ifMatch, !.attempt = a]
<1>2. call[t] \in CallRecords /\ call' = [call EXCEPT ![t] = d]
  BY <1>1 DEF SendRequest, TypeInv
<1>3. /\ d \in CallRecords /\ Kept(d, call[t]) /\ d.seen = call[t].seen
      /\ d.applied = call[t].applied /\ d.pc = "sent" /\ d.step = call[t].step
      /\ d.attempt = a /\ d.header = ifMatch /\ d.swallowed = call[t].swallowed
  BY <1>2 DEF TypeInv, CallRecords, Kept
<1> HIDE DEF d
<1> QED
  BY <1>1, <1>2, <1>3, MovesByReplacing

LEMMA ResendEffect ==
  ASSUME TypeInv, NEW t \in Threads, Resend(t)
  PROVE  /\ Moves(t) /\ call'[t].pc = "next" /\ call'[t].step = call[t].step
         /\ call'[t].attempt = call[t].attempt /\ call'[t].swallowed = call[t].swallowed
<1> DEFINE d == [call[t] EXCEPT !.pc = "next"]
<1>1. call[t] \in CallRecords /\ call' = [call EXCEPT ![t] = d]
  BY DEF Resend, TypeInv
<1>2. /\ d \in CallRecords /\ Kept(d, call[t]) /\ d.seen = call[t].seen
      /\ d.applied = call[t].applied /\ d.pc = "next" /\ d.step = call[t].step
      /\ d.attempt = call[t].attempt /\ d.swallowed = call[t].swallowed
  BY <1>1 DEF CallRecords, Kept
<1> HIDE DEF d
<1> QED
  BY <1>1, <1>2, MovesByReplacing

LEMMA EndedEffect ==
  ASSUME NEW c \in CallRecords, NEW a \in Answers
  PROVE  LET d == Ended(c, a) IN
         /\ d \in CallRecords /\ Kept(d, c) /\ d.seen = c.seen /\ d.applied = c.applied
         /\ d.pc = "returned" /\ d.answer = a /\ d.step = c.step /\ d.attempt = 0
         /\ d.swallowed = c.swallowed
<1>1. NoReply \in Replies
  BY DEF NoReply, Replies, Statuses, Contents
<1> QED
  BY <1>1 DEF Ended, CallRecords, Kept

LEMMA FailEffect ==
  ASSUME TypeInv, NEW t \in Threads, Fail(t)
  PROVE  /\ Moves(t) /\ call'[t].pc = "returned" /\ call'[t].step = call[t].step
         /\ call'[t].attempt = 0 /\ call'[t].swallowed = call[t].swallowed
         /\ call'[t].answer = "raised"
<1> DEFINE d == Ended(call[t], "raised")
<1>1. call[t] \in CallRecords /\ call' = [call EXCEPT ![t] = d]
  BY DEF Fail, TypeInv
<1>2. "raised" \in Answers
  BY DEF Answers
<1>3. /\ d \in CallRecords /\ Kept(d, call[t]) /\ d.seen = call[t].seen
      /\ d.applied = call[t].applied /\ d.pc = "returned" /\ d.answer = "raised"
      /\ d.step = call[t].step /\ d.attempt = 0 /\ d.swallowed = call[t].swallowed
  BY <1>1, <1>2, EndedEffect
<1> HIDE DEF d
<1> QED
  BY <1>1, <1>3, MovesByReplacing

\* the three ways in which a call proceeds
Swallows(c) == c.swallowed \/ (c.reply.status # 200 /\ ~Missing(c))
WithSwallowed(c) == [c EXCEPT !.swallowed = Swallows(c)]
Continued(c) ==
    [WithSwallowed(c) EXCEPT !.pc = "next", !.step = @ + 1, !.attempt = 0,
                             !.header = FALSE, !.reply = NoReply]

LEMMA ResultType ==
  ASSUME NEW c \in CallRecords
  PROVE  ResultOf(c) \in Answers
  BY DEF ResultOf, Answers, CallRecords, Replies

LEMMA WithSwallowedEffect ==
  ASSUME NEW c \in CallRecords
  PROVE  LET k == WithSwallowed(c) IN
         /\ k \in CallRecords /\ Kept(k, c) /\ k.seen = c.seen
         /\ k.applied = c.applied /\ k.step = c.step /\ k.swallowed = Swallows(c)
<1>1. Swallows(c) \in BOOLEAN
  BY DEF Swallows, CallRecords
<1> QED
  BY <1>1 DEF WithSwallowed, CallRecords, Kept

LEMMA ContinuedEffect ==
  ASSUME NEW c \in CallRecords, c.step = 1
  PROVE  LET d == Continued(c) IN
         /\ d \in CallRecords /\ Kept(d, c) /\ d.seen = c.seen /\ d.applied = c.applied
         /\ d.pc = "next" /\ d.step = 2 /\ d.attempt = 0
         /\ d.swallowed = Swallows(c)
<1>1. NoReply \in Replies
  BY DEF NoReply, Replies, Statuses, Contents
<1> DEFINE k == WithSwallowed(c)
<1>2. k \in CallRecords /\ Kept(k, c) /\ k.seen = c.seen
      /\ k.applied = c.applied /\ k.step = 1 /\ k.swallowed = Swallows(c)
  BY WithSwallowedEffect
<1> HIDE DEF k
<1>3. Continued(c) = [k EXCEPT !.pc = "next", !.step = 2, !.attempt = 0,
                               !.header = FALSE, !.reply = NoReply]
  BY <1>2 DEF Continued, k
<1>4. [k EXCEPT !.pc = "next", !.step = 2, !.attempt = 0, !.header = FALSE,
                !.reply = NoReply] \in CallRecords
  BY <1>1, <1>2 DEF CallRecords
<1>5. /\ Kept(Continued(c), k) /\ Continued(c).seen = k.seen
      /\ Continued(c).applied = k.applied /\ Continued(c).swallowed = k.swallowed
  BY <1>2, <1>3 DEF CallRecords, Kept
<1>6. Continued(c).pc = "next" /\ Continued(c).step = 2 /\ Continued(c).attempt = 0
  BY <1>2, <1>3 DEF CallRecords
<1> QED
  BY <1>2, <1>3, <1>4, <1>5, <1>6 DEF Kept

LEMMA ProceedEffect ==
  ASSUME TypeInv, NEW t \in Threads, call[t].step <= Len(call[t].program), Proceed(t)
  PROVE  LET c == call[t]
             d == call'[t]
             last == c.step = Len(c.program)
             when == c.program[c.step + 1].when
         IN  /\ Moves(t) /\ d.swallowed = Swallows(c) /\ d.attempt = 0
             /\ ~last => c.step = 1 /\ Len(c.program) = 2 /\ c.program[2] \in Request
             /\ \/ /\ d.pc = "next" /\ d.step = 2 /\ ~last
                   /\ when = "if_nothing" => ResultOf(c) = "nothing"
                   /\ when = "if_clean" => ResultOf(c) = "full"
                \/ /\ d.pc = "returned" /\ d.step = c.step /\ d.answer = ResultOf(c)
                   /\ last \/ (when = "if_nothing" /\ ResultOf(c) # "nothing")
                \/ /\ d.pc = "returned" /\ d.step = c.step /\ d.answer = "raised"
                   /\ ~last /\ when = "if_clean" /\ ResultOf(c) # "full"
<1> DEFINE c == call[t]
           last == c.step = Len(c.program)
           when == c.program[c.step + 1].when
           kept == WithSwallowed(c)
<1>1. c \in CallRecords
  BY DEF TypeInv
<1>2. kept \in CallRecords /\ Kept(kept, c) /\ kept.seen = c.seen
      /\ kept.applied = c.applied /\ kept.step = c.step /\ kept.swallowed = Swallows(c)
  BY <1>1, WithSwallowedEffect
<1>3. /\ ~last => c.step = 1 /\ Len(c.program) = 2 /\ c.program[2] \in Request
      /\ ~last => when \in Conditions
  <2>1. c.program \in Seq(Request) /\ Len(c.program) <= 2 /\ c.step \in {1, 2}
    BY <1>1 DEF CallRecords, WellFormedPrograms, WellFormed
  <2>2. Len(c.program) \in Nat /\ c.step \in Nat /\ c.step <= Len(c.program)
    BY <2>1
  <2>3. ~last => c.step = 1 /\ Len(c.program) = 2
    <3> DEFINE n == Len(c.program)
    <3>1. n \in Nat /\ n <= 2 /\ c.step \in {1, 2} /\ c.step <= n /\ (last <=> c.step = n)
      BY <2>1, <2>2
    <3> HIDE DEF n, last
    <3>2. ~last => c.step = 1 /\ n = 2
      BY <3>1
    <3> QED
      BY <3>2 DEF n
  <2>4. ~last => c.program[2] \in Request
    BY <2>1, <2>3
  <2> QED
    BY <2>3, <2>4 DEF Request
<1>4. PICK d : /\ call' = [call EXCEPT ![t] = d]
               /\ \/ last /\ d = Ended(kept, ResultOf(c))
                  \/ /\ ~last /\ when = "always" /\ d = Continued(c)
                  \/ /\ ~last /\ when = "if_nothing" /\ ResultOf(c) = "nothing"
                     /\ d = Continued(c)
                  \/ /\ ~last /\ when = "if_nothing" /\ ResultOf(c) # "nothing"
                     /\ d = Ended(kept, ResultOf(c))
                  \/ /\ ~last /\ when = "if_clean" /\ ResultOf(c) = "full"
                     /\ d = Continued(c)
                  \/ /\ ~last /\ when = "if_clean" /\ ResultOf(c) # "full"
                     /\ d = Ended(kept, "raised")
  <2> DEFINE then == [kept EXCEPT !.pc = "next", !.step = @ + 1, !.attempt = 0,
                                  !.header = FALSE, !.reply = NoReply]
             e == IF last THEN Ended(kept, ResultOf(c))
                  ELSE CASE when = "always"     -> then
                         [] when = "if_nothing" -> IF ResultOf(c) = "nothing" THEN then
                                                   ELSE Ended(kept, ResultOf(c))
                         [] when = "if_clean"   -> IF ResultOf(c) = "full" THEN then
                                                   ELSE Ended(kept, "raised")
  <2>1. call' = [call EXCEPT ![t] = e]
    BY Zenon DEF Proceed, WithSwallowed, Swallows
  <2>2. then = Continued(c)
    BY Zenon DEF Continued
  <2> HIDE DEF then, kept
  <2>3. \/ last /\ e = Ended(kept, ResultOf(c))
        \/ ~last /\ when = "always" /\ e = then
        \/ ~last /\ when = "if_nothing" /\ ResultOf(c) = "nothing" /\ e = then
        \/ ~last /\ when = "if_nothing" /\ ResultOf(c) # "nothing" /\ e = Ended(kept, ResultOf(c))
        \/ ~last /\ when = "if_clean" /\ ResultOf(c) = "full" /\ e = then
        \/ ~last /\ when = "if_clean" /\ ResultOf(c) # "full" /\ e = Ended(kept, "raised")
    BY <1>3 DEF Conditions
  <2> HIDE DEF e
  <2> QED
    BY <2>1, <2>2, <2>3
<1>5. ResultOf(c) \in Answers /\ "raised" \in Answers
  BY <1>1, ResultType DEF Answers
<1> HIDE DEF kept, c
<1>6. \A a \in Answers :
         /\ Ended(kept, a) \in CallRecords /\ Kept(Ended(kept, a), c)
         /\ Ended(kept, a).seen = c.seen /\ Ended(kept, a).applied = c.applied
         /\ Ended(kept, a).pc = "returned" /\ Ended(kept, a).answer = a
         /\ Ended(kept, a).step = c.step /\ Ended(kept, a).attempt = 0
         /\ Ended(kept, a).swallowed = Swallows(c)
  BY <1>2, EndedEffect DEF Kept
<1>7. ~last => /\ Continued(c) \in CallRecords /\ Kept(Continued(c), c)
               /\ Continued(c).seen = c.seen /\ Continued(c).applied = c.applied
               /\ Continued(c).pc = "next" /\ Continued(c).step = 2
               /\ Continued(c).attempt = 0 /\ Continued(c).swallowed = Swallows(c)
  BY <1>1, <1>3, ContinuedEffect
<1>8. d \in CallRecords /\ Kept(d, c) /\ d.seen = c.seen /\ d.applied = c.applied
  BY <1>4, <1>5, <1>6, <1>7
<1>9. Moves(t) /\ call'[t] = d
  BY <1>4, <1>8, MovesByReplacing DEF c
<1> QED
  BY <1>3, <1>4, <1>5, <1>6, <1>7, <1>9 DEF c

\* nothing stands in the way of the program, and nobody else is calling
Free(p) == Feasible(p) /\ \A u \in Threads : ~Active(call[u])
NewCall(p) == [Started(p) EXCEPT !.feasible = Free(p), !.mark = calls + 1 + faults]

LEMMA CallEffect ==
  ASSUME TypeInv, NEW t \in Threads, Call(t)
  PROVE  \E p \in Programs(client) :
            LET d == call'[t] IN
            /\ p \in WellFormedPrograms
            /\ call' \in [Threads -> CallRecords]
            /\ \A u \in Threads \ {t} : call'[u] = call[u]
            /\ d.program = p /\ d.step = 1 /\ d.attempt = 0
            /\ d.pc = (IF p = NoRequest THEN "returned" ELSE "next")
            /\ d.answer = (IF p = NoRequest THEN "local" ELSE "none")
            /\ d.applied = 0 /\ d.swallowed = FALSE
            /\ d.seen = [s \in Scopes |-> {store[s]}]
            /\ d.feasible = Free(p) /\ d.mark = calls + 1 + faults
<1>1. PICK p \in Programs(client) : call' = [call EXCEPT ![t] = NewCall(p)]
  BY DEF Call, NewCall, Free
<1>2. p \in WellFormedPrograms
  BY ProgramsWellFormed DEF TypeInv
<1> DEFINE seen == [s \in Scopes |-> {store[s]}]
           b == Free(p)
           n == calls + 1 + faults
           pc0 == IF p = NoRequest THEN "returned" ELSE "next"
           answer0 == IF p = NoRequest THEN "local" ELSE "none"
<1>3. seen \in [Scopes -> SUBSET Contents]
  BY DEF TypeInv
<1>4. b \in BOOLEAN
  <2>1. CASE Feasible(p) /\ \A u \in Threads : ~Active(call[u])
    BY <2>1, Zenon DEF Free
  <2>2. CASE ~(Feasible(p) /\ \A u \in Threads : ~Active(call[u]))
    BY <2>2, Zenon DEF Free
  <2> QED
    BY <2>1, <2>2
<1>5. n \in Nat
  BY CallBounds DEF TypeInv
<1>6. NoReply \in Replies
  BY DEF NoReply, Replies, Statuses, Contents
<1>7. pc0 \in {"next", "returned"} /\ answer0 \in Answers
  BY DEF Answers
<1> DEFINE d == [pc |-> pc0, program |-> p, step |-> 1, attempt |-> 0, header |-> FALSE,
                 reply |-> NoReply, answer |-> answer0, applied |-> 0, swallowed |-> FALSE,
                 seen |-> seen, feasible |-> b, mark |-> n]
<1>8. NewCall(p) = [[pc |-> pc0, program |-> p, step |-> 1, attempt |-> 0, header |-> FALSE,
                    reply |-> NoReply, answer |-> answer0, applied |-> 0, swallowed |-> FALSE,
                    seen |-> seen, feasible |-> FALSE, mark |-> 0]
                    EXCEPT !.feasible = b, !.mark = n]
  BY Zenon DEF NewCall, Started
<1> HIDE DEF seen, b, n, pc0, answer0
<1>12. NewCall(p) = d
  BY <1>8
<1>9. d \in CallRecords
  BY <1>2, <1>3, <1>4, <1>5, <1>6, <1>7 DEF CallRecords
<1>10. /\ d.program = p /\ d.step = 1 /\ d.attempt = 0 /\ d.pc = pc0 /\ d.answer = answer0
       /\ d.applied = 0 /\ d.swallowed = FALSE /\ d.seen = seen /\ d.feasible = b /\ d.mark = n
  OBVIOUS
<1> HIDE DEF d
<1>11. /\ call' \in [Threads -> CallRecords] /\ call'[t] = d
       /\ \A u \in Threads \ {t} : call'[u] = call[u]
  BY <1>1, <1>9, <1>12 DEF TypeInv
<1> QED
  BY <1>2, <1>10, <1>11 DEF seen, b, n, pc0, answer0

-----------------------------------------------------------------------------
(* Types *)

LEMMA InitTypeInv == Init => TypeInv
<1> SUFFICES ASSUME Init PROVE TypeInv
  OBVIOUS
<1>1. NoRequest \in WellFormedPrograms /\ NoReply \in Replies
  BY NoRequestWellFormed DEF NoReply, Replies, Statuses, Contents
<1>2. [s \in Scopes |-> {store[s]}] \in [Scopes -> SUBSET Contents] /\ store \in [Scopes -> Contents]
  BY DEF Init, Contents
<1>3. Started(NoRequest) \in CallRecords
  <2>1. Started(NoRequest) = [
           pc |-> "returned", program |-> NoRequest, step |-> 1, attempt |-> 0,
           header |-> FALSE, reply |-> NoReply, answer |-> "local", applied |-> 0,
           swallowed |-> FALSE, seen |-> [s \in Scopes |-> {store[s]}], feasible |-> FALSE,
           mark |-> 0]
    BY DEF Started
  <2> QED
    BY <1>1, <1>2, <2>1 DEF CallRecords, Answers
<1>4. call \in [Threads -> CallRecords]
  <2> HIDE DEF CallRecords
  <2> QED
    BY <1>3 DEF Init
<1>5. calls \in 0..MaxCalls /\ faults \in 0..MaxFaults
  BY CallBounds DEF Init
<1> QED
  BY <1>2, <1>4, <1>5 DEF Init, TypeInv

\* the service answers a request of a call: when it does so, and how
ServedAs(t, status, executed) ==
    LET r == Now(call[t])
        can == CanDo(r.kind, store[r.scope])
    IN  /\ executed => can
        /\ status = 200 => executed
        /\ status \in {401, 404, 409, 428} => ~executed
        /\ status = 401 => stale /\ CarriesCredential(r)
        /\ status \in {404, 409} => ~can
        /\ status = 404 => r.kind \notin Creates
        /\ status = 409 => r.kind \in Creates
        /\ status = 428 => call[t].header # NeedsIfMatch(r)
        /\ status = 500 => faults < MaxFaults /\ faults' = faults + 1
        /\ status # 500 => faults' = faults
        /\ status # 0

LEMMA ServeAnswers ==
  ASSUME NEW t \in Threads, Serve(t)
  PROVE  /\ call[t].pc = "sent"
         /\ UNCHANGED <<client, stale, ifMatch, calls>>
         /\ \E status \in Statuses, executed \in BOOLEAN :
               Answer(t, status, executed) /\ ServedAs(t, status, executed)
<1> DEFINE can == CanDo(Now(call[t]).kind, store[Now(call[t]).scope])
           Goal == \E status \in Statuses, executed \in BOOLEAN :
                      Answer(t, status, executed) /\ ServedAs(t, status, executed)
<1>0. call[t].pc = "sent" /\ UNCHANGED <<client, stale, ifMatch, calls>>
  BY DEF Serve, Unauthorized, Execute, WrongHeader, Outage
<1>9. ASSUME NEW status \in Statuses, NEW executed \in BOOLEAN,
             Answer(t, status, executed), ServedAs(t, status, executed)
      PROVE  Goal
  BY <1>9, Zenon
<1>8. /\ 200 \in Statuses /\ 401 \in Statuses /\ 404 \in Statuses /\ 409 \in Statuses
      /\ 428 \in Statuses /\ 500 \in Statuses /\ TRUE \in BOOLEAN /\ FALSE \in BOOLEAN
  BY DEF Statuses
<1> HIDE DEF Goal
<1> SUFFICES Goal
  BY <1>0, Zenon DEF Goal
<1>1. CASE Unauthorized(t)
  <2>1. Answer(t, 401, FALSE)
    BY <1>1, Zenon DEF Unauthorized
  <2>2. ServedAs(t, 401, FALSE)
    BY <1>1 DEF Unauthorized, ServedAs
  <2> QED
    BY <1>8, <1>9, <2>1, <2>2, Zenon
<1>2. CASE Execute(t)
  <2>1. CASE can
    <3>1. Answer(t, 200, TRUE)
      BY <1>2, <2>1, Zenon DEF Execute
    <3>2. ServedAs(t, 200, TRUE)
      BY <1>2, <2>1 DEF Execute, ServedAs
    <3> QED
      BY <1>8, <1>9, <3>1, <3>2, Zenon
  <2>2. CASE ~can /\ Now(call[t]).kind \in Creates
    <3>1. Answer(t, 409, FALSE)
      BY <1>2, <2>2, Zenon DEF Execute
    <3>2. ServedAs(t, 409, FALSE)
      BY <1>2, <2>2 DEF Execute, ServedAs
    <3> QED
      BY <1>8, <1>9, <3>1, <3>2, Zenon
  <2>3. CASE ~can /\ Now(call[t]).kind \notin Creates
    <3>1. Answer(t, 404, FALSE)
      BY <1>2, <2>3, Zenon DEF Execute
    <3>2. ServedAs(t, 404, FALSE)
      BY <1>2, <2>3 DEF Execute, ServedAs
    <3> QED
      BY <1>8, <1>9, <3>1, <3>2, Zenon
  <2> QED
    BY <2>1, <2>2, <2>3
<1>3. CASE WrongHeader(t)
  <2>1. Answer(t, 428, FALSE)
    BY <1>3, Zenon DEF WrongHeader
  <2>2. ServedAs(t, 428, FALSE)
    BY <1>3 DEF WrongHeader, ServedAs
  <2> QED
    BY <1>8, <1>9, <2>1, <2>2, Zenon
<1>4. CASE Outage(t)
  <2>1. PICK executed \in {FALSE, can} : Answer(t, 500, executed)
    BY <1>4, Zenon DEF Outage
  <2>2. can \in BOOLEAN
    BY Zenon DEF CanDo
  <2>3. executed \in BOOLEAN /\ (executed => can)
    BY <2>2, Zenon
  <2>4. faults < MaxFaults /\ faults' = faults + 1
    BY <1>4 DEF Outage
  <2>5. ServedAs(t, 500, executed)
    BY <2>3, <2>4 DEF ServedAs
  <2> QED
    BY <1>8, <1>9, <2>1, <2>3, <2>5, Zenon
<1> QED
  BY <1>1, <1>2, <1>3, <1>4 DEF Serve

-----------------------------------------------------------------------------
(* What each step leaves true of the call it moves, and of the others *)

OwnOK(t) == LabelOK(call[t]) /\ EffectsOK(call[t]) /\ PathOK(call[t])

\* the two requests of a program
LEMMA TwoRequests ==
  ASSUME NEW c \in CallRecords
  PROVE  /\ c.program \in Seq(Request) /\ Len(c.program) \in Nat /\ Len(c.program) <= 2
         /\ Len(c.program) = 2 => Follows(c.program[1], c.program[2])
         /\ \A i \in {1, 2} : i <= Len(c.program) =>
               /\ c.program[i] \in Request /\ c.program[i].scope \in Scopes
               /\ c.program[i].kind \in Kinds /\ c.program[i].when \in Conditions
<1>1. /\ c.program \in Seq(Request) /\ Len(c.program) <= 2
      /\ Len(c.program) = 2 => Follows(c.program[1], c.program[2])
  BY DEF CallRecords, WellFormedPrograms, WellFormed
<1>2. Len(c.program) \in Nat
  BY <1>1
<1>3. \A i \in {1, 2} : i <= Len(c.program) => i \in 1 .. Len(c.program)
  BY <1>2
<1>4. \A i \in {1, 2} : i <= Len(c.program) => c.program[i] \in Request
  BY <1>1, <1>3
<1>5. \A r \in Request : r.scope \in Scopes /\ r.kind \in Kinds /\ r.when \in Conditions
  BY DEF Request, Kinds
<1> QED
  BY <1>1, <1>2, <1>4, <1>5

\* no program writes twice
LEMMA OneWrite ==
  ASSUME NEW c \in CallRecords
  PROVE  ~(Write(c, 1) /\ Write(c, 2))
<1> DEFINE n == Len(c.program)
<1>1. n \in Nat /\ n <= 2 /\ (n = 2 => Follows(c.program[1], c.program[2]))
  BY TwoRequests
<1>2. Write(c, 2) => n = 2 /\ c.program[2].kind \in Writes
  <2> HIDE DEF n
  <2>1. 2 <= n => n = 2
    BY <1>1
  <2> QED
    BY <2>1 DEF Write, n
<1>3. Write(c, 1) => c.program[1].kind \in Writes
  BY DEF Write
<1> QED
  BY <1>1, <1>2, <1>3 DEF Follows

LEMMA BystanderKeeps ==
  ASSUME client' = client, NEW u \in Threads, call[u] \in CallRecords,
         call'[u] \in CallRecords, Watches(u), OwnOK(u)
  PROVE  OwnOK(u)'
<1> DEFINE c == call[u]
           d == call'[u]
<1>1. Same(d, c) /\ Grows(d, c)
  BY DEF Watches
<1>2. LabelOK(call[u])'
  BY <1>1 DEF OwnOK, LabelOK, Same, Active, NeedsIfMatch, Now
<1>3. EffectsOK(call[u])'
  BY <1>1 DEF OwnOK, EffectsOK, Same, Active, Write
<1>4. PathOK(call[u])'
  <2>1. CASE ~Active(c)
    <3>1. d.seen = c.seen
      BY <2>1 DEF Watches
    <3> QED
      BY <1>1, <2>1, <3>1 DEF OwnOK, PathOK, Same, Active, Saw, Now, Returned
  <2>2. CASE Active(c)
    <3>1. \A i \in {1, 2} : i <= Len(c.program) => c.program[i].scope \in Scopes
      BY TwoRequests
    <3>2. c.step \in {1, 2} /\ c.step <= Len(c.program)
      BY <2>2 DEF OwnOK, LabelOK, CallRecords
    <3>3. \A i \in {1, 2}, content \in Contents :
             i <= Len(c.program) /\ Saw(c, i, content) => Saw(d, i, content)
      BY <1>1, <3>1 DEF Saw, Grows, Same
    <3>4. \A s \in Scopes : store'[s] \in d.seen[s]
      BY <2>2 DEF Watches
    <3>5. c.step = 2 => Len(c.program) = 2
      BY DEF OwnOK, PathOK
    <3>6. c.reply.value \in Contents /\ {"absent", "full"} \subseteq Contents
      BY DEF CallRecords, Replies, Contents
    <3> QED
      BY <1>1, <2>2, <3>2, <3>3, <3>4, <3>5, <3>6
      DEF OwnOK, PathOK, Same, Active, Now, Returned
  <2> QED
    BY <2>1, <2>2
<1> QED
  BY <1>2, <1>3, <1>4 DEF OwnOK

LEMMA SetIfMatchKeepsOwn ==
  ASSUME TypeInv, NEW t \in Threads, OwnOK(t), SetIfMatch(t)
  PROVE  OwnOK(t)'
<1>1. /\ Kept(call'[t], call[t]) /\ call'[t].seen = call[t].seen
      /\ call'[t].applied = call[t].applied /\ call'[t].pc = "send"
      /\ call'[t].step = call[t].step
      /\ call'[t].attempt = call[t].attempt /\ call'[t].swallowed = call[t].swallowed
  BY SetIfMatchEffect DEF Moves
<1>2. /\ call[t].pc = "next" /\ NeedsIfMatch(Now(call[t]))
      /\ client' = client /\ store' = store
  BY DEF SetIfMatch
<1>3. LabelOK(call[t])'
  BY <1>1, <1>2 DEF OwnOK, LabelOK, Kept, Active, NeedsIfMatch, Now
<1>4. EffectsOK(call[t])'
  BY <1>1, <1>2 DEF OwnOK, EffectsOK, Kept, Active, Write
<1>5. PathOK(call[t])'
  BY <1>1, <1>2 DEF OwnOK, PathOK, Kept, Active, Saw, Now, Returned
<1> QED
  BY <1>3, <1>4, <1>5 DEF OwnOK

LEMMA SendRequestKeepsOwn ==
  ASSUME TypeInv, NEW t \in Threads, OwnOK(t), SendRequest(t)
  PROVE  OwnOK(t)'
<1>1. /\ Kept(call'[t], call[t]) /\ call'[t].seen = call[t].seen
      /\ call'[t].applied = call[t].applied /\ call'[t].pc = "sent"
      /\ call'[t].step = call[t].step
      /\ call'[t].attempt = call[t].attempt + 1 /\ call'[t].swallowed = call[t].swallowed
  BY SendRequestEffect DEF Moves
<1>2. call[t].pc \in {"next", "send"} /\ client' = client /\ store' = store
  BY DEF SendRequest
<1>3. call[t].attempt \in Nat
  BY DEF TypeInv, CallRecords
<1>4. LabelOK(call[t])'
  BY <1>1, <1>2, <1>3 DEF OwnOK, LabelOK, Kept, Active, NeedsIfMatch, Now
<1>5. EffectsOK(call[t])'
  BY <1>1, <1>2 DEF OwnOK, EffectsOK, Kept, Active, Write
<1>6. PathOK(call[t])'
  BY <1>1, <1>2 DEF OwnOK, PathOK, Kept, Active, Saw, Now, Returned
<1> QED
  BY <1>4, <1>5, <1>6 DEF OwnOK

LEMMA ResendKeepsOwn ==
  ASSUME TypeInv, NEW t \in Threads, OwnOK(t), Resend(t)
  PROVE  OwnOK(t)'
<1>1. /\ Kept(call'[t], call[t]) /\ call'[t].seen = call[t].seen
      /\ call'[t].applied = call[t].applied /\ call'[t].pc = "next"
      /\ call'[t].step = call[t].step
      /\ call'[t].attempt = call[t].attempt /\ call'[t].swallowed = call[t].swallowed
  BY ResendEffect DEF Moves
<1>2. /\ call[t].pc = "answered" /\ client' = client /\ store' = store
      /\ call[t].reply.status = 401 /\ call[t].attempt = 1
  BY DEF Resend, Again
<1>3. LabelOK(call[t])'
  BY <1>1, <1>2 DEF OwnOK, LabelOK, Kept, Active, NeedsIfMatch, Now
<1>4. EffectsOK(call[t])'
  BY <1>1, <1>2 DEF OwnOK, EffectsOK, Kept, Active, Write
<1>5. PathOK(call[t])'
  BY <1>1, <1>2 DEF OwnOK, PathOK, Kept, Active, Saw, Now, Returned
<1> QED
  BY <1>3, <1>4, <1>5 DEF OwnOK

LEMMA FailKeepsOwn ==
  ASSUME TypeInv, NEW t \in Threads, OwnOK(t), Fail(t)
  PROVE  OwnOK(t)'
<1>1. /\ Kept(call'[t], call[t]) /\ call'[t].seen = call[t].seen
      /\ call'[t].applied = call[t].applied /\ call'[t].pc = "returned"
      /\ call'[t].step = call[t].step /\ call'[t].answer = "raised"
      /\ call'[t].attempt = 0 /\ call'[t].swallowed = call[t].swallowed
  BY FailEffect DEF Moves
<1>2. client' = client /\ store' = store
  BY DEF Fail
<1>3. LabelOK(call[t])'
  BY <1>1, <1>2 DEF OwnOK, LabelOK, Kept, Active, NeedsIfMatch, Now
<1>4. EffectsOK(call[t])'
  BY <1>1, <1>2 DEF OwnOK, EffectsOK, Kept, Active, Write
<1>5. PathOK(call[t])'
  BY <1>1, <1>2 DEF OwnOK, PathOK, Kept, Active, Saw, Now, Returned, Contents
<1> QED
  BY <1>3, <1>4, <1>5 DEF OwnOK

LEMMA ServeKeepsOwn ==
  ASSUME TypeInv, NEW t \in Threads, OwnOK(t), Serve(t)
  PROVE  OwnOK(t)'
<1> DEFINE c == call[t]
           d == call'[t]
           s == Now(c).scope
           w == Now(c).kind \in Writes
<1>1. PICK status \in Statuses, executed \in BOOLEAN :
         Answer(t, status, executed) /\ ServedAs(t, status, executed)
  BY ServeAnswers
<1>2. c \in CallRecords /\ c.pc = "sent" /\ client' = client /\ Active(c)
  BY ServeAnswers DEF TypeInv, Active
<1>3. c.step <= Len(c.program) /\ c.step \in {1, 2} /\ c.attempt \in {1, 2}
  BY <1>2 DEF OwnOK, LabelOK, CallRecords
<1>4. /\ Kept(d, c) /\ Grows(d, c)
      /\ d.pc = "answered" /\ d.step = c.step /\ d.attempt = c.attempt
      /\ d.swallowed = c.swallowed
      /\ d.applied = c.applied + (IF executed /\ w THEN 1 ELSE 0)
      /\ d.reply.status = status
      /\ d.reply.value = IF executed THEN store[s] ELSE "absent"
      /\ \A x \in Scopes : store'[x] \in d.seen[x]
  BY <1>1, <1>2, <1>3, AnswerEffect
<1>5. /\ s \in Scopes /\ Now(c) = c.program[c.step]
  BY <1>2, <1>3, NowType DEF Now
<1>6. LabelOK(call[t])'
  BY <1>2, <1>3, <1>4 DEF OwnOK, LabelOK, Kept, Active, NeedsIfMatch, Now
<1>7. EffectsOK(call[t])'
  <2>1. \A i \in {1, 2} : Write(d, i) <=> Write(c, i)
    BY <1>4 DEF Write, Kept
  <2>2. w <=> Write(c, c.step)
    BY <1>3, <1>5 DEF Write
  <2>3. ~(Write(c, 1) /\ Write(c, 2))
    BY <1>2, OneWrite
  <2>4. c.applied \in Nat /\ c.applied <= 1
    BY <1>2 DEF OwnOK, EffectsOK, CallRecords
  <2>5. \A i \in {1, 2} : Write(c, i) =>
           /\ i >= c.step => c.applied = 0
           /\ i < c.step /\ ~c.swallowed => c.applied = 1
    BY <1>2, <1>3 DEF OwnOK, EffectsOK
  <2>6. (status = 200 => executed) /\ (status = 401 => ~executed)
    BY <1>1 DEF ServedAs
  <2> HIDE DEF w, s
  <2>7. d.applied = IF executed /\ w THEN c.applied + 1 ELSE c.applied
    BY <1>4, <2>4
  <2>8. w => c.applied = 0
    BY <1>3, <2>2, <2>5
  <2>9. \A i \in {1, 2} : Write(d, i) =>
              /\ i > d.step => d.applied = 0
              /\ i < d.step /\ ~d.swallowed => d.applied = 1
              /\ i = d.step => (status = 200 => d.applied = 1) /\ (status = 401 => d.applied = 0)
    BY <1>3, <1>4, <2>1, <2>2, <2>3, <2>5, <2>6, <2>7, <2>8
  <2>10. d.applied <= 1
    BY <2>4, <2>7, <2>8
  <2> QED
    BY <1>4, <2>9, <2>10 DEF EffectsOK, Active
<1>8. PathOK(call[t])'
  <2>1. c.step = 2 =>
          /\ Len(c.program) = 2
          /\ c.program[2].when = "if_nothing" => Saw(c, 1, "absent")
          /\ c.program[2].when = "if_clean" => Saw(c, 1, "full")
    BY DEF OwnOK, PathOK
  <2>2. \A x : \A i \in {1, 2} : i <= Len(c.program) /\ Saw(c, i, x) => Saw(d, i, x)
    BY <1>2, <1>4, TwoRequests DEF Saw, Grows, Kept
  <2>3. Saw(c, c.step, store[s])
    BY <1>2, <1>5 DEF OwnOK, PathOK, Saw
  <2>4. Saw(d, d.step, store[s])
    BY <1>3, <1>4, <2>2, <2>3
  <2>5. status = 200 =>
          /\ d.reply.value = store[s]
          /\ store[s] = "absent" => Now(c).kind \in Creates \cup {"list"}
    BY <1>1, <1>4 DEF ServedAs, CanDo
  <2>6. status = 404 => store[s] = "absent"
    BY <1>1 DEF ServedAs, CanDo
  <2>7. Now(d) = Now(c)
    BY <1>4 DEF Now, Kept
  <2>8. c.step = 2 =>
          /\ Len(d.program) = 2
          /\ d.program[2].when = "if_nothing" => Saw(d, 1, "absent")
          /\ d.program[2].when = "if_clean" => Saw(d, 1, "full")
    BY <1>4, <2>1, <2>2 DEF Kept
  <2> HIDE DEF s
  <2>9. /\ d.reply.status = 200 =>
              /\ Saw(d, d.step, d.reply.value)
              /\ d.reply.value = "absent" => Now(d).kind \in Creates \cup {"list"}
        /\ d.reply.status = 404 => Saw(d, d.step, "absent")
    BY <1>4, <2>4, <2>5, <2>6, <2>7
  <2>10. d.pc = "answered" /\ d.step = c.step /\ (\A x \in Scopes : store'[x] \in d.seen[x])
    BY <1>4
  <2> HIDE DEF c, d
  <2> QED
    BY <2>8, <2>9, <2>10 DEF PathOK, Returned, d
<1> QED
  BY <1>6, <1>7, <1>8 DEF OwnOK

\* what the result of an accepted answer says
LEMMA ResultMeaning ==
  ASSUME NEW c \in CallRecords, PathOK(c), c.pc = "answered", Missing(c) \/ Accepted(c)
  PROVE  /\ ResultOf(c) \notin {"raised", "local", "none"}
         /\ ResultOf(c) \in Contents => Saw(c, c.step, ResultOf(c))
         /\ ResultOf(c) = "nothing" =>
               /\ Saw(c, c.step, "absent")
               /\ Now(c).kind \in {"find", "find_list", "list"}
         /\ ~Swallows(c) /\ Now(c).kind \in Writes => c.reply.status = 200
         /\ Swallows(c) /\ ~c.swallowed => client = "agent_memory"
<1>1. /\ c.reply.status = 200 =>
            /\ Saw(c, c.step, c.reply.value)
            /\ c.reply.value = "absent" => Now(c).kind \in Creates \cup {"list"}
      /\ c.reply.status = 404 => Saw(c, c.step, "absent")
  BY DEF PathOK
<1>2. Missing(c) => c.reply.status = 404 /\ Now(c).kind \in {"find", "find_list"}
  BY DEF Missing
<1>3. c.reply.value \in Contents
  BY DEF CallRecords, Replies
<1>4. CASE Missing(c)
  <2>1. ResultOf(c) = "nothing"
    BY <1>4 DEF ResultOf
  <2> QED
    BY <1>1, <1>2, <1>4, <2>1 DEF Contents, Writes, Creates, Swallows
<1>5. CASE ~Missing(c) /\ c.reply.status # 200
  <2>1. ResultOf(c) = "blank"
    BY <1>5 DEF ResultOf
  <2> QED
    BY <1>5, <2>1 DEF Contents, Swallows, Accepted
<1>6. CASE ~Missing(c) /\ c.reply.status = 200 /\ Now(c).kind \in Writes
  <2>1. ResultOf(c) = "done"
    BY <1>6 DEF ResultOf
  <2> QED
    BY <1>6, <2>1 DEF Contents, Swallows
<1>7. CASE ~Missing(c) /\ c.reply.status = 200 /\ Now(c).kind \notin Writes
  <2>1. ResultOf(c) = IF c.reply.value = "absent" THEN "nothing" ELSE c.reply.value
    BY <1>7 DEF ResultOf
  <2> QED
    BY <1>1, <1>3, <1>7, <2>1 DEF Contents, Swallows, Writes
<1> QED
  BY <1>4, <1>5, <1>6, <1>7

LEMMA ProceedKeepsOwn ==
  ASSUME TypeInv, NEW t \in Threads, OwnOK(t), Proceed(t)
  PROVE  OwnOK(t)'
<1> DEFINE c == call[t]
           d == call'[t]
           last == c.step = Len(c.program)
           when == c.program[c.step + 1].when
           result == ResultOf(c)
<1>1. /\ c \in CallRecords /\ c.pc = "answered" /\ Active(c)
      /\ (Missing(c) \/ Accepted(c)) /\ client' = client /\ store' = store
  BY DEF Proceed, TypeInv, Active
<1>2. c.step <= Len(c.program) /\ c.step \in {1, 2}
  BY <1>1 DEF OwnOK, LabelOK, CallRecords
<1>3. /\ Kept(d, c) /\ d.seen = c.seen /\ d.applied = c.applied
      /\ d.swallowed = Swallows(c) /\ d.attempt = 0
      /\ ~last => c.step = 1 /\ Len(c.program) = 2 /\ c.program[2] \in Request
      /\ \/ /\ d.pc = "next" /\ d.step = 2 /\ ~last
            /\ when = "if_nothing" => result = "nothing"
            /\ when = "if_clean" => result = "full"
         \/ /\ d.pc = "returned" /\ d.step = c.step /\ d.answer = result
            /\ last \/ (when = "if_nothing" /\ result # "nothing")
         \/ /\ d.pc = "returned" /\ d.step = c.step /\ d.answer = "raised"
            /\ ~last /\ when = "if_clean" /\ result # "full"
  BY <1>2, ProceedEffect DEF Moves
<1>4. /\ result \notin {"raised", "local", "none"}
      /\ result \in Contents => Saw(c, c.step, result)
      /\ result = "nothing" =>
            Saw(c, c.step, "absent") /\ Now(c).kind \in {"find", "find_list", "list"}
      /\ ~Swallows(c) /\ Now(c).kind \in Writes => c.reply.status = 200
      /\ Swallows(c) /\ ~c.swallowed => client = "agent_memory"
  BY <1>1, ResultMeaning DEF OwnOK
<1>5. /\ Len(c.program) \in Nat /\ Len(c.program) <= 2
      /\ Len(c.program) = 2 => Follows(c.program[1], c.program[2])
  BY <1>1, TwoRequests
<1>6. Now(c) = c.program[c.step]
  BY DEF Now
<1>7. LabelOK(call[t])'
  <2>1. /\ c.program \in Programs(client) \cup {NoRequest}
        /\ c.swallowed => client = "agent_memory"
    BY DEF OwnOK, LabelOK
  <2>2. d.pc \in {"next", "returned"} /\ (d.pc = "next" => d.step <= Len(d.program))
    BY <1>3 DEF Kept
  <2>3. d.swallowed => client = "agent_memory"
    BY <1>3, <1>4, <2>1
  <2>4. d.program = c.program /\ d.attempt = 0
    BY <1>3 DEF Kept
  <2> HIDE DEF c, d, last, when, result
  <2> QED
    BY <1>1, <2>1, <2>2, <2>3, <2>4 DEF LabelOK, Active, d
<1>8. EffectsOK(call[t])'
  <2>1. \A i \in {1, 2} : Write(d, i) <=> Write(c, i)
    BY <1>3 DEF Write, Kept
  <2>2. c.applied <= 1
    BY DEF OwnOK, EffectsOK
  <2>3. \A i \in {1, 2} : Write(c, i) =>
           /\ i > c.step => c.applied = 0
           /\ i < c.step /\ ~c.swallowed => c.applied = 1
           /\ i = c.step /\ c.reply.status = 200 => c.applied = 1
    BY <1>1 DEF OwnOK, EffectsOK
  <2>4. ~Swallows(c) => ~c.swallowed
    BY DEF Swallows
  <2>5. ASSUME NEW i \in {1, 2}, Write(c, i), i <= c.step, ~Swallows(c)
        PROVE  c.applied = 1
    <3>1. CASE i = c.step
      <4>1. Now(c).kind \in Writes
        BY <1>6, <2>5, <3>1 DEF Write
      <4> QED
        BY <1>4, <2>3, <2>5, <3>1, <4>1
    <3>2. CASE i < c.step
      BY <2>3, <2>4, <2>5, <3>2
    <3> QED
      BY <1>2, <2>5, <3>1, <3>2
  <2>6. CASE d.pc = "next" /\ d.step = 2 /\ ~last
    <3>1. \A i \in {1, 2} : Write(d, i) =>
              /\ ~(i > d.step)
              /\ i < d.step /\ ~d.swallowed => d.applied = 1
              /\ i = d.step => d.applied = 0
      <4>1. c.step = 1
        BY <1>3, <2>6
      <4>2. Write(d, 1) /\ ~d.swallowed => d.applied = 1
        BY <1>3, <2>1, <2>5, <4>1
      <4>3. Write(d, 2) => d.applied = 0
        BY <1>3, <2>1, <2>3, <4>1
      <4> QED
        BY <2>6, <4>2, <4>3
    <3>2. d.applied <= 1 /\ d.pc = "next"
      BY <1>3, <2>2, <2>6
    <3> HIDE DEF d
    <3> QED
      BY <3>1, <3>2 DEF EffectsOK, d
  <2>7. CASE d.pc = "returned" /\ d.answer = "raised"
    BY <1>3, <2>2, <2>7 DEF EffectsOK, Active
  <2>8. CASE /\ d.pc = "returned"
             /\ last \/ (~last /\ when = "if_nothing")
    <3>1. ASSUME NEW i \in {1, 2}, Write(c, i), ~Swallows(c)
          PROVE  c.applied = 1
      <4>1. CASE i <= c.step
        BY <2>5, <3>1, <4>1
      <4>2. CASE i > c.step /\ last
        <5>1. ~(i <= Len(c.program))
          BY <1>2, <1>5, <4>2
        <5> QED
          BY <3>1, <5>1 DEF Write
      <4>3. CASE i > c.step /\ ~last
        <5>1. c.step = 1 /\ Len(c.program) = 2 /\ when = c.program[2].when /\ i = 2
          BY <1>3, <3>1, <4>3
        <5>2. c.program[2].kind \in {"find", "find_list"}
          BY <1>5, <2>8, <4>3, <5>1 DEF Follows
        <5> QED
          BY <3>1, <5>1, <5>2 DEF Write, Writes, Creates
      <4> QED
        BY <1>2, <4>1, <4>2, <4>3
    <3>2. \A i \in {1, 2} : Write(d, i) /\ ~d.swallowed => d.applied = 1
      BY <1>3, <2>1, <3>1
    <3>3. d.applied <= 1 /\ d.pc = "returned"
      BY <1>3, <2>2, <2>8
    <3> HIDE DEF d
    <3> QED
      BY <3>2, <3>3 DEF EffectsOK, Active, d
  <2> QED
    BY <1>3, <2>6, <2>7, <2>8
<1>9. PathOK(call[t])'
  <2>1. \A i, x : Saw(d, i, x) <=> Saw(c, i, x)
    BY <1>3 DEF Saw, Kept
  <2>2. /\ c.step = 2 =>
             /\ Len(c.program) = 2
             /\ c.program[2].when = "if_nothing" => Saw(c, 1, "absent")
             /\ c.program[2].when = "if_clean" => Saw(c, 1, "full")
        /\ \A s \in Scopes : store[s] \in c.seen[s]
    BY <1>1 DEF OwnOK, PathOK
  <2>3. CASE d.pc = "next" /\ d.step = 2 /\ ~last
    <3>1. /\ Len(d.program) = 2 /\ c.step = 1 /\ when = c.program[2].when
          /\ d.program = c.program
      BY <1>3, <2>3 DEF Kept
    <3>2. /\ d.program[2].when = "if_nothing" => Saw(d, 1, "absent")
          /\ d.program[2].when = "if_clean" => Saw(d, 1, "full")
      BY <1>3, <1>4, <2>1, <2>3, <3>1 DEF Contents
    <3>3. \A s \in Scopes : store'[s] \in d.seen[s]
      BY <1>1, <1>3, <2>2
    <3>4. d.pc = "next"
      BY <2>3
    <3> HIDE DEF d
    <3> QED
      BY <3>1, <3>2, <3>3, <3>4 DEF PathOK, Returned, d
  <2>4. CASE d.pc = "returned" /\ d.step = c.step
    <3>1. d.step = 2 =>
             /\ Len(d.program) = 2
             /\ d.program[2].when = "if_nothing" => Saw(d, 1, "absent")
             /\ d.program[2].when = "if_clean" => Saw(d, 1, "full")
      BY <1>3, <2>1, <2>2, <2>4 DEF Kept
    <3>2. d.answer = result \/ d.answer = "raised"
      BY <1>3, <2>4
    <3>3. d.answer \in Contents => Saw(d, d.step, d.answer)
      BY <1>4, <2>1, <2>4, <3>2 DEF Contents
    <3>4. ASSUME d.answer = "nothing"
          PROVE  \A i \in 1 .. Len(d.program) : Saw(d, i, "absent")
      <4>1. result = "nothing"
        BY <3>2, <3>4
      <4>2. last
        BY <1>3, <2>4, <3>4, <4>1
      <4>3. Saw(c, c.step, "absent") /\ Now(c).kind \in {"find", "find_list", "list"}
        BY <1>4, <4>1
      <4>4. c.step = 2 => Saw(c, 1, "absent")
        <5>1. CASE c.step = 2
          <6>1. /\ Follows(c.program[1], c.program[2])
                /\ c.program[2].kind \in {"find", "find_list", "list"}
                /\ c.program[2].when \in Conditions
            BY <1>1, <1>5, <1>6, <2>2, <4>3, <5>1, TwoRequests
          <6>2. c.program[2].when = "if_nothing"
            BY <6>1 DEF Follows, Conditions
          <6> QED
            BY <2>2, <5>1, <6>2
        <5> QED
          BY <5>1
      <4>5. d.program = c.program
        BY <1>3 DEF Kept
      <4>6. \A i \in 1 .. Len(c.program) : i = c.step \/ (c.step = 2 /\ i = 1)
        <5> DEFINE n == Len(c.program)
        <5>1. n \in {1, 2} /\ c.step = n
          BY <1>2, <4>2
        <5> HIDE DEF n
        <5>2. \A i \in 1 .. n : i = c.step \/ (c.step = 2 /\ i = 1)
          BY <5>1
        <5> QED
          BY <5>2 DEF n
      <4> QED
        BY <2>1, <4>3, <4>4, <4>5, <4>6
    <3>5. d.pc = "returned"
      BY <2>4
    <3> HIDE DEF d
    <3> QED
      BY <3>1, <3>3, <3>4, <3>5 DEF PathOK, Returned, Active, d
  <2> QED
    BY <1>3, <2>3, <2>4
<1> QED
  BY <1>7, <1>8, <1>9 DEF OwnOK

LEMMA CallKeepsOwn ==
  ASSUME TypeInv, NEW t \in Threads, Call(t)
  PROVE  OwnOK(t)'
<1> DEFINE d == call'[t]
<1>1. PICK p \in Programs(client) :
         /\ p \in WellFormedPrograms /\ d \in CallRecords
         /\ d.program = p /\ d.step = 1 /\ d.attempt = 0
         /\ d.pc = (IF p = NoRequest THEN "returned" ELSE "next")
         /\ d.answer = (IF p = NoRequest THEN "local" ELSE "none")
         /\ d.applied = 0 /\ d.swallowed = FALSE
         /\ d.seen = [s \in Scopes |-> {store[s]}]
  BY CallEffect
<1>2. client' = client /\ store' = store
  BY DEF Call
<1>3. p # NoRequest => 1 <= Len(p)
  <2>1. p \in Seq(Request)
    BY <1>1 DEF WellFormedPrograms
  <2>2. Len(p) = 0 => p = <<>>
    BY <2>1
  <2>3. Len(p) \in Nat
    BY <2>1
  <2> QED
    BY <2>2, <2>3 DEF NoRequest
<1>4. \A s \in Scopes : store'[s] \in d.seen[s]
  BY <1>1, <1>2
<1> HIDE DEF d
<1>5. LabelOK(call[t])'
  BY <1>1, <1>2, <1>3 DEF LabelOK, Active, d
<1>6. EffectsOK(call[t])'
  BY <1>1, <1>3 DEF EffectsOK, Active, d, Write
<1>7. PathOK(call[t])'
  BY <1>1, <1>4 DEF PathOK, Active, Returned, Contents, d
<1> QED
  BY <1>5, <1>6, <1>7 DEF OwnOK

-----------------------------------------------------------------------------
(* The steps as a whole *)

LEMMA RunStep ==
  ASSUME TypeInv, NEW t \in Threads, OwnOK(t), Run(t)
  PROVE  /\ Active(call[t]) /\ Moves(t)
         /\ UNCHANGED <<client, store, calls, faults>>
         /\ TypeInv' /\ OwnOK(t)'
<1>1. Active(call[t]) /\ UNCHANGED <<client, store, calls, faults>>
  BY DEF Run, SetIfMatch, SendRequest, Resend, Fail, Proceed, Active
<1>2. stale' \in BOOLEAN /\ ifMatch' \in BOOLEAN
  <2>1. stale \in BOOLEAN /\ ifMatch \in BOOLEAN
    BY DEF TypeInv
  <2>2. PopIfMatch(t) => ifMatch' \in BOOLEAN
    BY Zenon DEF PopIfMatch
  <2>3. CASE SetIfMatch(t)
    BY <2>1, <2>3 DEF SetIfMatch
  <2>4. CASE SendRequest(t)
    BY <2>1, <2>4 DEF SendRequest
  <2>5. CASE Resend(t)
    BY <2>2, <2>5 DEF Resend
  <2>6. CASE Fail(t)
    BY <2>1, <2>2, <2>6 DEF Fail
  <2>7. CASE Proceed(t)
    BY <2>1, <2>2, <2>7 DEF Proceed
  <2> QED
    BY <2>3, <2>4, <2>5, <2>6, <2>7 DEF Run
<1>3. Moves(t) /\ OwnOK(t)'
  <2>1. call[t].step <= Len(call[t].program)
    BY <1>1 DEF OwnOK, LabelOK
  <2>2. CASE SetIfMatch(t)
    BY <2>2, SetIfMatchEffect, SetIfMatchKeepsOwn
  <2>3. CASE SendRequest(t)
    BY <2>3, SendRequestEffect, SendRequestKeepsOwn
  <2>4. CASE Resend(t)
    BY <2>4, ResendEffect, ResendKeepsOwn
  <2>5. CASE Fail(t)
    BY <2>5, FailEffect, FailKeepsOwn
  <2>6. CASE Proceed(t)
    BY <2>1, <2>6, ProceedEffect, ProceedKeepsOwn
  <2> QED
    BY <2>2, <2>3, <2>4, <2>5, <2>6 DEF Run
<1>4. TypeInv'
  BY <1>1, <1>2, <1>3 DEF TypeInv, Moves
<1> QED
  BY <1>1, <1>3, <1>4

\* how the events are counted
Counted == faults' = faults \/ (faults < MaxFaults /\ faults' = faults + 1)

LEMMA ServeStep ==
  ASSUME TypeInv, NEW t \in Threads, OwnOK(t), Serve(t)
  PROVE  /\ call[t].pc = "sent" /\ call'[t].pc = "answered"
         /\ Kept(call'[t], call[t]) /\ call'[t].step = call[t].step
         /\ \A u \in Threads \ {t} : Watches(u)
         /\ UNCHANGED <<client, stale, ifMatch, calls>> /\ Counted
         /\ TypeInv' /\ OwnOK(t)'
<1>1. PICK status \in Statuses, executed \in BOOLEAN :
         Answer(t, status, executed) /\ ServedAs(t, status, executed)
  BY ServeAnswers
<1>2. call[t].pc = "sent" /\ Active(call[t]) /\ UNCHANGED <<client, stale, ifMatch, calls>>
  BY ServeAnswers DEF Active
<1>3. call[t].step <= Len(call[t].program)
  BY <1>2 DEF OwnOK, LabelOK
<1>4. /\ store' \in [Scopes -> Contents] /\ call' \in [Threads -> CallRecords]
      /\ Kept(call'[t], call[t])
      /\ call'[t].pc = "answered" /\ call'[t].step = call[t].step
      /\ \A u \in Threads \ {t} : Watches(u)
  BY <1>1, <1>2, <1>3, AnswerEffect
<1>5. Counted
  BY <1>1 DEF ServedAs, Counted
<1>6. faults' \in 0..MaxFaults
  BY <1>5, CallBounds DEF Counted, TypeInv
<1>7. TypeInv'
  BY <1>2, <1>4, <1>6 DEF TypeInv
<1> QED
  BY <1>2, <1>4, <1>5, <1>7, ServeKeepsOwn

LEMMA CallStep ==
  ASSUME TypeInv, NEW t \in Threads, Call(t)
  PROVE  /\ ~Active(call[t])
         /\ \A u \in Threads \ {t} : call'[u] = call[u]
         /\ UNCHANGED <<client, store, stale, ifMatch, faults>> /\ calls' = calls + 1
         /\ TypeInv' /\ OwnOK(t)'
<1>1. /\ call' \in [Threads -> CallRecords]
      /\ \A u \in Threads \ {t} : call'[u] = call[u]
  BY CallEffect
<1>2. /\ UNCHANGED <<client, store, stale, ifMatch, faults>> /\ calls' = calls + 1
      /\ calls < MaxCalls /\ ~Active(call[t])
  BY DEF Call
<1>3. calls' \in 0..MaxCalls
  BY <1>2, CallBounds DEF TypeInv
<1>4. TypeInv'
  BY <1>1, <1>2, <1>3 DEF TypeInv
<1> QED
  BY <1>1, <1>2, <1>4, CallKeepsOwn

LEMMA OthersStep ==
  ASSUME TypeInv, OthersChange
  PROVE  /\ \A u \in Threads : Watches(u)
         /\ UNCHANGED <<client, stale, ifMatch, calls>> /\ faults' = faults + 1
         /\ TypeInv'
<1>1. /\ UNCHANGED <<client, stale, ifMatch, calls>> /\ faults' = faults + 1
      /\ faults < MaxFaults
  BY DEF OthersChange
<1>2. store' \in [Scopes -> Contents]
  <2>1. PICK s \in UsedScopes,
             new \in {"absent", "full"} \cup IF client = "adms" THEN {"pending"} ELSE {} :
           store' = [store EXCEPT ![s] = new]
    BY DEF OthersChange
  <2>2. new \in Contents
    BY DEF Contents
  <2> QED
    BY <2>1, <2>2 DEF TypeInv
<1>3. call' = [u \in Threads |-> Watch(call[u], store')]
  BY DEF OthersChange
<1>4. ASSUME NEW u \in Threads
      PROVE  call'[u] \in CallRecords /\ Watches(u)
  <2>1. call[u] \in CallRecords /\ call'[u] = Watch(call[u], store')
    BY <1>3 DEF TypeInv
  <2> QED
    BY <1>2, <2>1, WatchEffect DEF Watches
<1>5. call' \in [Threads -> CallRecords]
  BY <1>3, <1>4
<1>6. faults' \in 0..MaxFaults
  BY <1>1, CallBounds DEF TypeInv
<1> QED
  BY <1>1, <1>2, <1>4, <1>5, <1>6 DEF TypeInv

LEMMA RevokeStep ==
  ASSUME TypeInv, Revoke
  PROVE  /\ UNCHANGED <<client, store, ifMatch, call, calls>> /\ faults' = faults + 1
         /\ TypeInv'
<1>1. /\ UNCHANGED <<client, store, ifMatch, call, calls>> /\ faults' = faults + 1
      /\ stale' = TRUE /\ faults < MaxFaults
  BY DEF Revoke
<1>2. faults' \in 0..MaxFaults
  BY <1>1, CallBounds DEF TypeInv
<1> QED
  BY <1>1, <1>2 DEF TypeInv

\* a thread that stands still while the store does so too
LEMMA StandsStill ==
  ASSUME NEW u \in Threads, PathOK(call[u]), call'[u] = call[u], store' = store
  PROVE  Watches(u)
  BY DEF Watches, Same, Grows, PathOK

LEMMA OwnPreserved ==
  ASSUME TypeInv, \A u \in Threads : OwnOK(u), [Next]_vars
  PROVE  TypeInv' /\ \A u \in Threads : OwnOK(u)'
<1>1. ASSUME TypeInv', NEW u \in Threads, client' = client, Watches(u)
      PROVE  OwnOK(u)'
  BY <1>1, BystanderKeeps DEF TypeInv
<1>2. ASSUME TypeInv', NEW u \in Threads, client' = client, call'[u] = call[u], store' = store
      PROVE  OwnOK(u)'
  BY <1>1, <1>2, StandsStill DEF OwnOK
<1>3. ASSUME NEW t \in Threads, Call(t)
      PROVE  TypeInv' /\ \A u \in Threads : OwnOK(u)'
  BY <1>2, <1>3, CallStep
<1>4. ASSUME NEW t \in Threads, Run(t)
      PROVE  TypeInv' /\ \A u \in Threads : OwnOK(u)'
  BY <1>2, <1>4, RunStep DEF Moves
<1>5. ASSUME NEW t \in Threads, Serve(t)
      PROVE  TypeInv' /\ \A u \in Threads : OwnOK(u)'
  BY <1>1, <1>5, ServeStep
<1>6. CASE OthersChange
  BY <1>1, <1>6, OthersStep
<1>7. CASE Revoke
  BY <1>2, <1>7, RevokeStep
<1>8. CASE UNCHANGED vars
  <2>1. TypeInv' /\ client' = client /\ call' = call /\ store' = store
    BY <1>8 DEF vars, TypeInv
  <2> QED
    BY <1>2, <2>1
<1> QED
  BY <1>3, <1>4, <1>5, <1>6, <1>7, <1>8 DEF Next

LEMMA InitOwn == Init => \A u \in Threads : OwnOK(u)
<1> SUFFICES ASSUME Init, NEW u \in Threads PROVE OwnOK(u)
  OBVIOUS
<1> DEFINE c == call[u]
<1>1. c = Started(NoRequest)
  BY DEF Init
<1>2. /\ c.pc = "returned" /\ c.program = NoRequest /\ c.step = 1 /\ c.attempt = 0
      /\ c.answer = "local" /\ c.applied = 0 /\ c.swallowed = FALSE
  BY <1>1 DEF Started
<1>3. Len(NoRequest) = 0
  BY DEF NoRequest
<1> HIDE DEF c
<1> QED
  BY <1>2, <1>3 DEF OwnOK, LabelOK, EffectsOK, PathOK, Active, Returned, Contents, c

LEMMA HeaderPreserved ==
  ASSUME TypeInv, \A u \in Threads : OwnOK(u), HeaderHeld, [Next]_vars
  PROVE  HeaderHeld'
<1> SUFFICES ASSUME ifMatch' PROVE \E u \in Threads : Holds(call[u])'
  BY DEF HeaderHeld
<1>1. ASSUME NEW w \in Threads, Holds(call[w]), client' = client,
             call'[w].pc \in {"send", "sent", "answered"},
             call'[w].program = call[w].program, call'[w].step = call[w].step
      PROVE  Holds(call[w])'
  BY <1>1 DEF Holds, NeedsIfMatch, Now
<1>2. ASSUME NEW w \in Threads, Holds(call[w]), client' = client,
             call'[w] = call[w] \/ Watches(w)
      PROVE  Holds(call[w])'
  BY <1>2 DEF Holds, NeedsIfMatch, Now, Watches, Same
<1>3. ASSUME ifMatch
      PROVE  \E w \in Threads : Holds(call[w])
  BY <1>3 DEF HeaderHeld
<1>4. ASSUME NEW t \in Threads, Call(t)
      PROVE  \E u \in Threads : Holds(call[u])'
  <2>1. ifMatch /\ client' = client /\ ~Active(call[t])
    BY <1>4, CallStep
  <2>2. PICK w \in Threads : Holds(call[w])
    BY <1>3, <2>1
  <2>3. w # t
    BY <2>1, <2>2 DEF Holds, Active
  <2>4. call'[w] = call[w]
    BY <1>4, <2>3, CallStep
  <2> QED
    BY <1>2, <2>1, <2>2, <2>4
<1>5. ASSUME NEW t \in Threads, SetIfMatch(t)
      PROVE  \E u \in Threads : Holds(call[u])'
  <2>1. NeedsIfMatch(Now(call[t])) /\ client' = client
    BY <1>5 DEF SetIfMatch
  <2>2. call'[t].pc = "send" /\ call'[t].step = call[t].step /\ call'[t].program = call[t].program
    BY <1>5, SetIfMatchEffect DEF Moves, Kept
  <2> QED
    BY <2>1, <2>2 DEF Holds, NeedsIfMatch, Now
<1>6. ASSUME NEW t \in Threads, SendRequest(t)
      PROVE  \E u \in Threads : Holds(call[u])'
  <2>1. ifMatch /\ client' = client
    BY <1>6 DEF SendRequest
  <2>2. PICK w \in Threads : Holds(call[w])
    BY <1>3, <2>1
  <2>3. /\ call'[t].pc = "sent" /\ call'[t].step = call[t].step
        /\ call'[t].program = call[t].program
        /\ \A u \in Threads \ {t} : call'[u] = call[u]
    BY <1>6, SendRequestEffect DEF Moves, Kept
  <2>4. CASE w = t
    BY <1>1, <2>1, <2>2, <2>3, <2>4
  <2>5. CASE w # t
    BY <1>2, <2>1, <2>2, <2>3, <2>5
  <2> QED
    BY <2>4, <2>5
<1>7. ASSUME NEW t \in Threads, Resend(t) \/ Fail(t) \/ Proceed(t)
      PROVE  \E u \in Threads : Holds(call[u])'
  <2>1. PopIfMatch(t)
    BY <1>7 DEF Resend, Fail, Proceed
  <2>2. ifMatch /\ ~NeedsIfMatch(Now(call[t]))
    BY <2>1 DEF PopIfMatch
  <2>3. PICK w \in Threads : Holds(call[w])
    BY <1>3, <2>2
  <2>4. w # t
    BY <2>2, <2>3 DEF Holds
  <2>5. client' = client /\ call'[w] = call[w]
    BY <1>7, <2>4, RunStep DEF Moves, Run
  <2> QED
    BY <1>2, <2>3, <2>5
<1>8. ASSUME NEW t \in Threads, Serve(t)
      PROVE  \E u \in Threads : Holds(call[u])'
  <2>1. /\ call'[t].pc = "answered" /\ call'[t].step = call[t].step
        /\ call'[t].program = call[t].program
        /\ ifMatch /\ client' = client /\ \A u \in Threads \ {t} : Watches(u)
    BY <1>8, ServeStep DEF Kept
  <2>2. PICK w \in Threads : Holds(call[w])
    BY <1>3, <2>1
  <2>3. CASE w = t
    BY <1>1, <2>1, <2>2, <2>3
  <2>4. CASE w # t
    BY <1>2, <2>1, <2>2, <2>4
  <2> QED
    BY <2>3, <2>4
<1>9. CASE OthersChange
  <2>1. PICK w \in Threads : Holds(call[w])
    BY <1>3, <1>9, OthersStep
  <2> QED
    BY <1>2, <1>9, <2>1, OthersStep
<1>10. CASE Revoke
  <2>1. PICK w \in Threads : Holds(call[w])
    BY <1>3, <1>10, RevokeStep
  <2> QED
    BY <1>2, <1>10, <2>1, RevokeStep
<1>11. CASE UNCHANGED vars
  <2>1. ifMatch /\ client' = client /\ call' = call
    BY <1>11 DEF vars
  <2>2. PICK w \in Threads : Holds(call[w])
    BY <1>3, <2>1
  <2> QED
    BY <1>2, <2>1, <2>2
<1> QED
  BY <1>4, <1>5, <1>6, <1>7, <1>8, <1>9, <1>10, <1>11 DEF Next, Run

-----------------------------------------------------------------------------
(* A call that nothing disturbs *)

LEMMA LoneSetIfMatch ==
  ASSUME TypeInv, NEW t \in Threads, OwnOK(t), LoneOK(call[t]), SetIfMatch(t)
  PROVE  LoneOK(call[t])'
<1>1. /\ Kept(call'[t], call[t]) /\ call'[t].pc = "send"
      /\ call'[t].step = call[t].step /\ call'[t].attempt = call[t].attempt
  BY SetIfMatchEffect DEF Moves
<1>2. call[t].pc = "next" /\ UNCHANGED <<client, store, stale>> /\ ifMatch' = TRUE
  BY DEF SetIfMatch
<1> QED
  BY <1>1, <1>2 DEF LoneOK, Kept, Active, Returned

LEMMA LoneSendRequest ==
  ASSUME TypeInv, NEW t \in Threads, OwnOK(t), LoneOK(call[t]), SendRequest(t)
  PROVE  LoneOK(call[t])'
<1>1. /\ Kept(call'[t], call[t]) /\ call'[t].pc = "sent"
      /\ call'[t].step = call[t].step /\ call'[t].header = ifMatch
      /\ call'[t].attempt = call[t].attempt + 1 /\ call[t].attempt \in Nat
  BY SendRequestEffect DEF Moves, TypeInv, CallRecords
<1>2. call[t].pc \in {"next", "send"} /\ UNCHANGED <<client, store, stale, ifMatch>>
  BY DEF SendRequest
<1>3. ifMatch = NeedsIfMatch(Now(call[t]))
  <2>1. CASE call[t].pc = "send"
    <3>1. ifMatch = TRUE /\ NeedsIfMatch(Now(call[t])) = TRUE
      BY <2>1 DEF LoneOK, Active, OwnOK, LabelOK, TypeInv, NeedsIfMatch
    <3> QED
      BY <3>1
  <2>2. CASE call[t].pc = "next"
    <3>1. ifMatch = FALSE /\ NeedsIfMatch(Now(call[t])) = FALSE
      BY <2>2 DEF LoneOK, Active, SendRequest, TypeInv, NeedsIfMatch
    <3> QED
      BY <3>1
  <2> QED
    BY <1>2, <2>1, <2>2
<1>4. call'[t].attempt = 2 => ~stale
  BY <1>1, <1>2 DEF LoneOK, Active
<1> QED
  BY <1>1, <1>2, <1>3, <1>4
  DEF LoneOK, Kept, Active, Returned, NeedsIfMatch, Now

LEMMA LoneResend ==
  ASSUME TypeInv, NEW t \in Threads, OwnOK(t), LoneOK(call[t]), Resend(t)
  PROVE  LoneOK(call[t])'
<1>1. /\ Kept(call'[t], call[t]) /\ call'[t].pc = "next"
      /\ call'[t].step = call[t].step /\ call'[t].attempt = call[t].attempt
  BY ResendEffect DEF Moves
<1>2. /\ call[t].pc = "answered" /\ call[t].reply.status = 401
      /\ UNCHANGED <<client, store>> /\ stale' = FALSE
      /\ ifMatch' = (ifMatch /\ ~NeedsIfMatch(Now(call[t])))
  BY DEF Resend, Again, PopIfMatch
<1>3. ~ifMatch'
  BY <1>2 DEF LoneOK
<1> QED
  BY <1>1, <1>2, <1>3 DEF LoneOK, Kept, Active, Returned

LEMMA LoneNeverFails ==
  ASSUME TypeInv, NEW t \in Threads, LoneOK(call[t]), Fail(t)
  PROVE  FALSE
BY DEF Fail, LoneOK, Again, Missing, Accepted

LEMMA LoneProceed ==
  ASSUME TypeInv, NEW t \in Threads, OwnOK(t), LoneOK(call[t]), Proceed(t)
  PROVE  LoneOK(call[t])'
<1> DEFINE c == call[t]
           d == call'[t]
           last == c.step = Len(c.program)
           when == c.program[c.step + 1].when
           result == ResultOf(c)
<1>1. /\ c \in CallRecords /\ c.pc = "answered" /\ Active(c) /\ ~Again(c)
      /\ (Missing(c) \/ Accepted(c)) /\ UNCHANGED <<client, store, stale>>
      /\ ifMatch' = (ifMatch /\ ~NeedsIfMatch(Now(c)))
  BY DEF Proceed, TypeInv, Active, PopIfMatch
<1>2. c.step <= Len(c.program) /\ c.step \in {1, 2}
  BY <1>1 DEF OwnOK, LabelOK, CallRecords
<1>3. /\ Kept(d, c) /\ d.attempt = 0
      /\ ~last => c.step = 1 /\ Len(c.program) = 2 /\ c.program[2] \in Request
      /\ \/ d.pc = "next" /\ d.step = 2 /\ ~last
         \/ d.pc = "returned" /\ d.answer = result
         \/ /\ d.pc = "returned" /\ d.answer = "raised"
            /\ ~last /\ when = "if_clean" /\ result # "full"
  BY <1>2, ProceedEffect DEF Moves
<1>4. result # "raised"
  BY <1>1, ResultMeaning DEF OwnOK
<1>5. c.reply.status \in {200, 404}
  BY <1>1 DEF LoneOK, Again
<1>6. ~last /\ when = "if_clean" => result = "full"
  <2> SUFFICES ASSUME ~last, when = "if_clean" PROVE result = "full"
    OBVIOUS
  <2>1. c.step = 1 /\ Len(c.program) = 2 /\ when = c.program[2].when
    BY <1>3
  <2>2. Now(c).kind = "get"
    BY <1>1, <2>1, TwoRequests DEF Follows, Now
  <2>3. c.reply.status = 200
    BY <1>1, <1>5, <2>2 DEF LoneOK
  <2>4. c.reply.value = "full"
    <3>1. Len(c.program) > c.step /\ c.program[c.step + 1].when = "if_clean"
      BY <2>1
    <3> QED
      BY <1>1, <2>3, <3>1 DEF LoneOK
  <2> QED
    BY <2>2, <2>3, <2>4 DEF ResultOf, Missing, Writes, Creates
<1>7. ~ifMatch'
  BY <1>1 DEF LoneOK
<1>8. CASE d.pc = "next" /\ d.step = 2 /\ ~last
  <2>1. c.step = 1 /\ Len(c.program) = 2 /\ d.program = c.program
    BY <1>3, <1>8 DEF Kept
  <2>2. Possible(store', d.program[2])
    BY <1>1, <2>1 DEF LoneOK
  <2>3. stale' => client' # "dpi_ng"
    BY <1>1 DEF LoneOK
  <2>4. d.pc = "next" /\ d.step = 2 /\ d.attempt = 0
    BY <1>3, <1>8
  <2>5. \A i \in {1, 2} : ~(i > d.step) /\ (i = d.step => i = 2)
    BY <2>4
  <2> HIDE DEF c, d
  <2> QED
    BY <1>7, <2>2, <2>3, <2>4, <2>5 DEF LoneOK, Returned, Active, d
<1>9. CASE d.pc = "returned"
  <2>1. d.answer # "raised"
    BY <1>3, <1>4, <1>6, <1>9
  <2> HIDE DEF d
  <2> QED
    BY <1>9, <2>1 DEF LoneOK, Returned, Active, d
<1> QED
  BY <1>3, <1>8, <1>9

LEMMA LoneServe ==
  ASSUME TypeInv, NEW t \in Threads, OwnOK(t), LoneOK(call[t]), Serve(t), faults' = faults
  PROVE  LoneOK(call[t])'
<1> DEFINE c == call[t]
           d == call'[t]
           s == Now(c).scope
           can == CanDo(Now(c).kind, store[s])
<1>1. PICK status \in Statuses, executed \in BOOLEAN :
         Answer(t, status, executed) /\ ServedAs(t, status, executed)
  BY ServeAnswers
<1>2. /\ c \in CallRecords /\ c.pc = "sent" /\ Active(c)
      /\ UNCHANGED <<client, stale, ifMatch, calls>>
  BY ServeAnswers DEF TypeInv, Active
<1>3. c.step <= Len(c.program) /\ c.step \in {1, 2} /\ c.attempt \in {1, 2}
  BY <1>2 DEF OwnOK, LabelOK, CallRecords
<1>4. /\ store' = IF executed THEN [store EXCEPT ![s] = Stored(c, @)] ELSE store
      /\ Kept(d, c) /\ d.pc = "answered" /\ d.step = c.step /\ d.attempt = c.attempt
      /\ d.header = c.header /\ d.reply.status = status
      /\ d.reply.value = IF executed THEN store[s] ELSE "absent"
  BY <1>1, <1>2, <1>3, AnswerEffect
<1>5. Now(c) = c.program[c.step] /\ Now(c) \in Request /\ s \in Scopes
  BY <1>2, <1>3, NowType DEF Now
<1>6. Now(c).kind \in {"find", "find_list"} \/ can
  BY <1>2, <1>3, <1>5 DEF LoneOK, Possible
<1>7. /\ stale => client # "dpi_ng"
      /\ c.attempt = 2 => ~stale
      /\ ifMatch = NeedsIfMatch(Now(c)) /\ c.header = ifMatch
  BY <1>2 DEF LoneOK
<1>8. MaxFaults \in Nat /\ faults \in Nat
  BY CallBounds DEF TypeInv
<1>9. status # 500 /\ status # 428
  BY <1>1, <1>7, <1>8 DEF ServedAs
<1>10. status \in {200, 401, 404}
  <2>1. status # 409
    <3>1. status = 409 => ~can /\ Now(c).kind \in Creates
      BY <1>1 DEF ServedAs
    <3> HIDE DEF can
    <3> QED
      BY <1>6, <3>1 DEF Creates
  <2> QED
    BY <1>1, <1>9, <2>1 DEF ServedAs, Statuses
<1>11. status = 401 => c.attempt = 1 /\ SentAgain(Now(c)) /\ ~executed
  <2>1. status = 401 => stale /\ CarriesCredential(Now(c)) /\ ~executed
    BY <1>1 DEF ServedAs
  <2>2. client \in Clients
    BY DEF TypeInv
  <2> QED
    BY <1>3, <1>7, <2>1, <2>2 DEF CarriesCredential, SentAgain, Clients
<1>12. status = 404 => Now(c).kind \in {"find", "find_list"}
  <2>1. status = 404 => ~can
    BY <1>1 DEF ServedAs
  <2> HIDE DEF can
  <2> QED
    BY <1>6, <2>1
<1>13. /\ Len(c.program) \in Nat /\ Len(c.program) <= 2
       /\ Len(c.program) = 2 => Follows(c.program[1], c.program[2])
       /\ \A i \in {1, 2} : i <= Len(c.program) => c.program[i].scope \in Scopes
  BY <1>2, TwoRequests
\* the first of two requests changes nothing
<1>14. c.step = 1 /\ Len(c.program) = 2 => store' = store
  <2> SUFFICES ASSUME c.step = 1, Len(c.program) = 2 PROVE store' = store
    OBVIOUS
  <2>1. Now(c).kind \in {"find", "find_list", "get", "act"}
    BY <1>5, <1>13 DEF Follows
  <2>2. Stored(c, store[s]) = store[s]
    BY <2>1 DEF Stored, Streams, Creates
  <2> QED
    BY <1>4, <2>2 DEF TypeInv
<1>15. status = 401 => store' = store
  BY <1>4, <1>11
<1>16. \A i \in {1, 2} : i <= Len(d.program) =>
          /\ i > d.step \/ (i = d.step /\ status = 401) => Possible(store', d.program[i])
          /\ i > d.step /\ d.program[i].when = "if_clean" => store'[d.program[i].scope] = "full"
  <2> SUFFICES ASSUME NEW i \in {1, 2}, i <= Len(c.program)
               PROVE  /\ i > c.step \/ (i = c.step /\ status = 401) =>
                             Possible(store', c.program[i])
                      /\ i > c.step /\ c.program[i].when = "if_clean" =>
                             store'[c.program[i].scope] = "full"
    BY <1>4 DEF Kept
  <2>1. /\ i >= c.step => Possible(store, c.program[i])
        /\ i > c.step /\ c.program[i].when = "if_clean" => store[c.program[i].scope] = "full"
    BY <1>2, <1>3 DEF LoneOK
  <2>2. CASE i > c.step
    <3>1. c.step = 1 /\ Len(c.program) = 2
      <4> DEFINE n == Len(c.program)
      <4>1. n \in Nat /\ n <= 2 /\ i <= n /\ c.step \in {1, 2} /\ i > c.step
        BY <1>3, <1>13, <2>2
      <4> HIDE DEF n
      <4>2. n = 2 /\ c.step = 1
        BY <4>1
      <4> QED
        BY <4>2 DEF n
    <3> QED
      BY <1>14, <2>1, <2>2, <3>1
  <2>3. CASE i = c.step /\ status = 401
    BY <1>15, <2>1, <2>3
  <2> QED
    BY <2>2, <2>3
<1>17. status = 200 /\ Len(d.program) > d.step /\ d.program[d.step + 1].when = "if_clean" =>
           d.reply.value = "full"
  <2> SUFFICES ASSUME status = 200, Len(c.program) > c.step,
                      c.program[c.step + 1].when = "if_clean"
               PROVE  d.reply.value = "full"
    BY <1>4 DEF Kept
  <2>1. c.step = 1 /\ Len(c.program) = 2
    <3> DEFINE n == Len(c.program)
    <3>1. n \in Nat /\ n <= 2 /\ c.step \in {1, 2} /\ n > c.step
      BY <1>3, <1>13
    <3> HIDE DEF n
    <3>2. n = 2 /\ c.step = 1
      BY <3>1
    <3> QED
      BY <3>2 DEF n
  <2>2. Follows(c.program[1], c.program[2]) /\ c.program[2].when = "if_clean"
    BY <1>13, <2>1
  <2>3. store[c.program[2].scope] = "full"
    BY <1>2, <2>1, <2>2 DEF LoneOK
  <2>4. s = c.program[2].scope
    BY <1>5, <2>1, <2>2 DEF Follows
  <2>5. executed
    BY <1>1 DEF ServedAs
  <2> QED
    BY <1>4, <2>3, <2>4, <2>5
<1>18. /\ d.pc = "answered" /\ d.reply.status = status
       /\ stale' => client' # "dpi_ng"
       /\ d.attempt = 2 => ~stale'
       /\ status = 401 => d.attempt = 1
       /\ d.header = ifMatch'
  BY <1>2, <1>4, <1>7, <1>11
<1>19. Now(d) = Now(c)
  BY <1>4 DEF Now, Kept
<1>20. /\ ifMatch' = NeedsIfMatch(Now(d))
       /\ status = 401 => SentAgain(Now(d))
       /\ status = 404 => Now(d).kind \in {"find", "find_list"}
  BY <1>2, <1>7, <1>11, <1>12, <1>19
<1>21. /\ client' = client /\ ifMatch' = ifMatch
  BY <1>2
<1> HIDE DEF c, d, s, can
<1>22. ~Returned(d, {"raised"})
  BY <1>18 DEF Returned
<1>23. d.reply.status = 401 => d.attempt = 1 /\ SentAgain(Now(d))
  BY <1>18, <1>20
<1>24. /\ d.reply.status \in {200, 401, 404}
       /\ d.reply.status = 404 => Now(d).kind \in {"find", "find_list"}
       /\ d.reply.status = 200 /\ Len(d.program) > d.step
                /\ d.program[d.step + 1].when = "if_clean" => d.reply.value = "full"
  BY <1>10, <1>17, <1>18, <1>20
<1>25. \A i \in {1, 2} : i <= Len(d.program) =>
          /\ i > d.step \/ (i = d.step /\ (d.pc = "answered" => d.reply.status = 401)) =>
                Possible(store', d.program[i])
          /\ i > d.step /\ d.program[i].when = "if_clean" =>
                store'[d.program[i].scope] = "full"
  BY <1>16, <1>18
<1> QED
  BY <1>18, <1>20, <1>21, <1>22, <1>23, <1>24, <1>25
  DEF LoneOK, Returned, Active, NeedsIfMatch, SentAgain, Now, d

LEMMA LoneCall ==
  ASSUME TypeInv, HeaderHeld, NEW t \in Threads, Call(t), call'[t].feasible
  PROVE  LoneOK(call[t])' /\ \A u \in Threads : ~Active(call[u])
<1> DEFINE d == call'[t]
<1>1. PICK p \in Programs(client) :
         /\ p \in WellFormedPrograms /\ d \in CallRecords
         /\ d.program = p /\ d.step = 1 /\ d.attempt = 0
         /\ d.pc = (IF p = NoRequest THEN "returned" ELSE "next")
         /\ d.answer = (IF p = NoRequest THEN "local" ELSE "none")
         /\ d.feasible = Free(p)
  BY CallEffect DEF TypeInv
<1>2. UNCHANGED <<client, store, stale, ifMatch>>
  BY DEF Call
<1>3. Feasible(p) /\ \A u \in Threads : ~Active(call[u])
  BY <1>1 DEF Free
<1>4. ~ifMatch
  BY <1>3 DEF HeaderHeld, Holds, Active
<1>5. p \in Seq(Request) /\ Len(p) \in Nat
  BY <1>1 DEF WellFormedPrograms
<1>6. \A i \in {1, 2} : i <= Len(p) =>
         /\ Possible(store, p[i]) /\ (stale => client # "dpi_ng")
         /\ p[i].when = "if_clean" => store[p[i].scope] = "full"
  <2> SUFFICES ASSUME NEW i \in {1, 2}, i <= Len(p)
               PROVE  /\ Possible(store, p[i]) /\ (stale => client # "dpi_ng")
                      /\ p[i].when = "if_clean" => store[p[i].scope] = "full"
    OBVIOUS
  <2>1. i \in 1 .. Len(p)
    BY <1>5
  <2> QED
    BY <1>3, <2>1 DEF Feasible, Possible
<1>7. p # NoRequest => 1 <= Len(p)
  BY <1>5 DEF NoRequest
<1>8. /\ d.pc = "next" => 1 <= Len(d.program) /\ (stale' => client' # "dpi_ng")
      /\ \A i \in {1, 2} : i <= Len(d.program) =>
            /\ Possible(store', d.program[i])
            /\ d.program[i].when = "if_clean" => store'[d.program[i].scope] = "full"
  BY <1>1, <1>2, <1>6, <1>7
<1>9. d.pc \in {"next", "returned"} /\ d.answer # "raised" /\ d.attempt = 0 /\ ~ifMatch'
  BY <1>1, <1>2, <1>4
<1> HIDE DEF d
<1>10. LoneOK(call[t])'
  BY <1>8, <1>9 DEF LoneOK, Returned, Active, d
<1> QED
  BY <1>3, <1>10

\* what happens counts, so the calls under way are not undisturbed any more
LEMMA EventsCount ==
  ASSUME TypeInv, NEW u \in Threads, call[u].mark <= calls + faults,
         call'[u].mark = call[u].mark, calls' + faults' = calls + faults + 1
  PROVE  Alone(u)'
<1> DEFINE n == calls + faults
<1>1. n \in Nat /\ call[u].mark \in Nat
  BY CallBounds DEF TypeInv, CallRecords
<1>2. call'[u].mark <= calls' + faults' /\ call'[u].mark # calls' + faults'
  <2>1. call'[u].mark <= n /\ calls' + faults' = n + 1
    OBVIOUS
  <2> HIDE DEF n
  <2> QED
    BY <1>1, <2>1
<1> QED
  BY <1>2 DEF Alone, Undisturbed

\* a step of the only call, or of another than the undisturbed one
LEMMA NoEvent ==
  ASSUME TypeInv, NEW t \in Threads, Active(call[t]), NEW u \in Threads, Alone(u),
         Kept(call'[u], call[u]), UNCHANGED <<calls, faults>>,
         \A v \in Threads \ {t} : Active(call'[v]) <=> Active(call[v]),
         u = t /\ LoneOK(call[t]) => LoneOK(call[t])'
  PROVE  Alone(u)'
<1>1. call'[u].mark <= calls' + faults'
  BY DEF Alone, Kept
<1>2. Undisturbed(call[u])' => Undisturbed(call[u])
  BY DEF Undisturbed, Kept
<1>3. Undisturbed(call[u]) => u = t
  BY DEF Alone
<1>4. ASSUME Undisturbed(call[u])'
      PROVE  LoneOK(call[u])' /\ \A v \in Threads \ {u} : ~Active(call'[v])
  <2>1. Undisturbed(call[u]) /\ u = t
    BY <1>2, <1>3, <1>4
  <2> QED
    BY <2>1 DEF Alone
<1> QED
  BY <1>1, <1>4 DEF Alone, Active

LEMMA AlonePreserved ==
  ASSUME TypeInv, \A u \in Threads : OwnOK(u), HeaderHeld,
         \A u \in Threads : Alone(u), [Next]_vars
  PROVE  \A u \in Threads : Alone(u)'
<1> SUFFICES ASSUME NEW u \in Threads PROVE Alone(u)'
  OBVIOUS
<1>0. /\ call[u].mark <= calls + faults /\ calls \in Nat /\ faults \in Nat
  BY CallBounds DEF Alone, TypeInv
<1>1. ASSUME NEW t \in Threads, Call(t)
      PROVE  Alone(u)'
  <2>1. /\ \A v \in Threads \ {t} : call'[v] = call[v]
        /\ faults' = faults /\ calls' = calls + 1
    BY <1>1, CallStep
  <2>2. calls' + faults' = calls + faults + 1
    BY <1>0, <2>1
  <2>3. CASE u # t
    BY <1>0, <2>1, <2>2, <2>3, EventsCount
  <2>4. CASE u = t
    <3>1. call'[t].mark = calls + 1 + faults
      BY <1>1, CallEffect
    <3>2. call'[t].mark <= calls' + faults'
      BY <1>0, <2>1, <3>1
    <3>3. call'[t].feasible => LoneOK(call[t])' /\ \A v \in Threads : ~Active(call[v])
      BY <1>1, LoneCall
    <3>4. call'[t].feasible => \A v \in Threads \ {t} : ~Active(call'[v])
      BY <2>1, <3>3
    <3> QED
      BY <2>4, <3>2, <3>3, <3>4 DEF Alone, Undisturbed, Active
  <2> QED
    BY <2>3, <2>4
<1>2. ASSUME NEW t \in Threads, Run(t)
      PROVE  Alone(u)'
  <2>1. /\ Active(call[t]) /\ Kept(call'[t], call[t])
        /\ \A v \in Threads \ {t} : call'[v] = call[v]
        /\ UNCHANGED <<calls, faults>>
    BY <1>2, RunStep DEF Moves
  <2>2. LoneOK(call[t]) => LoneOK(call[t])'
    BY <1>2, LoneSetIfMatch, LoneSendRequest, LoneResend, LoneNeverFails, LoneProceed DEF Run
  <2>3. Kept(call'[u], call[u])
    BY <2>1 DEF Kept
  <2> QED
    BY <2>1, <2>2, <2>3, NoEvent
<1>3. ASSUME NEW t \in Threads, Serve(t)
      PROVE  Alone(u)'
  <2>1. /\ call[t].pc = "sent" /\ call'[t].pc = "answered" /\ Kept(call'[t], call[t])
        /\ \A v \in Threads \ {t} : Watches(v)
        /\ calls' = calls /\ Counted
    BY <1>3, ServeStep
  <2>2. Kept(call'[u], call[u])
    BY <2>1 DEF Watches, Same, Kept
  <2>3. CASE faults' = faults
    <3>1. LoneOK(call[t]) => LoneOK(call[t])'
      BY <1>3, <2>3, LoneServe
    <3>2. Active(call[t]) /\ \A v \in Threads \ {t} : Active(call'[v]) <=> Active(call[v])
      BY <2>1 DEF Active, Watches, Same
    <3> QED
      BY <2>1, <2>2, <2>3, <3>1, <3>2, NoEvent
  <2>4. CASE faults' = faults + 1
    <3>1. calls' + faults' = calls + faults + 1 /\ call'[u].mark = call[u].mark
      BY <1>0, <2>1, <2>2, <2>4 DEF Kept
    <3> QED
      BY <1>0, <3>1, EventsCount
  <2> QED
    BY <2>1, <2>3, <2>4 DEF Counted
<1>4. CASE OthersChange
  <2>1. Watches(u) /\ calls' = calls /\ faults' = faults + 1
    BY <1>4, OthersStep
  <2>2. calls' + faults' = calls + faults + 1 /\ call'[u].mark = call[u].mark
    BY <1>0, <2>1 DEF Watches, Same
  <2> QED
    BY <1>0, <2>2, EventsCount
<1>5. CASE Revoke
  <2>1. call' = call /\ calls' = calls /\ faults' = faults + 1
    BY <1>5, RevokeStep
  <2>2. calls' + faults' = calls + faults + 1 /\ call'[u].mark = call[u].mark
    BY <1>0, <2>1
  <2> QED
    BY <1>0, <2>2, EventsCount
<1>6. CASE UNCHANGED vars
  <2>1. UNCHANGED <<client, store, stale, ifMatch, call, calls, faults>>
    BY <1>6 DEF vars
  <2>2. Undisturbed(call[u])' => Undisturbed(call[u])
    BY <2>1 DEF Undisturbed
  <2>3. LoneOK(call[u]) => LoneOK(call[u])'
    BY <2>1 DEF LoneOK, Returned, Active, NeedsIfMatch, SentAgain, Now
  <2> QED
    BY <1>0, <2>1, <2>2, <2>3 DEF Alone, Active
<1> QED
  BY <1>1, <1>2, <1>3, <1>4, <1>5, <1>6 DEF Next

-----------------------------------------------------------------------------
(* The theorems *)

LEMMA InductiveInvariant == Spec => []IInv
<1>1. Init => IInv
  <2>1. ASSUME Init
        PROVE  HeaderHeld /\ \A u \in Threads : Alone(u)
    <3>1. ~ifMatch /\ calls = 0 /\ faults = 0
      BY <2>1 DEF Init
    <3>2. \A u \in Threads : call[u].feasible = FALSE /\ call[u].mark = 0
      BY <2>1 DEF Init, Started
    <3>3. \A u \in Threads : call[u].mark <= calls + faults
      BY <3>1, <3>2
    <3> QED
      BY <3>1, <3>2, <3>3 DEF HeaderHeld, Alone, Undisturbed
  <2> QED
    BY <2>1, InitTypeInv, InitOwn DEF IInv, OwnOK
<1>2. IInv /\ [Next]_vars => IInv'
  <2> SUFFICES ASSUME IInv, [Next]_vars PROVE IInv'
    OBVIOUS
  <2>1. TypeInv /\ HeaderHeld /\ \A u \in Threads : OwnOK(u) /\ Alone(u)
    BY DEF IInv, OwnOK
  <2>2. TypeInv' /\ \A u \in Threads : OwnOK(u)'
    BY <2>1, OwnPreserved
  <2>3. HeaderHeld'
    BY <2>1, HeaderPreserved
  <2>4. \A u \in Threads : Alone(u)'
    BY <2>1, AlonePreserved
  <2> QED
    BY <2>2, <2>3, <2>4 DEF IInv, OwnOK
<1> QED
  BY <1>1, <1>2, PTL DEF Spec

\* Types; a request is sent twice at most (HttpClient.request, AdmsHttp), and
\* If-Match is in the headers of the shared session of dpi_ng only while a call
\* that put it there is under way, whatever fails.
THEOREM TypeCorrect == Spec => []TypeOK
<1>1. IInv => TypeOK
  <2> SUFFICES ASSUME IInv PROVE TypeOK
    OBVIOUS
  <2>1. TypeInv /\ HeaderHeld
    BY DEF IInv
  <2>2. ifMatch => \E t \in Threads :
          call[t].pc \in {"send", "sent", "answered"} /\ NeedsIfMatch(Now(call[t]))
    BY <2>1 DEF HeaderHeld, Holds
  <2>3. ASSUME NEW t \in Threads
        PROVE  LET c == call[t] IN
               /\ c.program \in Programs(client) \cup {NoRequest}
               /\ c.pc \in {"next", "send", "sent", "answered", "returned"}
               /\ Active(c) => c.step \in 1..Len(c.program)
               /\ c.attempt \in 0..2 /\ c.reply.status \in Statuses
               /\ c.answer \in Answers /\ c.applied \in 0..2
               /\ c.seen \in [Scopes -> SUBSET Contents]
    <3> DEFINE c == call[t]
    <3>1. c \in CallRecords /\ LabelOK(c) /\ EffectsOK(c)
      BY <2>1 DEF IInv, TypeInv
    <3> HIDE DEF c
    <3>2. /\ c.pc \in {"next", "send", "sent", "answered", "returned"}
          /\ c.answer \in Answers /\ c.seen \in [Scopes -> SUBSET Contents]
          /\ c.attempt \in Nat /\ c.applied \in Nat /\ c.step \in {1, 2}
          /\ c.reply.status \in Statuses
      BY <3>1 DEF CallRecords, Replies
    <3>3. c.program \in Programs(client) \cup {NoRequest}
      BY <3>1 DEF LabelOK
    <3>4. Active(c) => c.step \in 1..Len(c.program)
      BY <3>1, <3>2, TwoRequests DEF LabelOK
    <3>5. c.attempt \in 0..2
      BY <3>1, <3>2 DEF LabelOK
    <3>6. c.applied \in 0..2
      BY <3>1, <3>2 DEF EffectsOK
    <3> QED
      BY <3>2, <3>3, <3>4, <3>5, <3>6 DEF c
  <2> QED
    BY <2>1, <2>2, <2>3 DEF TypeOK, TypeInv
<1> QED
  BY <1>1, InductiveInvariant, PTL

\* A write that a client reports as done has been executed, and none is executed
\* twice: the retry after 401 and 403 sends again only what was refused, and
\* no method of any client writes twice.
THEOREM WritesAreDoneOnce == Spec => []ReportedWritesAreDone
<1>1. IInv => ReportedWritesAreDone
  <2> SUFFICES ASSUME IInv, NEW t \in Threads
               PROVE  LET c == call[t] IN
                      /\ c.applied <= 1
                      /\ ~Swallowed(c) /\ c.pc = "returned"
                         /\ c.answer \notin {"raised", "local"}
                         /\ WritesOfCall(c) # {} => c.applied = 1
    BY DEF ReportedWritesAreDone
  <2> DEFINE c == call[t]
  <2>1. c \in CallRecords /\ LabelOK(c) /\ EffectsOK(c)
    BY DEF IInv, TypeInv
  <2>2. c.swallowed => client = "agent_memory"
    BY <2>1 DEF LabelOK
  <2>3. ASSUME WritesOfCall(c) # {}
        PROVE  \E i \in {1, 2} : Write(c, i)
    <3>1. PICK i \in 1 .. Len(c.program) : c.program[i].kind \in Writes
      BY <2>3 DEF WritesOfCall
    <3> DEFINE n == Len(c.program)
    <3>2. n \in Nat /\ n <= 2 /\ i \in 1 .. n
      BY <2>1, <3>1, TwoRequests
    <3> HIDE DEF n
    <3>3. i \in {1, 2} /\ i <= n
      BY <3>2
    <3> QED
      BY <3>1, <3>3 DEF Write, n
  <2> HIDE DEF c
  <2>4. /\ c.applied <= 1
        /\ ~Swallowed(c) /\ c.pc = "returned" /\ c.answer \notin {"raised", "local"}
           /\ WritesOfCall(c) # {} => c.applied = 1
    BY <2>1, <2>2, <2>3 DEF EffectsOK, Swallowed
  <2> QED
    BY <2>4 DEF c
<1> QED
  BY <1>1, InductiveInvariant, PTL

\* What a call returns was so while it was under way, in the scope it was read
\* from; the fallback of the access strategies, and the scan state before a
\* download URL, were decided on what the service held at some time of the call.
THEOREM AnswersAreTrue == Spec => []AnswersWereTrue
<1>1. IInv => AnswersWereTrue
  <2> SUFFICES ASSUME IInv, NEW t \in Threads
               PROVE  LET c == call[t]
                          Seen(i) == c.seen[c.program[i].scope]
                      IN  /\ Returned(c, Contents) /\ ~Swallowed(c) =>
                                /\ c.answer \in Seen(c.step)
                                /\ \A i \in 2..c.step :
                                      /\ c.program[i].when = "if_nothing" =>
                                            "absent" \in Seen(i - 1)
                                      /\ c.program[i].when = "if_clean" =>
                                            "full" \in Seen(i - 1)
                          /\ Returned(c, {"nothing"}) =>
                                \A i \in 1..Len(c.program) : "absent" \in Seen(i)
    BY DEF AnswersWereTrue
  <2> DEFINE c == call[t]
  <2>1. c.step \in {1, 2} /\ PathOK(c)
    BY DEF IInv, TypeInv, CallRecords
  <2> HIDE DEF c
  <2>2. \A i \in 2..c.step : i = 2 /\ i - 1 = 1 /\ c.step = 2
    BY <2>1
  <2> QED
    BY <2>1, <2>2 DEF PathOK, Saw, c
<1> QED
  BY <1>1, InductiveInvariant, PTL

\* A call that begins when no other is under way and that the service could
\* execute does not raise, as long as nothing else happens: a credential that
\* became stale before costs it one request that is sent again, and no more.
THEOREM LoneCallsSucceed == Spec => []UndisturbedCallsSucceed
<1>1. IInv => UndisturbedCallsSucceed
  BY DEF IInv, Alone, Undisturbed, LoneOK, UndisturbedCallsSucceed
<1> QED
  BY <1>1, InductiveInvariant, PTL
=============================================================================
