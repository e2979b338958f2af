---------------------------- MODULE MCKnowledge ----------------------------
(***************************************************************************)
(* What the agent knows of the project and of its APIs, one part at a      *)
(* time: the index of the code, which builds keep up with the files; the   *)
(* catalog of APIs and the plans made of it; and the accounts of APIs that *)
(* the catalog holds and what is put into a prompt, which are functions of *)
(* their input and so have one state for each.  The parts share no state:  *)
(* `part` says which one runs, and the variables of the others are Off.    *)
(***************************************************************************)
EXTENDS DocImport, TLC

CONSTANTS b1, b2, Off

VARIABLES part, input, disk, build, index, latest, changed, missed, saves, apis, cached, answer

codeVars == <<disk, build, index, latest, changed, missed, saves>>
catalogVars == <<apis, cached, answer>>
vars == <<part, input, codeVars, catalogVars>>

ProjectOf == INSTANCE MCProjectSamples
ApiOf == INSTANCE MCApiSamples
Prompt == INSTANCE PromptBudget

Repo == INSTANCE CodeGraph WITH
  Path <- ProjectOf!Files, Source <- ProjectOf!Saved, Projects <- ProjectOf!Projects,
  Extension <- <<".ts", ".js">>, Emitted <- {".js"}, IndexOf <- ProjectOf!LibIndex,
  TooLarge <- ProjectOf!Large, Builds <- {b1, b2}, Saves <- 1, MaxMissed <- 1

Catalog == INSTANCE IntegrationPlan WITH
  Api <- ProjectOf!Apis, Request <- ProjectOf!Requests, Query <- ProjectOf!Queries,
  Text <- ProjectOf!Texts, Code <- ProjectOf!Codes, None <- Nothing

\* What the proofs about the index and the catalog assume of their constants, and
\* those about prompts of their input.
ASSUME CodeAssumption == Repo!IndexAssumption
ASSUME ApiAssumption == Catalog!CatalogAssumption
ASSUME PromptAssumption ==
  /\ \A i \in ProjectOf!Indexes : Prompt!IsCode(i)
  /\ \A q \in ProjectOf!Questions : Prompt!IsQuestion(q)
  /\ \A added \in ProjectOf!Added : \A s \in ToSet(added) : Prompt!IsSkill(s)
  /\ \A ops \in ProjectOf!Histories : \A op \in ToSet(ops) : Prompt!IsOp(op)

OnlyJson == <<"json">>
Forms == <<"urlencoded", "parts">>
SecretNames == {"token", "x-api-key", "authorization"}

-----------------------------------------------------------------------------
CodeOff ==
  disk = Off /\ build = Off /\ index = Off /\ latest = Off /\ changed = Off /\ missed = Off
  /\ saves = Off
CatalogOff == apis = Off /\ cached = Off /\ answer = Off

Account ==
  \/ part = "schemas" /\ \E e, a \in ApiOf!Schemas : input = <<e, a>>
  \/ part = "samples" /\ \E e \in ApiOf!Schemas, v \in ApiOf!Values : input = <<e, <<v>> >>
  \/ part = "samples" /\ \E e \in ApiOf!Sub \cup ApiOf!Objects, s \in ApiOf!Samples : input = <<e, s>>
  \/ part = "account" /\ \E s \in ApiOf!Specs : input = <<s>>
  \/ part = "accounts" /\ \E e, a \in ApiOf!Others : input = <<e, a>>
  \/ part = "lowering" /\ \E c \in ApiOf!Components, raw \in ApiOf!Raws : input = <<c, raw>>
  \/ part = "document" /\ \E doc \in ApiOf!Docs : input = <<doc>>
  \/ part = "words" /\ \E line \in ApiOf!Lines : input = line
  \/ part = "call" /\ \E call \in ApiOf!Calls : input = <<call>>
  \/ part = "question" /\ \E i \in ProjectOf!Indexes, q \in ProjectOf!Questions : input = <<i, q>>
  \/ part = "skills" /\ \E a \in ProjectOf!Added, c \in ProjectOf!Contexts,
                           most \in {1, 2}, bytes \in {1, 3} : input = <<a, c, most, bytes>>
  \/ part = "memory" /\ \E h \in ProjectOf!Histories, most \in {1, 2} : input = <<h, most, 3>>

Init ==
  \/ part = "code" /\ Repo!Init /\ CatalogOff /\ input = Off
  \/ part = "catalog" /\ Catalog!CatalogInit /\ CodeOff /\ input = Off
  \/ Account /\ CodeOff /\ CatalogOff

In(which) == part = which /\ UNCHANGED <<part, input>>

Next ==
  \/ In("code") /\ Repo!Next /\ UNCHANGED catalogVars
  \/ In("catalog") /\ Catalog!PlanNext /\ UNCHANGED codeVars

Spec == Init /\ [][Next]_vars

-----------------------------------------------------------------------------
(* The index means what the language means, is that of the files it could  *)
(* read once no save overtook its build, loses nothing to an update, and   *)
(* the graph over it reports every user of a change and every circle of    *)
(* imports (indexer.ts, graph.ts, impact.ts).                              *)
CodeKnowledgeIsSound ==
  part = "code" =>
    /\ Repo!NamesMeanTheirDeclaration /\ Repo!IndexCatchesUp /\ Repo!UpdatesLoseNothing
    /\ Repo!ImpactReachesUsers /\ Repo!CirclesAreFound

(* Accounts of an API say what they were made of: a comparison finds the   *)
(* values that break, an inferred schema describes its samples, a document *)
(* is imported as it is meant in either spelling, one call as one API from *)
(* every command, collection and text that has it, and what follows a      *)
(* description does not conflict with it (conflicts.ts, infer.ts,          *)
(* openapi.ts, curl.ts, postman.ts, docs.ts).                              *)
ApiKnowledgeIsSound ==
  /\ part = "schemas" => ComparisonMeansAcceptance(input[1], input[2], ApiOf!Values)
  /\ part = "samples" => InferenceMeansSamples(input[1], input[2])
  /\ part = "account" => FollowersDoNotConflict(input[1], ApiOf!SentValues)
  /\ part = "accounts" => ComparisonIsMutual(input[1], input[2])
  /\ part = "lowering" => LoweringMeansDocument(input[1], input[2], ApiOf!Instances)
  /\ part = "document" => SpellingsAgree(input[1]) /\ OperationsMeanDocument(input[1])
  /\ part = "words" => WordsAreTheShells(input)
  /\ part = "call" => CallsMeanTheirAccount(input[1], ApiOf!Commands(input[1]),
                       ApiOf!Collections(input[1]), ApiOf!Texts(input[1]))

(* What a session answers rests on the APIs as they are imported then:     *)
(* requests are attributed, searches are reproducible, and plans name what *)
(* is there, decide nothing the user decided and ask what is not known     *)
(* (catalog.ts, planner.ts); and what is put into a prompt is in budget    *)
(* and has to do with the run: declarations, skills and memories           *)
(* (retrieval.ts, registry.ts, store.ts).                                  *)
AnswersAreGrounded ==
  /\ part = "catalog" =>
       Catalog!RequestsAreAttributed /\ Catalog!SearchesAreReproducible /\ Catalog!PlansAreGrounded
  /\ part = "question" => Prompt!RetrievalIsRelevant(input[1], input[2])
  /\ part = "skills" => Prompt!SkillsApply(input[1], input[2], input[3], input[4])
  /\ part = "memory" => Prompt!MemoryIsScoped(input[1], input[2], input[3])
=============================================================================
