# A TLA+ model of AICA

AICA is a coding agent: an *agent server* (Node, TypeScript) that indexes a
project, runs a language model in a tool-using loop, asks its user before it
does anything risky, proposes patches, applies them, and validates and repairs
what it changed. An editor extension and a web console are its two faces. This
directory holds TLA+ models of the parts in which order, failure and concurrency
matter, and of what the agent concludes about code and APIs, the TLC
configurations that check them, and TLAPS proofs about them.

Contents: [1 the system](#1-the-system), [2 what is modelled](#2-what-is-modelled-and-how-it-corresponds-to-the-code),
[3 the runs](#3-the-runs), [4 fairness](#4-fairness), [5 the proofs](#5-the-proofs),
[6 where the code and its documents disagree](#6-where-the-code-and-its-documents-disagree),
[7 what is not modelled](#7-what-is-not-modelled), [8 the plan](#8-the-plan).

To check a run: `tlc -config MCPatchEngine.cfg MCPatchEngine` (likewise for the
others). To check a proof: `tlapm FsEngineProofs.tla`. `PROJECT.json` lists
the components, the runs, the source lines behind every definition, the hazards
of the code, the theorems, and for every checked property a seeded bug that
breaks it.

## 1 The system

Paths are relative to `src/`. "Promise" is what makes the component correct.

### Processes and how they talk

    editor extension --(framed JSON-RPC over stdio)--> agent server <--(HTTP, server-sent events)-- web console
                                                          |-- one orchestrator per open project
                                                          |     |-- agent loop -> tool dispatcher -> approval gate -> tools
                                                          |     |-- patch registry -> patch engine -> files of the project
                                                          |     `-- validation pipeline -> repair loop -> commands
                                                          |-- MCP servers (child processes, JSON-RPC)
                                                          `-- run and event store (memory, or Supabase)
    coding-agent library (delegation) --(HTTP)--> an external coding agent (Jules)

Each process is single-threaded: code between two `await`s is one step, and
everything else interleaves. The user edits the same files the agent patches,
answers prompts late or not at all, and cancels at any time.

### Inventory

| Component | State | Operations | What is hard | Promise |
|---|---|---|---|---|
| Line and unified diffs (`packages/fs-engine/src/diff.ts`) | none | diff, render, parse, apply | counters across hunks, empty ranges, overlap of prefix and suffix, stale targets | the script is exact and minimal; a rendered diff re-applies; only verified lines are replaced |
| Patch engine (`packages/fs-engine/src/patch.ts`) | staged changes, written so far | preview, apply, stage, write, roll back | a failure at any file operation, calls that overlap, aliases of one file | all files or none; a failing call puts back exactly what it replaced |
| Patch registry and review requests (`apps/agent-server/src/tools`, `server.ts`) | patch, status, originals per id | propose, apply, revert, discard, the agent's apply_patch | check before `await`, set after it; double clicks; agent and user on one patch | the registry says what the disk holds; a revert restores exactly |
| JSON-RPC connection (`packages/rpc/src`) | pending calls, running handlers, timers, read buffer | request, notify, cancel, timeout, dispatch, dispose | late answers, cancel against answer, close with calls open, broken frames | each call is answered once and by its own answer; abandoned work is stopped |
| Agent runtime (`packages/agent-core/src/runtime.ts`) | iteration, consecutive failures, messages | one turn of the loop, finish | cancel between two calls of a turn, what counts as failing | a run ends; it ends for the reason it gives |
| Dispatcher and approvals (`packages/tool-registry`, `security-engine/src/approvals.ts`) | standing grants, prompts open | validate, decide, ask, execute with a timeout | grants remembered too widely, grant after cancel, prompts nobody answers | nothing risky runs unapproved; nothing destructive on a standing grant |
| Risk policy, MCP permissions (`security-engine/src/risk.ts`, `mcp-engine/src/permissions.ts`) | configuration | classify, decide | order of rules, what a server claims of itself | what a tool claims of itself releases no call its user has not waived approval for |
| Delegation and the Jules provider (`packages/coding-agent/src`) | session, polls, repairs | create, poll, approve, instruct, result, validate | lost answers, retries of effects, stale results, four nested bounds | no effect twice on one decision; "verified" was validated |
| Validation and repair (`packages/validation-engine/src`) | report, attempts | run the checks, judge, attempt | edits during checks, cancelled commands, progress that is not | the report is true of the tree; the loop ends without making it worse |
| Run orchestrator (`apps/agent-server/src/orchestrator.ts`, `shared/src/emitter.ts`) | active runs, one patch registry, one MCP registry, event sequence | run, cancel, validate, record, emit | runs that share state, cancel before the run is registered, a store that fails | a run's record and events say what it did; cancel reaches it |
| Server, HTTP, gateway (`server.ts`, `http.ts`, `gateway.ts`, `main.ts`) | sessions, event streams | every request of the protocol | replay against live events, a client that disconnects | events reach a subscriber once and in order |
| Project session, indexer, retrieval (`project.ts`, `packages/code-intelligence`) | index, catalog, plan | open, build index, search | two builds at once, an index older than the files | the index is that of the files |
| Code graph and impact (`packages/code-graph`) | graph | build, traverse, impact, circles | cycles, depth and size limits | impact reaches every user within the limits, and says where it is blind |
| Planner, matching, intent (`packages/integration-planner`) | none | read the intent, match call sites, pick endpoint and files | ties, ambiguity, several APIs | a plan names only what exists; what the user named decides; doubt is asked about |
| API import, catalog, conflicts (`packages/api-engine`, `packages/api-ir`) | the APIs imported so far | import (OpenAPI, Swagger, curl, Postman, documentation), infer, search, match, compare | cyclic `$ref`s, unions and nulls, quoting, templates, ids shared by APIs | one call has one account however it is written down; what follows a description does not conflict with it |
| API executor (`api-engine/src/executor.ts`, `security-engine/src/ssrf.ts`) | secrets, headers, hops of one call | authorize, sign, send, redirect, read | redirects to other origins, names that change their address, a capped body | credentials stay at their origin; the exchange is honest; not constructed by the server at this commit |
| Command execution (`packages/exec-engine`) | one child process | resolve, spawn, stop | timeout, abort, output limit, error and exit race | one outcome; nothing outlives it |
| Path, command, network, secret policies (`packages/security-engine`) | audit log | classify, resolve, redact | string shapes, order of rules | what is refused is not reached |
| MCP client and registry (`packages/mcp-engine`) | clients, tools | connect, call, close | servers shared by runs | third-party processes do not outlive the run |
| Task router, providers (`packages/agent-core`) | none | classify, stream a completion | partial streams | an answer is complete or an error |
| Project memory (`packages/memory`) | entries | remember, recall, forget, hydrate, render | scopes that shadow each other | the most specific scope wins |
| Skills (`packages/skill-engine`) | loaded skills | load, select | precedence | a skill is only advice |
| Stores (`apps/agent-server/src/store`) | rows | start, append, finish, list | sequence numbers, partial failure | events replay completely and in order |
| Git engine, file reader | none | wrap commands and reads | I/O | -- |
| Editor extension, server process, web console (`apps/vscode-extension`, `apps/web`) | connection, restarts, views | start, restart, stop, show | crash loops, SIGTERM against exit | a dead server is reported, not restarted for ever |
| Shared utilities, schemas (`packages/shared`, `packages/schemas`) | budgets | timeouts, retries, limits | -- | -- |

`PROJECT.json` gives every component a status and, under `hazards`, the lines
where it can go wrong in ways a test would hardly reach, with the properties
that cover them; the ones no property covers are in section 7.

## 2 What is modelled and how it corresponds to the code

One rule throughout: a step of a model is the code between two `await`s (or
between two callbacks), and whatever another actor may do while the code waits
is another action. Texts are short sequences of model values, hashes are the
contents they stand for, names are model values; messages, wording and logging
are left out. Definitions marked "seeded bug" are not part of the model: they
are the mutants `PROJECT.json` swaps in.

| Module | Models | Composes |
|---|---|---|
| `Selection` | what `filter()` and `sort()` keep, and where (not a part of the system) | -- |
| `UnifiedDiff` | `diff.ts` as operators | `Selection` |
| `DiffReview` | one change through diff, render, parse, apply | `UnifiedDiff` |
| `PatchEffect` | what one patch does to a tree: path resolution, operations, hashes, limits | `UnifiedDiff` |
| `PatchEngine` | `patch.ts`: the calls, await by await | `PatchEffect` |
| `AtomicPatch` | abstract specification of the engine | -- (takes the effect of a patch as operators; `PatchEngine` gives it those of `PatchEffect`) |
| `PatchReview` | patch registry, request handlers, the agent's tools | `PatchEffect` (as `AtomicPatch` licenses) |
| `RpcConnection` | two `RpcConnection` objects and the streams between them | -- |
| `RiskPolicy` | `risk.ts`, `permissions.ts` as operators | -- |
| `AgentRun` | `runtime.ts`, `dispatcher.ts`, `approvals.ts` | `RiskPolicy` |
| `Delegation` | `delegation.ts` with the Jules provider and its service | -- |
| `RepairLoop` | `repair.ts` over `pipeline.ts`, as the orchestrator composes them | -- |
| `RunLifecycle` | `orchestrator.ts` with emitter, store, MCP registry, start and cancel requests | `AgentRun`, `RepairLoop` by how they end |
| `ApiExecution` | `api-engine/src/executor.ts` with the URL policy (`ssrf.ts`), `auth.ts`, secrets, redactor | `RiskPolicy` |
| `CommandExecution` | `exec-engine/src/executor.ts`, the rules of `commands.ts` | -- |
| `EditorSession` | `extension.ts`, `serverProcess.ts`, the server's end of the pipe | -- |
| `Effects` | the three above, one at a time | `ApiExecution`, `CommandExecution`, `EditorSession` |
| `CodeIndex` | what `analyzer.ts` finds, `indexer.ts`, `buildIndex` | -- |
| `CodeGraph` | `graph.ts`, `impact.ts` | `CodeIndex` |
| `ApiSchema` | comparing and inferring schemas | -- |
| `SpecComparison` | `conflicts.ts` from schema to API | `ApiSchema` |
| `SchemaLowering` | schemas of `openapi.ts`, references and circles | `SpecComparison` |
| `OpenApiImport` | the rest of `openapi.ts`, OpenAPI 3 and Swagger 2 | `SchemaLowering` |
| `CurlImport` | `curl.ts`, `checkSpecInvariants` | `OpenApiImport` |
| `PostmanImport` | `postman.ts` | `CurlImport` |
| `DocImport` | `docs.ts` | `PostmanImport` |
| `EndpointCatalog` | `catalog.ts`, imports into a session | `Selection` |
| `IntegrationPlan` | `intent.ts`, `matching.ts`, `planner.ts` | `EndpointCatalog` |
| `PromptBudget` | `retrieval.ts`, selection in `skill-engine/src/registry.ts`, `memory/src/store.ts` | `Selection` |
| `FsEngineProofs` | theorems | `PatchEngine`, `DiffReview` |
| `OrchestratorProofs` | theorems | `RunLifecycle`, `RepairLoop` |
| `KnowledgeProofs` | theorems | `CodeIndex`, `EndpointCatalog`, `PromptBudget` |
| `PatchReviewProofs`, `RpcConnectionProofs`, `AgentRunProofs`, `DelegationProofs`, `EffectsProofs` | theorems | the module each is named after |
| `MC...` | the values TLC checks with; `MCKnowledge` also composes the modules from `CodeIndex` to `PromptBudget`, on the samples of `MCProjectSamples` and `MCApiSamples` | -- |

**UnifiedDiff, DiffReview.** `DiffLines` trims the common head and tail and
walks an LCS table with the code's tie-break; `Hunks`, `FormatUnifiedDiff`,
`ParseUnifiedDiff` and `ApplyUnifiedDiff` follow the functions of the same
names, with the line counters, the numbering of empty ranges, the whole-file
fallback above `LCS_GUARD`, and the parser's treatment of body lines that look
like file headers. `DiffReview` walks one change through them and applies the
diff to any text, not only to the one it came from. Loops over the lines are
recursive functions and folds over indexed sequences, and what a filter keeps is
picked by the order of its positions (`Picked`), so that the proofs can speak of
the position a line came from.

**PatchEffect, PatchEngine.** `FileEffect` is `stage()` of one file: read,
check the hash, compute the text, refuse a missing anchor, an ambiguous one, a
creation over a file, a change of nothing. `PatchEngine` keeps, for each call,
`pc` (`staging`, `writing`, `rollback`, or how it ended), the `staged` changes
and how many are `written` -- the local variables of `apply()`. `StageFile`,
`WriteFile`, `WriteFails`, `RestoreFile` and `RestoreFails` are its awaits;
`Save` is the user's editor. `strayed` records, per call, the staged files that
somebody else wrote or a failure left with another text since. A failing
operation may leave its file alone, torn (`writeFile` fails after truncating),
or unrestored; and a read that fails, for whatever reason, gives "absent"
(`ReadGives`), whatever the file holds (`there`; `unread` records it).
`AtomicPatch` says the same in one step per call, which sees the tree without
the files it could not read, and the refinement mapping hides the files a call
has written until it reports how it ended. Files are taken for valid UTF-8, and
directories that `mkdir` made for a write that failed are left out, as are all
directories. That is claimed of the behaviours in which every call in flight has its
files to itself; `alone`, chosen at the start, says which those are, and all
others are explored too.

**PatchReview.** `status` and `revertTo` are the registry and the originals
kept beside it; `handler` is the program counter of each request in flight:
`RequestApply` (check), `Capture` (read the originals), `Stage` and `Write` (the
engine's apply), `Mark`; `RequestRevert`, then `Stage`, `Write`, `Unmark`;
`Discard`; `AgentApply`. The files of one patch are read in one step and written
in one step, which `ImplementsAtomicPatch` licenses for a call that has its
files to itself; anything may happen between the two. As it allows, any staging
may miss files it cannot read, and a write that fails (`EngineFails`) may leave
any of its files as they are, as they were read, written, or empty. `disturbed`
holds the patches whose requests somebody else's write, or a revert begun during
another request on them, came between, and those whose request could not read a
file or failed and left one changed.

**RpcConnection.** Per peer: `pending`, `running` (`inFlight` with its abort
controllers), timers, abort listeners and the incoming `stream`. `Receive` is
one dispatched frame; `Request`, `Cancel`, `Timeout`, `Answer`, `Dispose`,
`Close` are the entry points. A frame may be oversized or garbage, which closes
the connection that reads it. An answer that cannot be encoded is not sent, and
nobody is told (`Respond`).

**RiskPolicy, AgentRun.** `EvaluatePolicy` keeps the order of the rules of
`evaluatePolicy`. `AgentRun` is a loop with a `phase`: `top`, `chat`, `calls`,
`asking`, `authorized`, `executing`, `done`; `remembered` holds the gate's
standing grants under the code's key. Answers, prompts, timers and
cancellation interleave wherever the loop waits.

**Delegation.** `pc` is the request in flight or the decision to make next.
The service is part of the model: it moves, reports, and carries out an effect
whether or not its answer arrives. Of an activity only what decides whether its
change set is the result is kept: it may have none, one, one whose time of
creation cannot be read (which the provider dates now), or one the mapping leaves
out (too large, or in an activity without an id). `overdue` is the duration
budget.

**RepairLoop.** `tree` says what every check's command would find in the tree
as it stands; an attempt and a save change it at will. `deaf` is a command
started with a signal that was already set, which the executor does not notice;
`killed` one that somebody else ended, whose output, as far as it came, is parsed
like that of a check that failed (`Fragments`). A line of it that was cut is not
read as naming another place: that is assumed.

**RunLifecycle.** Two runs of one project in one orchestrator. `pc` is the await
a run is at, from `resolving` over `recording`, `connecting`, `skills`, `agent`,
`validating` to the record of its end. `running`, `applied` (some patch of the
shared registry is applied) and `current` (the one field for an MCP registry)
are shared; every store call may fail, a bounded number of times. A run is
cancelled by its id (`CancelRun`) or with its request (`AbortRequest`, whose
signal nothing listens to while the provider is resolved).

**ApiExecution.** One request: authorised, secrets resolved one by
one, schemes applied, then hop by hop: checked by name, looked up, checked by
address (`CheckUrl`), looked up again by `fetch` and sent (`Send`), redirected or
read to the cap. A header is the set of values it carries, and a server may echo
any value it was sent, in the body and headers, which go through the redactor, or
in the status text and redirects, which do not.

**CommandExecution.** One command as a tree of processes. Each process chooses at
the start whether it leaves the group, holds the output open and ignores
SIGTERM; timer, abort, escalation, exits and the server's own end interleave.

**EditorSession.** The session spawns up to four servers in turn, opens the
project, restarts what died, and mirrors the patches of its server through
messages under way (`wire`) and list requests (`asks`). A call that is not
answered in time is given up (`GiveUp`), and the server goes on with it
(`deserted`); a list may be lost. `unheard` holds the patches that changed, since
the last list, in a way of which nothing is sent to the session.

**CodeIndex, CodeGraph.** A file is its declarations, uses (with the function
that contains them), imports and exports: what `analyzer.ts` records, not the
syntax that spells it. `ResolveSpecifier`, `ResolveIn`, `Target` and `Link` are
`link()` with its lookup by extension and its walk along re-exports.
`List`, `Read` and `Finish` are the awaits of a build; a save may fall between
any two. The listing may leave files out, files above a limit (`TooLarge`) are
skipped and others may be unreadable (`missed`). A source is what the reader
returns, which has redacted it. `Impact` and `ImportCycles` work on the graph built of the index.

**ApiSchema to DocImport.** Functions, each checked against a reference that
says what it should mean: a comparison against *which values the two schemas
accept*; inference against *its samples are accepted*; lowering against *the
values the document's own schema describes*, evaluated on the raw document; an
operation against *the merge of path and operation level* in either spelling;
a command line against *a shell that reads one character at a time*; and each
observed call, written as a command, a collection and a text, against
*documentation of that call*, by the project's own comparison. A text of a
header is the tuple of its words, a table of a document its rows: layout and
wording are left out, what is decided by them is not.

**EndpointCatalog, IntegrationPlan.** Imports in any order, then one question:
a request to be attributed, a search, or a text to plan for. The answer is kept
(`answer`) with the APIs it was given of, and the properties hold it against
the same question asked of the APIs in another order, or against a definition by
quantifiers.

**PromptBudget.** What is put into a prompt: the declarations a question
retrieves, the skills that apply, the memories that are rendered. Scores are the
code's, scaled to whole numbers; each is held against what it should select and
in which order, within its two limits. A skill or a memory that comes first is
taken however large it is; a declaration is not.

## 3 The runs

| Run | Bounds | Properties | What it shows |
|---|---|---|---|
| `diff` | texts of up to 5 lines over two lines, one beginning with `--`; context 0 and 1; LCS guard 4 | `ScriptIsExactAndMinimal`, `CarriedDiffReapplies`, `OnlyVerifiedLinesReplaced` | the diff code is right about everything a unified diff can carry |
| `diff_undescribed` | the same, context 1 | violates `NothingUndescribedIsWritten` | a removed line beginning with `--` is dropped, and the rest applied |
| `engine` | two calls, three files, one alias, ten patches, two failures of reads, writes or restores, one save; symmetric in calls | `WriteFrontier`, `ImplementsAtomicPatch` | the bookkeeping is true of the disk whoever else writes; calls alone on their files are all-or-nothing |
| `review` | two patches, two files of one line or none, two requests in flight, four in all, one save or one faulty file; symmetric in ids and requests | `UserAppliedIsRevertible`, `RegistryMatchesDisk`, `LegalMoves`, `RevertIsExact` | overlapping requests leave registry and disk agreeing |
| `rpc` | one call each way, or two one way; timeouts, broken frames, unsendable answers, disposal | `PendingIsAnswerable`, `AnswersMatch`, `OnlyAbandonedWorkIsStopped`, `AbandonedWorkIsStopped` | no call waits in vain but for an answer that cannot be encoded, none gets another's answer, abandoned work is stopped |
| `agent` | all six approval modes, `auto` also with another environment than local, four external tools, three iterations, two failures, two calls a turn | `DestructionIsConfirmed`, `WritesWereApproved`, `OnlyStuckRunsAreStopped`, `NothingStartsCancelled`, `RunEnds` | approval holds under grants, cancellation and timeouts; runs end |
| `delegation` | two polls, two repairs, one retry, two pages, three activities of four kinds | `NothingTwice`, `VerifiedWasChecked`, `FirstResultIsNewest`, `ExhaustedMeansTried`, `DelegationEnds` | lost answers cause nothing twice; outcomes mean what they say |
| `repair` | no check, one, or two; errors in one place, in none named, or both; two attempts; any number of saves and killed commands | `ReportIsCurrent`, `AttemptsNeverEscalate`, `RepairsRealFailures`, `LoopEnds` | the last report is true of the tree; attempts do not dig deeper |
| `lifecycle` | two runs, one server, one store call that fails | `EventsArePersisted`, `EarlyCancelIsHeard`, `RecordMatchesAnswer`, `ServersEndWithLoneRuns`, `RunsAreAnswered` | record, events and answer of a run agree; an early cancellation of a registered run stops it |
| `lifecycle_servers` | the same | violates `ServersEndWithTheirRun` | a run that overlaps another leaves that one's servers running |
| `effects` | requests: 16 calls, two redirects, a cap of three; commands: eight, one descendant; editor: four servers, one early death allowed, one patch | `RequestsStayInBounds`, `ExchangesAreHonest`, `CommandsAreReportedTruly`, `SessionIsInStep`, `WhatWasStartedEnds` | what the agent starts outside the project's files stays in its bounds, is reported truly, and ends |
| `knowledge` | below | `CodeKnowledgeIsSound`, `ApiKnowledgeIsSound`, `AnswersAreGrounded` | what the agent knows of code and APIs is what is there |

`effects` and `knowledge` hold several components that share no state, one at a
time (composed by `Effects` and `MCKnowledge`): the variable `part` chooses at
`Init` which, and the variables of the others are the model value `Off`. Their
properties are conjunctions of the components' own, which are stated and
commented in the components' modules:

| Property | Is, for its part |
|---|---|
| `RequestsStayInBounds` | `CredentialsStayHome`, `EveryHopIsChecked` of `ApiExecution` |
| `ExchangesAreHonest` | `ExchangeTellsNoSecret`, `UncutBodiesAreWhole` of `ApiExecution` |
| `CommandsAreReportedTruly` | `CommandOutcome` of `CommandExecution` |
| `SessionIsInStep` | `OneServer`, `ProjectIsServed`, `SpinStops`, `ViewIsCurrent` of `EditorSession` |
| `WhatWasStartedEnds` | `CallEnds`, `StoppedIsGone`, `CommandsSettle`, `ServersEnd` |
| `CodeKnowledgeIsSound` | `NamesMeanTheirDeclaration`, `IndexCatchesUp`, `UpdatesLoseNothing` of `CodeIndex`, `ImpactReachesUsers`, `CirclesAreFound` of `CodeGraph` |
| `ApiKnowledgeIsSound` | `ComparisonMeansAcceptance`, `InferenceMeansSamples`, `ComparisonIsMutual`, `FollowersDoNotConflict`, `LoweringMeansDocument`, `SpellingsAgree`, `OperationsMeanDocument`, `WordsAreTheShells`, `CallsMeanTheirAccount` |
| `AnswersAreGrounded` | `RequestsAreAttributed`, `SearchesAreReproducible` of `EndpointCatalog`, `PlansAreGrounded` of `IntegrationPlan`, `RetrievalIsRelevant`, `SkillsApply`, `MemoryIsScoped` of `PromptBudget` |

`TypeOK` of a component is proved where section 5 says so.

Why the bounds are enough for what they ask:

- *diff*: five lines over two symbols give repeated lines, ambiguous LCS paths,
  up to two hunks with a gap, empty ranges at both ends and texts above the
  guard. Longer files repeat these shapes.
- *engine*: two files are what "the first written, the second fails" needs;
  the alias makes one file appear twice in a patch; a third is a credential
  file, which is refused. Two failures are a failing write and a failing
  restore. Two calls are what an overlap needs; a third meets the other two
  pairwise.
- *review*: four requests are apply, revert, apply, revert, any two of which may
  overlap.
- *rpc*: ids never interact except through the stream's order, which two calls
  in one direction and one in each exercise.
- *agent*: three iterations with a limit of two failures let a success come
  before, between and after failures; two calls let a cancellation fall
  between calls of one turn.
- *delegation*: each of the four nested bounds is reached and passed.
- *repair*: two attempts are what "fewer than the one before" needs.
- *lifecycle*: runs share three things (the field, the patches, the index), and
  two runs are what an overlap on each needs.
- *review*, faults: a save and a faulty file are alternatives (`MaxAccidents` 1),
  each of which may fall into any request; both together except a patch twice.
- *effects*: two redirects leave an origin and come back; a cap of three with
  chunks of one and two is reached exactly and overrun. One descendant is what
  can outlive the child. Four servers are a first, a restart that is allowed,
  one that is not, and one the user asks for.
- *knowledge*, code (`MCProjectSamples`): seven projects of an application, a barrel and a
  module, with imports by name, default and namespace, four forms of re-export, a
  circle and a package; two builds and
  one save, one file missed by each build, one source above the limits. Two builds
  are what "the last to finish wins" needs; files are missed one by one.
- *knowledge*, accounts (`MCApiSamples`): schemas up to depth three over every
  kind, all pairs; one and two samples against each; JSON schemas of every keyword
  that decides the form of a lowered schema, one inside another, over two components that may name each other and themselves;
  documents of one operation in both spellings. A deeper schema repeats the same
  comparison at another path; `MaxDepth` 4 (24 in the code) is reached by the
  circular components.
- *knowledge*, calls (`MCApiSamples`): 1920 calls (six bodies, five ways to
  authenticate, two paths, four queries, one header, answers or none), each
  in every spelling the module lists; and every command line of up to four
  characters, of the eight that are treated differently.
- *knowledge*, catalog and plans (`MCProjectSamples`): imports in any order of APIs
  that overlap in paths and ids, code with and without call sites, one file of
  fifty-one declarations that all share two words with the text, and texts that name an
  endpoint, a file, both or neither.
- *knowledge*, prompts (`MCProjectSamples`): an index of three files with every set
  of imports on a triangle, up to two uses of one declaration; up to three skills
  added in any order, shipped and the project's, one of which asks to be loaded by
  more evidence than a request counts for; up to three calls on a
  memory. Sizes fit, just fit and do not.

`MCApiSamples` leaves out ways of writing a call whose account is known to be
another one; its header names them and section 6 says why.

**What others do meanwhile.** The engine takes no lock, so a save between
staging and writing is overwritten, and one between writing and rollback is
undone (`patch.ts:180` does not look at the hash again). The models leave all of
that in, and each property says what is left to promise. `WriteFrontier` needs
no assumption: it excepts exactly the files that strayed, so an overwritten save
itself is caught by no property. `ImplementsAtomicPatch`
is about the behaviours with `alone`. `LegalMoves` and `UserAppliedIsRevertible`
hold whatever overlaps; `RegistryMatchesDisk` and `RevertIsExact` except the
disturbed patches, and section 6 says what goes wrong for those.

Deadlock is not checked where a system really stops: all calls or requests of a
bounded environment made, a run or a loop done. `DiffReview` and `Delegation`
have explicit final steps instead, and there it is checked.

## 4 Fairness

| Specification | Assumed | Why the code justifies it |
|---|---|---|
| `RpcConnection` | `WF(Receive)` of each peer | bytes on a pipe are read and dispatched by the event loop; nothing makes a peer call, answer, time out or close |
| `AgentRun` | `WF(LoopStep)` | provider requests have a timeout, prompts time out on the server, the dispatcher bounds tools; handlers do I/O that ends. No one has to answer a prompt or cancel |
| `Delegation` | `WF(Delegate)` | each HTTP attempt has a 30 s timeout; sleeps end. The service and the clock are unfair: the session may stay busy for ever |
| `RepairLoop` | `WF(LoopStep)` | the executor kills a command after its time; an attempt is an agent run, which ends by `RunEnds` |
| `RunLifecycle` | `WF(Advance(r))` of each run | providers, servers and the store answer or time out; agent and repair loops end. Clients, reviews and cancellation are unfair |
| `ApiExecution` | `WF(Advance)` | the request has a timer; prompts time out. A body that stalls after its headers has no deadline (section 6): the fairness excludes it |
| `CommandExecution` | `WF` of the timer, the escalation and `close` | they are the event loop's. No process has to exit by itself |
| `EditorSession` | `WF(Ends(s))` of each server | the operating system ends what it was told to end, or what lost its pipe |

The other specifications are safety only. A tool handler that ignores its
signal and never returns would hold a run for ever (`dispatcher.ts:240` awaits
it even after its timer fired): the assumption excludes that, and the hazard
list says so.

## 5 The proofs

All are checked by TLAPS for every value of the constants that meets the stated
assumptions. Of the invariants and action properties the passing runs check, all
but those of `knowledge` are theorems, and so is the one refinement; of those of
`knowledge`, the conjuncts about builds, updates, requests, searches and prompts
are: of `AnswersAreGrounded`, all but plans.

| Theorem | Says | Rests on |
|---|---|---|
| `FsEngineProofs!TypeCorrect` | types of the engine | `ContentAssumption`: contents are closed under the patches; `EngineAssumption` |
| `FsEngineProofs!FrontierHolds` | `WriteFrontier`, whoever else writes | the same |
| `FsEngineProofs!EngineIsAtomic` | `ImplementsAtomicPatch`: in the behaviours with `alone`, every step is a step of `AtomicPatch` or hidden from it | the same |
| `FsEngineProofs!ReviewTypeCorrect` | types of the walk of one change through the diff code | `LineAssumption`, `ReviewAssumption`: the guard and the context are numbers, markers are lines |
| `FsEngineProofs!ScriptsAreExactAndMinimal` | `ScriptIsExactAndMinimal`: the script turns one text into the other, and below the guard none keeps more lines | the same |
| `FsEngineProofs!CarriedDiffsReapply` | `CarriedDiffReapplies`: a diff a unified diff can carry, rendered, parsed and applied, gives the new text | the same |
| `FsEngineProofs!OnlyVerifiedLinesAreReplaced` | `OnlyVerifiedLinesReplaced`: whatever the target, what is replaced was compared line by line, and the rest stays | the same |
| `PatchReviewProofs!AppliedCanBeReverted` | `UserAppliedIsRevertible` | `PatchAssumption`, `ProposalAssumption`: a proposal is a sequence of file patches |
| `PatchReviewProofs!RegistryIsTrue` | `RegistryMatchesDisk` | the same |
| `PatchReviewProofs!MovesAreLegal` | `LegalMoves` | the same |
| `PatchReviewProofs!RevertsAreExact` | `RevertIsExact` | the same |
| `RpcConnectionProofs!TypeCorrect` | types of both peers and the streams | `PeerAssumption` |
| `RpcConnectionProofs!PendingGetsAnswered` | `PendingIsAnswerable` | the same |
| `RpcConnectionProofs!AnswersAreTheirOwn` | `AnswersMatch` | the same |
| `RpcConnectionProofs!StopsAreDue` | `OnlyAbandonedWorkIsStopped` | the same |
| `AgentRunProofs!TypeCorrect` | types and bounds of a run | `RunAssumption` |
| `AgentRunProofs!DestructionConfirmed` | `DestructionIsConfirmed` | the same |
| `AgentRunProofs!WritesApproved` | `WritesWereApproved` | the same: external tools have distinct names |
| `AgentRunProofs!OnlyStuckStopped` | `OnlyStuckRunsAreStopped` | the same |
| `AgentRunProofs!ClaimsNeverEase` | what an MCP server claims of a tool never lets a call run unasked that would be asked about without the claim, except where the project waived approval for the server | the same |
| `AgentRunProofs!CancelledStartsNothing` | `NothingStartsCancelled` | no assumption, no invariant |
| `DelegationProofs!TypeCorrect` | types and bounds of a delegation | `BoundsAssumption` |
| `DelegationProofs!EffectsHappenOnce` | `NothingTwice` | the same |
| `DelegationProofs!VerifiedIsChecked` | `VerifiedWasChecked` | the same |
| `DelegationProofs!NewestIsTaken` | `FirstResultIsNewest`, among the change sets the pages hold and the mapping keeps | the same |
| `DelegationProofs!ExhaustionIsEarned` | `ExhaustedMeansTried` | the same |
| `OrchestratorProofs!LoopTypeCorrect` | types, bound on attempts | `ConstantsAssumption` |
| `OrchestratorProofs!ReportsTheTree` | `ReportIsCurrent` | the same |
| `OrchestratorProofs!NeverEscalates` | `AttemptsNeverEscalate` | the same |
| `OrchestratorProofs!OnlyRealFailures` | `RepairsRealFailures` | the same |
| `OrchestratorProofs!TypeCorrect` | types of the orchestrator | `LifecycleAssumption` |
| `OrchestratorProofs!EventsPersist` | `EventsArePersisted` | the same |
| `OrchestratorProofs!CancellationIsHeeded` | `EarlyCancelIsHeard` | the same |
| `OrchestratorProofs!RecordsAreTrue` | `RecordMatchesAnswer` | the same |
| `OrchestratorProofs!LoneRunsCleanUp` | `ServersEndWithLoneRuns` | the same |
| `EffectsProofs!RequestsBounded` | `RequestsStayInBounds` | `EffectsAssumption`: bounds are numbers, 0 is no server |
| `EffectsProofs!ExchangesHonest` | `ExchangesAreHonest` | the same |
| `EffectsProofs!CommandsTrue` | `CommandsAreReportedTruly` | the same, which the part about commands does not use |
| `EffectsProofs!SessionInStep` | `SessionIsInStep` | the same |
| `KnowledgeProofs!CatchesUp` | `IndexCatchesUp`, of `CodeKnowledgeIsSound`: after the last build the index is the linked index of the files within the limits, less what the build missed, unless a save came between | `IndexAssumption`: finitely many paths, files with finitely many declarations |
| `KnowledgeProofs!LosesNothing` | `UpdatesLoseNothing`, of the same: reading one file again resolves what linking all from nothing would | the same |
| `KnowledgeProofs!RequestsFindTheirEndpoints` | `RequestsAreAttributed`, of `AnswersAreGrounded` | `CatalogAssumption`: templates and paths are sequences of segments, none of a path empty; ids and limits are numbers |
| `KnowledgeProofs!SearchesFindTheBest` | `SearchesAreReproducible`, of the same | the same |
| `KnowledgeProofs!RetrievalsAreRelevant` | `RetrievalIsRelevant`, of the same, for every index and question | `IsCode`: ids are distinct, imports are between files of the index; `IsQuestion`: at most four hops |
| `KnowledgeProofs!SkillsAreApplicable` | `SkillsApply`, of the same, for every sequence of skills added and every run | `IsSkill` |
| `KnowledgeProofs!MemoriesAreScoped` | `MemoryIsScoped`, of the same, for every sequence of calls on the store | `IsOp`: a call is one of the four, with its scope |

Each proof has one inductive invariant (`IInv` unless it is named below), which
TLC checked on the bounds of the run before it was proved, and one step per action.
What the invariants add to the properties:

*Engine.* `WriteFrontier` alone is not inductive: a patch could name one file
twice. The invariant adds `Bookkeeping` (the staged changes are for distinct
files of the patch, in its order, and `written` counts a prefix). Every action
of a call moves its own frontier by one write or one restore; the lemma
`StrayMarks` says that the file it writes strays from every other call that has
staged it, and `FrontierOthers` concludes that their frontiers hold still.

*Refinement.* `RInv` adds what holds when calls have their files to themselves:
the calls in flight touch different files (`Separate`), only a failure leaves a
file behind (`Unstrayed`), and what is staged is the effect of the patch on what
was read (`StagesEffects`), which is what was there or, of a file that could not
be read, nothing (`ReadsTold`). Then the tree seen from outside is, file by file, what
a call staged from, or what is on disk (`Seen`). Staging, writing and restoring
leave that tree alone and are stutters; the last write is `Commit`, a preview
`Show`, a refusal `Refuse`, each on the tree without the unread files, and the end of a call whose write failed, rolled back
or not, `Fail` with what strayed.

*Diff.* The state machine is a pipeline, so `ReviewInv` only says that each
stage holds what the function of that stage makes of the one before; the work is
in what those functions compute, for texts of any length. The prover cannot
instantiate an induction theorem that takes a predicate, so `Induction` and
`SequenceInduction` state induction about *sets* (a set of numbers that holds 0
and the successor of each member holds all), and each argument names the set of
lengths, cells or positions for which its claim holds. What a recursive function
or a fold is equal to (`WalkEquation`, `TableEquation`, `PickedTable`,
`FoldExists`) follows by building the table from below.
Exactness goes down the walk cell by cell (`WalkSpells`). Minimality needs that a
longest common subsequence can be cut at either end: `LongestConsEqual` and
`LongestConsDifferent` give the table its meaning (`TableIsLongest`),
`LongestWithHead` and `LongestWithTail` say that trimming loses nothing.
`OnlyVerifiedLinesReplaced` follows the cursor through each hunk (`LineTaken`),
where a line is taken only if it was compared. For `CarriedDiffReapplies`,
neighbouring hunks do not overlap and between them the texts are the same
(`OrderedPicks`, `NeighbouringHunks`), parsing gives back what was rendered
(`ParseRenders`; this is where `Carried` is needed), and the application of the
first hunks of the list leaves the cursor and the output where the script is
(`HunksApply`).

*Review.* A request carries what it read from one await to the next (`Job`), so
the invariant says what each of them holds at each place: the originals describe
the files of the patch, and what the user applied last has them or its request
still does (`Covered`). Of the patches nobody came between it says more: at most
one request has written and not marked yet, and it accounts for the difference
between registry and disk (`Truthful`); the originals captured are what will be
replaced (`Captured`, `Ready`); beside a revert there are only applications by
the agent that have not written (`Reverting`). No text is looked into: the proof
holds for any edits.

*Connection.* The invariant follows one call from the peer that makes it over
the streams to the handler and back: unmade calls left no trace (`Waited`),
a handler that runs has its request behind it (`Handled`), a cancellation follows
its request on the stream (`Carried`, `Orderly`), and a handler whose caller gave
up is told, or will be (`Stopped`), and a pending call is on its way, served,
answered, or its answer could not be encoded (`Answered`). That an id is never reused is part of it.

*Agent.* Approval needs that a standing grant speaks for the call it releases.
`Approval` says every remembered key was answered with yes; the lemma
`KeyFixesRisk` says two calls with one key have one risk, because a key holds
the qualified name of an external tool and built-in kinds have one risk each.
`Confirmation` ties `confirmed` to the prompt just answered; `Progress` ties
the failure count to the distance from the last iteration with a success.

*Delegation.* `Stage` says what the session was last seen to be at each await,
`InStep` that the service is behind what was decided by at most the request in
flight, which is why a retry repeats nothing. `SortedLast` says of the pages read so
far what `FirstResultIsNewest` says of all: the candidate is one of the usable
change sets, dated `createdAt`, and only one without a date of its own comes before
a later one.

*Repair.* The report is true at the end because every check passed on the way
was passed on the present tree: `Placed` says so of the checks before the
running one. Each report is compared with the one before only; `Given` says that
this is the last one an attempt was given, and by transitivity the count of
errors never grows over all attempts.

*Lifecycle.* Per run: a cancellation that came early stays heard at every place
before the loop and at the ways out (`Heeded`); the row follows the place of the
run as long as the store works (`Kept`); a run that met no other has its registry
in the shared field until it closes it (`Served`); what was stored is what was
emitted less the faults (`Persisted`).

*Effects.* A behaviour runs one of the three, so `IInv` is one invariant for each.
A request: once another origin was on the way, no header carries credentials
(`Stripped`; never again, although the chain may come back), hops and redirects
take turns (`Hops`), what is about to be fetched was checked (`Vetted`), and what
a header holds the redactor knows, or the caller gave it, or it is short
(`Redactable`); so what any server was sent (`Handed`). A session: what is under way comes from
its client (`FromClient`), and unless the session is about to ask again, the last
list under way, or the one shown, is the registry's but for what is `unheard`
(`Followed`): `ViewIsCurrent` says so only at rest, and is not inductive.

*Knowledge: the index.* `IndexInv` says what a build that no save overtook has
read and has yet to read: together the files there are (`ReadsWhatIsThere`); no
file twice (`ReadOnce`). With that, what `Finish` links is what `Present` holds.
An update needs that linking is idempotent in the right sense: what a file hands
on depends on its declarations and exports, not on its references (`Alike`,
`TargetAlike`), so forgetting what was resolved and linking again finds at least
as much. `IndexAssumption` and `CatalogAssumption` are conditions on parameters
that only these theorems need, so they are hypotheses; `MCKnowledge` assumes them
of its samples and TLC evaluates them.

*Knowledge: the catalog.* `CatalogInv` says that the list of records, if cached,
is that of the APIs imported, and an answer is what the question gives of the
APIs it was asked of. The rest is about functions: `Captured` puts a path back
together (`CapturedIs`), a template that says more captures less
(`RefinesHasFewer`), and two sorts of the same records by two keys that tell them
apart agree (`OneOrder`), which is why the order of imports does not show. The
theorems are about imports and questions to the catalog; `CreatePlan`, which
`IntegrationPlan` adds, leaves an answer neither property speaks of.

*Knowledge: prompts.* These are functions of their input, so there is no
invariant but the one of their loops. What `collect()` and `select()` took of the
elements they have gone through is in its budget, nothing they left out has room,
and nothing that ranks below it and is as large was taken (`FilledSoFar`); an
element that fits keeps that (`TakesUp`), and so does one that does not
(`LeavesOut`). A fold over a sequence is what a run over it computes (`FoldsRun`),
which makes it provable by induction over sequences. Of the scores it matters
where they lie: a declaration scores just when the question has to do with it,
one that is named at least forty units, one that is neither named nor uses what is
at most seventeen (`ScoreIs`); the files met in a number of rounds are those that
a walk of so many imports leads to (`MetIs`). The registry holds one skill for
each name, the last of the project's own or else the last (`RegistryIs`). A store
holds for each entry the call that said it, with nothing later that would have
changed it (`AfterSaid`), and a call on another scope commutes with dropping one
(`DropsStep`). One hypothesis is more than a type, four hops: the model counts
scores in twelfths, in which 8 divided by the hop is whole up to four (the default
is one). `MCKnowledge` assumes these of its samples, and TLC evaluates them.
`SkillsApply` says of an order among skills only that one that was asked for is not
behind one that was not *and whose evidence adds up to less than the thousand that
asking counts for*: `scoreOne()` sums dependencies, extensions and keywords without
a bound, so asking does not always win, and the samples hold a skill for which it
does not.

**Only model-checked.**

- Liveness (`RunEnds`, `DelegationEnds`, `LoopEnds`, `AbandonedWorkIsStopped`,
  `RunsAreAnswered`, `WhatWasStartedEnds`): the prover has no ENABLED.
- The rest of what the run `knowledge` checks: the references its functions are
  held against are recursive operators over schemas, documents and graphs, which
  the prover does not accept; what a circular walk of re-exports or of a graph
  computes is an induction over data; and two parts are true within bounds only
  (a name re-exported through more files than `MaxExportDepth` is not resolved,
  and retrieval divides by the number of hops, which is exact up to four).
- The type of the tree in `PatchReview`: what an edit makes of a text is a fold over
  replacements, and no property proved of the review looks into a text.

Some leaves carry a longer timeout (`SMTT(60)`, `ZenonT(60)`) than they need on
an idle machine, so that the proofs do not depend on its speed.

## 6 Where the code and its documents disagree

Shown by a run (the traces are short; `PROJECT.json` quotes both sides):

1. `diff.ts:279`: the parser takes a hunk's line beginning `---` or `+++` for a
   file header, so a removed SQL or Lua comment is lost and the rest of the diff
   applied.
2. `orchestrator.ts:603`: one field holds the MCP registry of whichever run came
   last, and each run's end closes what is in that field: the servers of a run
   that was overlapped are never closed.

Seen while modelling. Each is in a model as the code has it, and the property it
concerns says what holds instead:

*Patches*
- `patch.ts:180`: a content hash is compared while staging only, so a file saved
  before it is written is overwritten, which the header of the engine excludes.
- `patch.ts:182`: a `writeFile` that fails after truncating its file is not
  rolled back, although the header says a patch "either fully applies or fully
  rolls back". `WriteFrontier` shows that this file alone is affected.
- `server.ts:473`: the originals for a revert are captured by a staging of their
  own, so "restoring is exact" fails when a file is saved in between.
- `patch.ts:385`: any error of a read comes back as "there is no file": a creation
  goes over a file that could not be read, and a rollback, or a revert, removes it.
  `ImplementsAtomicPatch` says that this happens to unread files alone.
- `patch.ts:189`: "rolled back; the working tree is unchanged" is answered whatever
  the rollback came to; a file left half-written or not restored stays so while the
  registry still says "proposed" (or "applied", of a revert). `RegistryMatchesDisk`
  excepts the patches whose requests failed that way.
- `tools/index.ts:423`: a patch the agent applies has no originals recorded,
  although `docs/ARCHITECTURE.md:533` promises an exact revert of applied
  changes. `UserAppliedIsRevertible` is the part that holds.

*Runs*
- `runtime.ts:236`: a turn cut short by cancellation counts as failing; the run
  may end `Ok` with `repeated_failures`.
- `delegation.ts:332`: after a repair instruction the loop judges the old,
  completed session, fetches the change set that just failed, and asks again.
- `permissions.ts:13`: "a server's self-description may raise the risk this system
  assigns, never lower it", but `:175` takes a read-only hint for one step down.
  `ClaimsNeverEase` says how far that goes: only where the project has waived
  approval for the server, and in the two modes that ask for grave writes.
- `risk.ts:183`: an action that demands confirmation is asked about before the
  mode is looked at, so read-only mode asks, and a granted write runs, although
  `risk.ts:38` says that mode approves nothing interactively.
- `repair.ts`: attempts are compared by counting errors of reports that may be
  on different checks. Fixing the type check and so uncovering more, older, test
  failures is reported as a regression; as many errors in other places go on,
  so A, B, A is possible up to the bound.
- `connection.ts:341`: what `send()` answers is not looked at, so a handler whose
  result cannot be encoded (a circular value, a bigint) is answered by nothing, and
  its caller waits for its own timeout. `PendingIsAnswerable` excepts just these.
- `provider.ts:203`: a session of more pages than `MAX_ACTIVITY_PAGES` is cut without
  a word; an activity whose time cannot be read is dated now and passes for the newest
  (`mapping.ts:84`); a change set above `MAX_PATCH_BYTES` is left out and an older one
  handed over as the result (`mapping.ts:231`). `FirstResultIsNewest` is about the
  change sets that are left.
- `exec-engine/src/executor.ts:271`: a command somebody else killed (out of memory, a
  signal) comes back as one that failed, and `pipeline.ts:157` reads its partial output
  for errors, so a repair attempt may be spent on it. `ReportIsCurrent` and
  `RepairsRealFailures` say that these are still errors of the tree, or name no place.
- `orchestrator.ts:141`: a request aborted while the provider is being resolved never
  reaches the run's controller: `AbortRequest` has it, and `EarlyCancelIsHeard` begins
  at the await after. The counts of applied patches
  include earlier runs', so a run that applied nothing is validated. A cancelled
  run is stored as failed, and what `finishRun` answers is not looked at. A run
  without an index returns early and leaves its row "running".
- `summaries.ts` and the live timeline: the gap filler ignores the run of an
  event, and events after a run was closed are numbered from 1 again.
- `extension.ts`: the palette's commands pick the patch anew for each of review,
  apply and revert; `activeRunId` is cleared by the end of any run; a server that dies early
  after each opened project is restarted for ever, because opening resets the
  count (`SpinStops` is about deaths before that).
- `extension.ts:393`: a run that fails, a decision that times out at the client
  (`connection.ts:169`) and a list that fails (`:569`) are not followed by a refresh,
  and no event is sent of a patch the agent applies (`tools/index.ts:421`): until the
  next list the Changes view may show as proposed what was applied. `ViewIsCurrent`
  excepts just these patches.

*Requests and commands*
- `auth.ts`: `isConfigured` accepts schemes that `applyScheme` refuses
  (client credentials, HMAC, a key in the query), and `satisfiableOption` takes
  the first such option although a later one would work.
- `api-engine/src/executor.ts:342`: `ssrf.ts:90` says the address that was validated
  must be pinned, but `send()` drops it and `fetch` looks the name up again, so that
  the request may go where nothing was checked. `EveryHopIsChecked` promises agreement
  of the two for literal addresses only.
- `api-engine/src/executor.ts:458`, `:466`: the status text and the URLs of redirects
  are returned as the servers wrote them, although they may echo what they were sent;
  and redaction follows the cut at the cap, which may leave the first part of a secret.
  `ExchangeTellsNoSecret` is about the rest.
- `api-engine/src/executor.ts`: the timer is cleared when the headers are in, so
  a body that stalls has no deadline; a body of exactly the cap is called
  truncated; a key in a header of its own name is not in `CREDENTIAL_HEADERS`
  and follows a redirect to another origin.
- `exec-engine/src/executor.ts:216`: a command started in a cancelled run is not
  told. `:240`: a descendant outside the group that holds the output keeps
  `run()` from settling.

*Code*
- `indexer.ts:226`: a listing cut at its limit, files above the limits of size or
  lines and files that cannot be read are missing from the index without a word to
  who asks it (only counted among the skipped, the listing's rest not even that); and
  a build that a save overtook, if it ends last, leaves the index behind the files
  (`project.ts:398`). `IndexCatchesUp` excepts these, by `Readable`, `missed` and
  `changed`.
- `indexer.ts:477`: names that come through an `export *` barrel are never
  resolved (only names exported one by one are looked up); a private declaration
  is taken for the export of its file; a re-exported name is taken for a binding
  of the file that re-exports it. `updateFile` keeps targets of names that are
  gone, which `UpdatesLoseNothing` therefore does not exclude.
- `impact.ts`: a walk cut by its depth is not called truncated, and one that ends
  exactly at its cap is; users through a namespace import are neither reported
  nor named as a blind spot.

*APIs*
- `conflicts.ts:466`: statuses are compared as they are written, so a 201 seen where
  "2XX" or "default" is documented is reported as undocumented, which
  `FollowersDoNotConflict` excepts.
- `conflicts.ts`: an observed enum against a documented type it does not fit is
  no conflict; a field too many in a union's variant is an error rather than a
  remark; comparing an API with itself reports undocumented endpoints when two of
  its aligned paths shadow each other.
- `infer.ts`: two unions merge to the first; a nullable is lost when merged with
  an unknown.
- `openapi.ts`: keywords beside `allOf`, `oneOf` or `anyOf` are dropped without a
  warning, and so are a `const` that is a list or an object, an `enum` beside a
  `const`, and keywords `toSchema()` does not read (`if`, `contains`,
  `patternProperties`, ...); references of references are not followed; path-level
  body and form parameters of Swagger 2 are lost.
- `curl.ts`: values attached to a short flag (`-XPOST`) are not read, so the
  method is lost; a flag that takes a value and is not in `VALUE_FLAGS`
  (`--cacert`, `-w`, `-T`) makes its value the URL; fields of `-F` without a file
  are recorded as URL-encoded; later URLs replace earlier ones, which its comment
  (`curl.ts:293`) calls curl's own behaviour.
- `postman.ts`: auth blocks of folders are never read, although `postman.ts:509`
  speaks of "collection, folder, or request level"; a request's `noauth` still inherits
  the collection's; every Authorization header is a bearer scheme; a variable
  with a whole address as host gives the origin `https://https://...`; a query
  name given twice is two string parameters, where curl's importer has one array.
- `docs.ts`: the lines before the first heading count one too many, so an
  endpoint stated in that heading is also in the preamble's section, which comes
  first and has none of its tables; a block called `json body` is both request
  and response.

*Plans*
- `planner.ts:184`: an endpoint id that two APIs share maps to the last of them,
  while the catalog finds it in the first. `PlansAreGrounded` is about ids that
  tell endpoints apart.
- `matching.ts:384`: "A file the user named outranks everything", but every matching
  declaration of a file adds to its score (`:416`) and nothing bounds the sum, so a
  file of fifty declarations that share words with the text passes the hundred of a
  named one. `WhatIsNamedDecides` is about files that share fewer (`few`).
- `planner.ts`: steps may say to extend a file that `protectedFiles` says to
  leave alone; "a file the user named outranks it" fails against a file that
  declares a named symbol and calls the endpoint; a call-site file that is no
  candidate is never a target; confidence can be high while "Which is meant?" is
  open. Matching compares neither methods nor origins.

*Prompts and the web console*
- `retrieval.ts`: every use of a named declaration adds to the score of what uses
  it, so a user with more than a dozen uses outranks the declaration that was named.
- `skill-engine/src/registry.ts:316`: "An explicitly requested skill is loaded
  whatever else is true", but both limits apply to it as to the others. `:6`: that
  the project depends on it "outranks everything else" is true of one piece of
  evidence against another; scores are sums, and eight matched keywords weigh more.
- `memory/src/store.ts:29`: the sink is "written through on every change", but
  `forget` and `forgetScope` do not reach it: what was forgotten is back after
  a `hydrate`.
- `LiveTimeline.tsx:57`: the timeline listens with `onmessage`, which is not given
  events that have a name, and `http.ts:302` names every event.

## 7 What is not modelled

The parts of the inventory without a module have status `not_modelled` in
`PROJECT.json`, each with its reason: pure I/O (git, file reading), presentation
(web console), text filters (the coding agent's safety filter), and small
sequential parts whose tests reach what a model would (router and providers). Of
the server, routing, parsing and the Supabase client are left out; of the
analyzer, the syntax trees; of skills, reading their files; of memory, the
patterns that tell a credential, and the sink; of the graph, the queries of
display; of the planner, the rendered brief; of the importers, fetching
(`postman-api.ts`), the choice of a format (`source.ts`) and text (titles, HTML,
tables cell by cell).

Within the modelled parts: the texts of messages and prompts, diagnostics and
their grouping, the arithmetic of durations, bytes that are not UTF-8, directory
creation, file modes and
line endings, the Windows branches of command execution, and queries on the
run history.

Hazards of the code that no property covers:

- `tools/index.ts:423`, `delegation.ts:332`, `risk.ts:183`: divergences of
  section 6, where the code's choice leaves nothing to check.
- `patch.ts:180` (a save that is overwritten), `exec-engine/src/executor.ts:216` (a
  command deaf to a cancellation that came before it), `project.ts:398` (the last build
  to finish wins), `planner.ts:184` (an id two APIs share): in the models, and
  excepted by the properties, since the code does them.
- `connection.ts:253`: frames read before `dispose()` are dispatched after it, so
  a handler may begin on a closed connection. `RpcConnection` has the behaviour;
  no document says it must not happen.
- `runtime.ts:181`: a provider that neither answers nor notices its signal holds
  a run; `dispatcher.ts:240`: so does a tool's handler, which is awaited even
  after its timer fired. Fairness excludes both.
- `orchestrator.ts:430`: whether a run validates depends on patches of earlier
  runs; in the model, and stated by no document.
- `api-engine/src/executor.ts:411` (the stalled body) and
  `exec-engine/src/executor.ts:240`, `:218` (an escaped descendant; a signal
  aborted before the start): excluded by fairness, or excepted by name in
  `CommandsSettle`.
- `extension.ts:489`: the palette picks its patch twice; a matter of what the user
  reads between two prompts, which `EditorSession` does not show.

## 8 The plan

1. Proofs: that the call sites in a plan are calls (`CallSitesAreCalls` of
   `IntegrationPlan`); what `Permitted` of the command policy refuses.
2. Abstract specifications with a proof of the refinement: a *run* as a client
   sees it (started, events, exactly one end) implemented by `RunLifecycle`; an
   *exactly-once call* implemented by `RpcConnection`; the review's one-step
   application of a patch as a call of `AtomicPatch`.
3. Models: replay joined with the live stream of `gateway.ts`, and the text of
   plans, as functions with a reference.
