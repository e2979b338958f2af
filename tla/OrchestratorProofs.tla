------------------------ MODULE OrchestratorProofs -------------------------
(***************************************************************************)
(* What the orchestrator guarantees of runs, and of the validation and     *)
(* repair at their end.  Runs, for every number of runs, of servers, of    *)
(* tool calls and of store failures: the invariant adds to the properties  *)
(* what is known of a run at each of its awaits, and that the shared field *)
(* holds the registry of a run nobody else runs beside.  Repair, for every *)
(* set of configured checks, every number of places to blame and every     *)
(* budget: that the checks before the running one passed, and that the     *)
(* report in hand is the one the last attempt was asked to repair.         *)
(***************************************************************************)
EXTENDS RunLifecycle, RepairLoop, FiniteSetTheorems, TLAPS

Place == {"idle", "resolving", "recording", "connecting", "skills", "agent", "validating",
          "recordingFailure", "recordingEnd", "ended"}

(* From execute() on, and before it.                                       *)
Executing == {"connecting", "skills", "agent", "validating", "recordingFailure", "recordingEnd"}
Fresh == {"idle", "resolving", "recording"}

Staged(r) ==
  /\ pc[r] = "ended" <=> answer[r] # "none"
  /\ pc[r] \in Executing => r \in subscribed
  /\ pc[r] \in Fresh \cup BeforeAgent => steps[r] = 0

(* A cancellation that came early holds.                                   *)
Heeded(r) ==
  r \in heard =>
    /\ cancelled[r] /\ steps[r] = 0 /\ answer[r] # "ok"
    /\ pc[r] \in BeforeAgent \cup {"recordingFailure", "ended"}

(* The row of a run, while the store works.                                *)
Kept(r) ==
  faults = 0 =>
    /\ pc[r] \in {"idle", "resolving"} => record[r] = "none"
    /\ pc[r] \in Executing \cup {"recording"} => record[r] = "running"
    /\ pc[r] = "ended" =>
         (answer[r] = "ok" <=> record[r] = "completed") /\ (record[r] = "failed" => answer[r] = "error")

(* Servers are started while connecting; a run nobody met has its registry *)
(* in the field, and has closed it when it ended.                          *)
Served(r) ==
  /\ starting[r] # {} => pc[r] = "connecting"
  /\ pc[r] \in Fresh => servers[r] = {}
  /\ r \notin met =>
       /\ pc[r] \in Executing => current = r
       /\ pc[r] = "ended" => servers[r] = {}
       /\ UnderWay(r) => \A s \in Run : UnderWay(s) => s = r

Persisted(r) == stored[r] <= seq[r] /\ seq[r] - stored[r] <= faults

Life(r) == Staged(r) /\ Heeded(r) /\ Kept(r) /\ Served(r) /\ Persisted(r)

IInv == TypeOK /\ \A r \in Run : Life(r)

-----------------------------------------------------------------------------
(* A run that starts beside another is met, and so is the other.           *)
LEMMA StartRunKeeps ==
  ASSUME IInv, NEW r \in Run, StartRun(r)
  PROVE  IInv'
<1>1. TypeOK'
  BY DEF IInv, TypeOK, StartRun, At, request, project, processes, timeline
<1>2. ASSUME NEW q \in Run PROVE Staged(q)'
  BY DEF Life, Staged, Executing, Fresh, BeforeAgent, IInv, TypeOK, StartRun, At, request, project, processes,
     timeline
<1>3. ASSUME NEW q \in Run PROVE Heeded(q)'
  BY DEF Life, Heeded, Staged, Executing, Fresh, BeforeAgent, IInv, TypeOK, StartRun, At, request
<1>4. ASSUME NEW q \in Run PROVE Kept(q)'
  BY DEF Life, Kept, Staged, Executing, Fresh, BeforeAgent, IInv, TypeOK, StartRun, At, request
<1>5. ASSUME NEW q \in Run PROVE Served(q)'
  BY DEF Life, Served, UnderWay, Executing, Fresh, BeforeAgent, IInv, TypeOK, StartRun, At, request, project,
     processes, timeline
<1>6. ASSUME NEW q \in Run PROVE Persisted(q)'
  BY DEF Life, Persisted, Staged, Executing, Fresh, BeforeAgent, IInv, TypeOK, StartRun, At, request, project,
     processes, timeline
<1> QED
  BY <1>1, <1>2, <1>3, <1>4, <1>5, <1>6 DEF IInv, Life

(* Without a provider nothing was written and nothing spawned.             *)
LEMMA ProviderFailsKeeps ==
  ASSUME IInv, NEW r \in Run, ProviderFails(r)
  PROVE  IInv'
<1>1. TypeOK'
  BY DEF IInv, TypeOK, ProviderFails, At, request, project, processes, timeline
<1>2. ASSUME NEW q \in Run PROVE Staged(q)'
  BY DEF Life, Staged, Executing, Fresh, BeforeAgent, IInv, TypeOK, ProviderFails, At, request, project,
     processes, timeline
<1>3. ASSUME NEW q \in Run PROVE Heeded(q)'
  BY DEF Life, Heeded, Staged, Executing, Fresh, BeforeAgent, IInv, TypeOK, ProviderFails, At, request
<1>4. ASSUME NEW q \in Run PROVE Kept(q)'
  BY DEF Life, Kept, Staged, Executing, Fresh, BeforeAgent, IInv, TypeOK, ProviderFails, At, request
<1>5. ASSUME NEW q \in Run PROVE Served(q)'
  BY DEF Life, Served, UnderWay, Executing, Fresh, BeforeAgent, IInv, TypeOK, ProviderFails, At, request,
     project, processes, timeline
<1>6. ASSUME NEW q \in Run PROVE Persisted(q)'
  BY DEF Life, Persisted, Staged, Executing, Fresh, BeforeAgent, IInv, TypeOK, ProviderFails, At, request,
     project, processes, timeline
<1> QED
  BY <1>1, <1>2, <1>3, <1>4, <1>5, <1>6 DEF IInv, Life

(* The row is written, or a fault is counted.                              *)
LEMMA ProviderResolvedKeeps ==
  ASSUME IInv, NEW r \in Run, ProviderResolved(r)
  PROVE  IInv'
<1>1. TypeOK'
  BY LifecycleAssumption DEF IInv, TypeOK, ProviderResolved, At, Stores, request, project, processes, timeline
<1>2. ASSUME NEW q \in Run PROVE Staged(q)'
  BY DEF Life, Staged, Executing, Fresh, BeforeAgent, IInv, TypeOK, ProviderResolved, At, Stores, request,
     project, processes, timeline
<1>3. ASSUME NEW q \in Run PROVE Heeded(q)'
  BY DEF Life, Heeded, Staged, Executing, Fresh, BeforeAgent, IInv, TypeOK, ProviderResolved, At, Stores,
     request
<1>4. ASSUME NEW q \in Run PROVE Kept(q)'
  BY LifecycleAssumption DEF Life, Kept, Staged, Executing, Fresh, BeforeAgent, IInv, TypeOK,
     ProviderResolved, At, Stores
<1>5. ASSUME NEW q \in Run PROVE Served(q)'
  BY LifecycleAssumption DEF Life, Served, UnderWay, Executing, Fresh, BeforeAgent, IInv, TypeOK,
     ProviderResolved, At, Stores, request, project, processes, timeline
<1>6. ASSUME NEW q \in Run PROVE Persisted(q)'
  BY LifecycleAssumption DEF Life, Persisted, Staged, Executing, Fresh, BeforeAgent, IInv, TypeOK,
     ProviderResolved, At, Stores, request, project, processes, timeline
<1> QED
  BY <1>1, <1>2, <1>3, <1>4, <1>5, <1>6 DEF IInv, Life

(* Whoever is heard has called no tool yet.                                *)
LEMMA CancelRunKeeps ==
  ASSUME IInv, NEW r \in Run, CancelRun(r)
  PROVE  IInv'
<1>1. TypeOK'
  BY DEF IInv, TypeOK, CancelRun, Heard, request, project, processes, timeline
<1>2. ASSUME NEW q \in Run PROVE Staged(q)'
  BY DEF Life, Staged, Executing, Fresh, BeforeAgent, IInv, TypeOK, CancelRun, Heard, request, project,
     processes, timeline
<1>3. ASSUME NEW q \in Run PROVE Heeded(q)'
  BY DEF Life, Heeded, Staged, Executing, Fresh, BeforeAgent, IInv, TypeOK, CancelRun, Heard, request
<1>4. ASSUME NEW q \in Run PROVE Kept(q)'
  BY DEF Life, Kept, Staged, Executing, Fresh, BeforeAgent, IInv, TypeOK, CancelRun, Heard, request
<1>5. ASSUME NEW q \in Run PROVE Served(q)'
  BY DEF Life, Served, UnderWay, Executing, Fresh, BeforeAgent, IInv, TypeOK, CancelRun, Heard, request,
     project, processes, timeline
<1>6. ASSUME NEW q \in Run PROVE Persisted(q)'
  BY DEF Life, Persisted, Staged, Executing, Fresh, BeforeAgent, IInv, TypeOK, CancelRun, Heard, request,
     project, processes, timeline
<1> QED
  BY <1>1, <1>2, <1>3, <1>4, <1>5, <1>6 DEF IInv, Life

(* A request that is aborted is heard the same way, or by nobody.          *)
LEMMA AbortRequestKeeps ==
  ASSUME IInv, NEW r \in Run, AbortRequest(r)
  PROVE  IInv'
<1>1. TypeOK'
  BY DEF IInv, TypeOK, AbortRequest, Heard, request, project, processes, timeline
<1>2. ASSUME NEW q \in Run PROVE Staged(q)'
  BY DEF Life, Staged, Executing, Fresh, BeforeAgent, UnderWay, IInv, TypeOK, AbortRequest, Heard, request, project,
     processes, timeline
<1>3. ASSUME NEW q \in Run PROVE Heeded(q)'
  BY DEF Life, Heeded, Staged, Executing, Fresh, BeforeAgent, UnderWay, IInv, TypeOK, AbortRequest, Heard, request
<1>4. ASSUME NEW q \in Run PROVE Kept(q)'
  BY DEF Life, Kept, Staged, Executing, Fresh, BeforeAgent, UnderWay, IInv, TypeOK, AbortRequest, Heard, request
<1>5. ASSUME NEW q \in Run PROVE Served(q)'
  BY DEF Life, Served, UnderWay, Executing, Fresh, BeforeAgent, IInv, TypeOK, AbortRequest, Heard, request,
     project, processes, timeline
<1>6. ASSUME NEW q \in Run PROVE Persisted(q)'
  BY DEF Life, Persisted, Staged, Executing, Fresh, BeforeAgent, UnderWay, IInv, TypeOK, AbortRequest, Heard, request,
     project, processes, timeline
<1> QED
  BY <1>1, <1>2, <1>3, <1>4, <1>5, <1>6 DEF IInv, Life

(* execute() begins: the registry goes to the field, or the run is over.   *)
LEMMA RecordStartedKeeps ==
  ASSUME IInv, NEW r \in Run, RecordStarted(r)
  PROVE  IInv'
<1>1. TypeOK'
  BY LifecycleAssumption DEF IInv, TypeOK, RecordStarted, Emit, Stores, Subscribe, Close, CloseServers,
     request, project, processes, timeline
<1>2. ASSUME NEW q \in Run PROVE Staged(q)'
  BY DEF Life, Staged, Executing, Fresh, BeforeAgent, IInv, TypeOK, RecordStarted, Emit, Stores, Subscribe,
     Close, CloseServers
<1>3. ASSUME NEW q \in Run PROVE Heeded(q)'
  BY DEF Life, Heeded, Staged, Executing, Fresh, BeforeAgent, IInv, TypeOK, RecordStarted, Emit, Stores,
     Subscribe, Close, CloseServers, request, project, processes, timeline
<1>4. ASSUME NEW q \in Run PROVE Kept(q)'
  BY DEF Life, Kept, Staged, Executing, Fresh, BeforeAgent, IInv, TypeOK, RecordStarted, Emit, Stores,
     Subscribe, Close, CloseServers
<1>5. ASSUME NEW q \in Run PROVE Served(q)'
  BY DEF Life, Served, UnderWay, Executing, Fresh, BeforeAgent, IInv, TypeOK, RecordStarted, Emit, Stores,
     Subscribe, Close, CloseServers
<1>6. ASSUME NEW q \in Run PROVE Persisted(q)'
  BY DEF Life, Persisted, Staged, Executing, Fresh, BeforeAgent, IInv, TypeOK, RecordStarted, Emit, Stores,
     Subscribe, Close, CloseServers
<1> QED
  BY <1>1, <1>2, <1>3, <1>4, <1>5, <1>6 DEF IInv, Life

(* Servers are spawned and registered while the run connects.              *)
LEMMA SpawnServerKeeps ==
  ASSUME IInv, NEW r \in Run, NEW s \in Server, NEW works \in BOOLEAN, SpawnServer(r, s, works)
  PROVE  IInv'
<1>1. TypeOK'
  BY LifecycleAssumption DEF IInv, TypeOK, SpawnServer, request, project, processes, timeline
<1>2. ASSUME NEW q \in Run PROVE Staged(q)'
  BY DEF Life, Staged, Executing, Fresh, BeforeAgent, IInv, TypeOK, SpawnServer, request, project, processes,
     timeline
<1>3. ASSUME NEW q \in Run PROVE Heeded(q)'
  BY DEF Life, Heeded, Staged, Executing, Fresh, BeforeAgent, IInv, TypeOK, SpawnServer, request
<1>4. ASSUME NEW q \in Run PROVE Kept(q)'
  BY LifecycleAssumption DEF Life, Kept, Staged, Executing, Fresh, BeforeAgent, IInv, TypeOK, SpawnServer,
     request
<1>5. ASSUME NEW q \in Run PROVE Served(q)'
  BY LifecycleAssumption DEF Life, Served, UnderWay, Executing, Fresh, BeforeAgent, IInv, TypeOK, SpawnServer,
     request
<1>6. ASSUME NEW q \in Run PROVE Persisted(q)'
  BY LifecycleAssumption DEF Life, Persisted, Staged, Executing, Fresh, BeforeAgent, IInv, TypeOK,
     SpawnServer, request, project, processes, timeline
<1> QED
  BY <1>1, <1>2, <1>3, <1>4, <1>5, <1>6 DEF IInv, Life

(* A server that answers late is left to the registry it was started by.   *)
LEMMA ServerAnswersKeeps ==
  ASSUME IInv, NEW r \in Run, NEW s \in Server, NEW works \in BOOLEAN, ServerAnswers(r, s, works)
  PROVE  IInv'
<1>1. TypeOK'
  BY LifecycleAssumption DEF IInv, TypeOK, ServerAnswers, Left, Registered, request, project, processes,
     timeline
<1>2. ASSUME NEW q \in Run PROVE Staged(q)'
  BY DEF Life, Staged, Executing, Fresh, BeforeAgent, IInv, TypeOK, ServerAnswers, project, processes,
     timeline
<1>3. ASSUME NEW q \in Run PROVE Heeded(q)'
  BY DEF Life, Heeded, Staged, Executing, Fresh, BeforeAgent, IInv, TypeOK, ServerAnswers, Left, Registered,
     request
<1>4. ASSUME NEW q \in Run PROVE Kept(q)'
  BY LifecycleAssumption DEF Life, Kept, Staged, Executing, Fresh, BeforeAgent, IInv, TypeOK, ServerAnswers,
     Left, Registered
<1>5. ASSUME NEW q \in Run PROVE Served(q)'
  BY LifecycleAssumption DEF Life, Served, UnderWay, Executing, Fresh, BeforeAgent, IInv, TypeOK,
     ServerAnswers, Left, Registered
<1>6. ASSUME NEW q \in Run PROVE Persisted(q)'
  BY LifecycleAssumption DEF Life, Persisted, Staged, Executing, Fresh, BeforeAgent, IInv, TypeOK,
     ServerAnswers, Left, Registered, request, project, processes, timeline
<1> QED
  BY <1>1, <1>2, <1>3, <1>4, <1>5, <1>6 DEF IInv, Life

(* The steps of a run that is in the field and only emit.                  *)
LEMMA ConnectedKeeps ==
  ASSUME IInv, NEW r \in Run, Connected(r)
  PROVE  IInv'
<1>1. TypeOK'
  BY LifecycleAssumption DEF IInv, TypeOK, Connected, At, Emit, Stores, request, project, processes, timeline
<1>2. ASSUME NEW q \in Run PROVE Staged(q)'
  BY DEF Life, Staged, Executing, Fresh, BeforeAgent, IInv, TypeOK, Connected, At
<1>3. ASSUME NEW q \in Run PROVE Heeded(q)'
  BY DEF Life, Heeded, Staged, Executing, Fresh, BeforeAgent, IInv, TypeOK, Connected, At, Emit, Stores,
     request, project, processes, timeline
<1>4. ASSUME NEW q \in Run PROVE Kept(q)'
  BY DEF Life, Kept, Staged, Executing, Fresh, BeforeAgent, IInv, TypeOK, Connected, At, Emit, Stores
<1>5. ASSUME NEW q \in Run PROVE Served(q)'
  BY DEF Life, Served, UnderWay, Executing, Fresh, BeforeAgent, IInv, TypeOK, Connected, At, Emit, Stores,
     request, project, processes, timeline
<1>6. ASSUME NEW q \in Run PROVE Persisted(q)'
  BY DEF Life, Persisted, Staged, Executing, Fresh, BeforeAgent, IInv, TypeOK, Connected, At, Emit, Stores
<1> QED
  BY <1>1, <1>2, <1>3, <1>4, <1>5, <1>6 DEF IInv, Life

(* The agent begins unless the run was cancelled.                          *)
LEMMA SkillsSelectedKeeps ==
  ASSUME IInv, NEW r \in Run, SkillsSelected(r)
  PROVE  IInv'
<1>1. TypeOK'
  BY LifecycleAssumption DEF IInv, TypeOK, SkillsSelected, At, AgentStarts, Emit, Stores, request, project,
     processes, timeline
<1>2. ASSUME NEW q \in Run PROVE Staged(q)'
  BY DEF Life, Staged, Executing, Fresh, BeforeAgent, IInv, TypeOK, SkillsSelected, At, AgentStarts, Emit,
     Stores
<1>3. ASSUME NEW q \in Run PROVE Heeded(q)'
  BY DEF Life, Heeded, Staged, Executing, Fresh, BeforeAgent, IInv, TypeOK, SkillsSelected, At, AgentStarts,
     Emit, Stores, request, project, processes, timeline
<1>4. ASSUME NEW q \in Run PROVE Kept(q)'
  BY LifecycleAssumption DEF Life, Kept, Staged, Executing, Fresh, BeforeAgent, IInv, TypeOK, SkillsSelected,
     At, AgentStarts, Emit, Stores
<1>5. ASSUME NEW q \in Run PROVE Served(q)'
  BY LifecycleAssumption DEF Life, Served, UnderWay, Executing, Fresh, BeforeAgent, IInv, TypeOK,
     SkillsSelected, At, AgentStarts, Emit, Stores, request, project, processes, timeline
<1>6. ASSUME NEW q \in Run PROVE Persisted(q)'
  BY LifecycleAssumption DEF Life, Persisted, Staged, Executing, Fresh, BeforeAgent, IInv, TypeOK,
     SkillsSelected, At, AgentStarts, Emit, Stores
<1> QED
  BY <1>1, <1>2, <1>3, <1>4, <1>5, <1>6 DEF IInv, Life

(* The loop of the agent fails,                                            *)
LEMMA AgentFailsKeeps ==
  ASSUME IInv, NEW r \in Run, AgentFails(r)
  PROVE  IInv'
<1>1. TypeOK'
  BY LifecycleAssumption DEF IInv, TypeOK, AgentFails, At, Emit, Stores, request, project, processes, timeline
<1>2. ASSUME NEW q \in Run PROVE Staged(q)'
  BY DEF Life, Staged, Executing, Fresh, BeforeAgent, IInv, TypeOK, AgentFails, At
<1>3. ASSUME NEW q \in Run PROVE Heeded(q)'
  BY DEF Life, Heeded, Staged, Executing, Fresh, BeforeAgent, IInv, TypeOK, AgentFails, At, Emit, Stores,
     request, project, processes, timeline
<1>4. ASSUME NEW q \in Run PROVE Kept(q)'
  BY DEF Life, Kept, Staged, Executing, Fresh, BeforeAgent, IInv, TypeOK, AgentFails, At, Emit, Stores
<1>5. ASSUME NEW q \in Run PROVE Served(q)'
  BY DEF Life, Served, UnderWay, Executing, Fresh, BeforeAgent, IInv, TypeOK, AgentFails, At, Emit, Stores,
     request, project, processes, timeline
<1>6. ASSUME NEW q \in Run PROVE Persisted(q)'
  BY DEF Life, Persisted, Staged, Executing, Fresh, BeforeAgent, IInv, TypeOK, AgentFails, At, Emit, Stores
<1> QED
  BY <1>1, <1>2, <1>3, <1>4, <1>5, <1>6 DEF IInv, Life

(* or concludes, and the run goes on to validate or to its end,            *)
LEMMA AgentConcludesKeeps ==
  ASSUME IInv, NEW r \in Run, AgentConcludes(r)
  PROVE  IInv'
<1>1. TypeOK'
  BY LifecycleAssumption DEF IInv, TypeOK, AgentConcludes, At, Emit, Stores, request, project, processes,
     timeline
<1>2. ASSUME NEW q \in Run PROVE Staged(q)'
  BY DEF Life, Staged, Executing, Fresh, BeforeAgent, IInv, TypeOK, AgentConcludes, At
<1>3. ASSUME NEW q \in Run PROVE Heeded(q)'
  BY DEF Life, Heeded, Staged, Executing, Fresh, BeforeAgent, IInv, TypeOK, AgentConcludes, At, Emit, Stores,
     request, project, processes, timeline
<1>4. ASSUME NEW q \in Run PROVE Kept(q)'
  BY DEF Life, Kept, Staged, Executing, Fresh, BeforeAgent, IInv, TypeOK, AgentConcludes, At, Emit, Stores
<1>5. ASSUME NEW q \in Run PROVE Served(q)'
  BY DEF Life, Served, UnderWay, Executing, Fresh, BeforeAgent, IInv, TypeOK, AgentConcludes, At, Emit,
     Stores, request, project, processes, timeline
<1>6. ASSUME NEW q \in Run PROVE Persisted(q)'
  BY DEF Life, Persisted, Staged, Executing, Fresh, BeforeAgent, IInv, TypeOK, AgentConcludes, At, Emit,
     Stores
<1> QED
  BY <1>1, <1>2, <1>3, <1>4, <1>5, <1>6 DEF IInv, Life

(* which it reaches after validation too.                                  *)
LEMMA ValidatedKeeps ==
  ASSUME IInv, NEW r \in Run, Validated(r)
  PROVE  IInv'
<1>1. TypeOK'
  BY LifecycleAssumption DEF IInv, TypeOK, Validated, At, Emit, Stores, request, project, processes, timeline
<1>2. ASSUME NEW q \in Run PROVE Staged(q)'
  BY DEF Life, Staged, Executing, Fresh, BeforeAgent, IInv, TypeOK, Validated, At
<1>3. ASSUME NEW q \in Run PROVE Heeded(q)'
  BY DEF Life, Heeded, Staged, Executing, Fresh, BeforeAgent, IInv, TypeOK, Validated, At, Emit, Stores,
     request, project, processes, timeline
<1>4. ASSUME NEW q \in Run PROVE Kept(q)'
  BY DEF Life, Kept, Staged, Executing, Fresh, BeforeAgent, IInv, TypeOK, Validated, At, Emit, Stores
<1>5. ASSUME NEW q \in Run PROVE Served(q)'
  BY DEF Life, Served, UnderWay, Executing, Fresh, BeforeAgent, IInv, TypeOK, Validated, At, Emit, Stores,
     request, project, processes, timeline
<1>6. ASSUME NEW q \in Run PROVE Persisted(q)'
  BY DEF Life, Persisted, Staged, Executing, Fresh, BeforeAgent, IInv, TypeOK, Validated, At, Emit, Stores
<1> QED
  BY <1>1, <1>2, <1>3, <1>4, <1>5, <1>6 DEF IInv, Life

(* A tool is called by a run that was not cancelled.                       *)
LEMMA AgentCallsKeeps ==
  ASSUME IInv, NEW r \in Run, NEW writes \in BOOLEAN, AgentCalls(r, writes)
  PROVE  IInv'
<1>1. TypeOK'
  BY LifecycleAssumption DEF IInv, TypeOK, AgentCalls, Emit, Stores, request, project, processes, timeline
<1>2. ASSUME NEW q \in Run PROVE Staged(q)'
  BY DEF Life, Staged, Executing, Fresh, BeforeAgent, IInv, TypeOK, AgentCalls
<1>3. ASSUME NEW q \in Run PROVE Heeded(q)'
  BY DEF Life, Heeded, Staged, Executing, Fresh, BeforeAgent, IInv, TypeOK, AgentCalls, Emit, Stores, request
<1>4. ASSUME NEW q \in Run PROVE Kept(q)'
  BY LifecycleAssumption DEF Life, Kept, Staged, Executing, Fresh, BeforeAgent, IInv, TypeOK, AgentCalls,
     Emit, Stores
<1>5. ASSUME NEW q \in Run PROVE Served(q)'
  BY LifecycleAssumption DEF Life, Served, UnderWay, Executing, Fresh, BeforeAgent, IInv, TypeOK, AgentCalls,
     Emit, Stores, request, project, processes, timeline
<1>6. ASSUME NEW q \in Run PROVE Persisted(q)'
  BY LifecycleAssumption DEF Life, Persisted, Staged, Executing, Fresh, BeforeAgent, IInv, TypeOK, AgentCalls,
     Emit, Stores
<1> QED
  BY <1>1, <1>2, <1>3, <1>4, <1>5, <1>6 DEF IInv, Life

(* The run is answered and its own registry is closed, when it was alone.  *)
LEMMA FailureRecordedKeeps ==
  ASSUME IInv, NEW r \in Run, FailureRecorded(r)
  PROVE  IInv'
<1>1. TypeOK'
  BY LifecycleAssumption DEF IInv, TypeOK, FailureRecorded, At, Stores, Recorded, Close, CloseServers,
     request, project, processes, timeline
<1>2. ASSUME NEW q \in Run PROVE Staged(q)'
  BY DEF Life, Staged, Executing, Fresh, BeforeAgent, IInv, TypeOK, FailureRecorded, At, Stores, Recorded,
     Close, CloseServers
<1>3. ASSUME NEW q \in Run PROVE Heeded(q)'
  BY DEF Life, Heeded, Staged, Executing, Fresh, BeforeAgent, IInv, TypeOK, FailureRecorded, At, Stores,
     Recorded, Close, CloseServers
<1>4. ASSUME NEW q \in Run PROVE Kept(q)'
  BY DEF Life, Kept, Staged, Executing, Fresh, BeforeAgent, IInv, TypeOK, FailureRecorded, At, Stores,
     Recorded, Close, CloseServers
<1>5. ASSUME NEW q \in Run PROVE Served(q)'
  BY LifecycleAssumption DEF Life, Served, UnderWay, Executing, Fresh, BeforeAgent, IInv, TypeOK,
     FailureRecorded, At, Stores, Recorded, Close, CloseServers
<1>6. ASSUME NEW q \in Run PROVE Persisted(q)'
  BY DEF Life, Persisted, Staged, Executing, Fresh, BeforeAgent, IInv, TypeOK, FailureRecorded, At, Stores,
     Recorded, Close, CloseServers
<1> QED
  BY <1>1, <1>2, <1>3, <1>4, <1>5, <1>6 DEF IInv, Life

(* The same at the other end of a run.                                     *)
LEMMA EndRecordedKeeps ==
  ASSUME IInv, NEW r \in Run, EndRecorded(r)
  PROVE  IInv'
<1>1. TypeOK'
  BY LifecycleAssumption DEF IInv, TypeOK, EndRecorded, At, Stores, Recorded, Close, CloseServers, request,
     project, processes, timeline
<1>2. ASSUME NEW q \in Run PROVE Staged(q)'
  BY DEF Life, Staged, Executing, Fresh, BeforeAgent, IInv, TypeOK, EndRecorded, At, Stores, Recorded, Close,
     CloseServers
<1>3. ASSUME NEW q \in Run PROVE Heeded(q)'
  BY DEF Life, Heeded, Staged, Executing, Fresh, BeforeAgent, IInv, TypeOK, EndRecorded, At, Stores, Recorded,
     Close, CloseServers
<1>4. ASSUME NEW q \in Run PROVE Kept(q)'
  BY DEF Life, Kept, Staged, Executing, Fresh, BeforeAgent, IInv, TypeOK, EndRecorded, At, Stores, Recorded,
     Close, CloseServers
<1>5. ASSUME NEW q \in Run PROVE Served(q)'
  BY LifecycleAssumption DEF Life, Served, UnderWay, Executing, Fresh, BeforeAgent, IInv, TypeOK, EndRecorded,
     At, Stores, Recorded, Close, CloseServers
<1>6. ASSUME NEW q \in Run PROVE Persisted(q)'
  BY DEF Life, Persisted, Staged, Executing, Fresh, BeforeAgent, IInv, TypeOK, EndRecorded, At, Stores,
     Recorded, Close, CloseServers
<1> QED
  BY <1>1, <1>2, <1>3, <1>4, <1>5, <1>6 DEF IInv, Life

-----------------------------------------------------------------------------
(* An index and the reviews of the user touch no run.                      *)
LEMMA OthersKeep ==
  ASSUME IInv, IndexBuilt \/ UserReviews \/ UNCHANGED vars
  PROVE  IInv'
<1>1. TypeOK'
  BY DEF IInv, TypeOK, IndexBuilt, UserReviews, vars, request, project, processes, timeline
<1>2. ASSUME NEW q \in Run PROVE Life(q)'
  BY DEF IInv, Life, Staged, Heeded, Kept, Served, Persisted, UnderWay, IndexBuilt, UserReviews, vars,
     request, project, processes, timeline
<1> QED
  BY <1>1, <1>2 DEF IInv

(* Every step of a run that goes on by itself keeps the invariant.         *)
LEMMA AdvanceKeeps ==
  ASSUME IInv, NEW r \in Run, Advance(r)
  PROVE  IInv'
BY ProviderFailsKeeps, ProviderResolvedKeeps, RecordStartedKeeps, SpawnServerKeeps, ServerAnswersKeeps,
   ConnectedKeeps, SkillsSelectedKeeps, AgentFailsKeeps, AgentConcludesKeeps, ValidatedKeeps,
   FailureRecordedKeeps, EndRecordedKeeps DEF Advance

(* At first no run is under way.                                           *)
LEMMA Initially == Init => IInv
<1> SUFFICES ASSUME Init PROVE IInv
  OBVIOUS
<1>1. TypeOK
  <2>1. indexed \in BOOLEAN /\ applied \in BOOLEAN
    BY Zenon DEF Init
  <2> QED
    BY <2>1, LifecycleAssumption DEF Init, TypeOK
<1>2. ASSUME NEW q \in Run PROVE Life(q)
  BY DEF Init, Life, Staged, Heeded, Kept, Served, Persisted, UnderWay, Executing
<1> QED
  BY <1>1, <1>2 DEF IInv

(* The invariant holds throughout.                                         *)
LEMMA Invariance == Spec => []IInv
<1>1. IInv /\ [Next]_vars => IInv'
  BY StartRunKeeps, CancelRunKeeps, AbortRequestKeeps, AdvanceKeeps, AgentCallsKeeps, OthersKeep DEF Next
<1> QED
  BY Initially, <1>1, PTL DEF Spec

(* Every variable keeps to its type.                                       *)
THEOREM TypeCorrect == Spec => []TypeOK
BY Invariance, PTL DEF IInv

(* A replay of a run has each event it emitted, but for as many as the     *)
(* store refused, however many runs are persisted side by side.            *)
THEOREM EventsPersist == Spec => []EventsArePersisted
<1>1. IInv => EventsArePersisted
  BY DEF IInv, Life, Persisted, EventsArePersisted
<1> QED
  BY Invariance, <1>1, PTL

(* A cancellation that comes once the run is registered, and before its    *)
(* agent loop, is never overtaken: the run calls no tool, and its client   *)
(* does not read that it was done.                                         *)
THEOREM CancellationIsHeeded == Spec => []EarlyCancelIsHeard
<1>1. IInv => EarlyCancelIsHeard
  BY DEF IInv, TypeOK, Life, Heeded, EarlyCancelIsHeard
<1> QED
  BY Invariance, <1>1, PTL

(* What the store says of a run is what its client was told, as long as    *)
(* every call of the store worked.                                         *)
THEOREM RecordsAreTrue == Spec => []RecordMatchesAnswer
<1>1. ASSUME IInv PROVE RecordMatchesAnswer
  <2> SUFFICES ASSUME faults = 0, NEW r \in Run
               PROVE  /\ answer[r] = "ok" <=> record[r] = "completed" /\ ~UnderWay(r)
                      /\ record[r] = "failed" => answer[r] = "error"
    BY DEF RecordMatchesAnswer
  <2>1. Kept(r) /\ (pc[r] = "ended" <=> answer[r] # "none")
    BY <1>1 DEF IInv, Life, Staged
  <2>2. CASE pc[r] = "ended"
    BY <2>1, <2>2 DEF Kept, UnderWay
  <2>3. CASE pc[r] \in {"idle", "resolving"}
    BY <2>1, <2>3 DEF Kept
  <2>4. CASE pc[r] \in Executing \cup {"recording"}
    BY <2>1, <2>4 DEF Kept
  <2> QED
    BY <1>1, <2>2, <2>3, <2>4 DEF IInv, TypeOK, Executing
<1> QED
  BY Invariance, <1>1, PTL

(* A run during which no other was under way leaves no server process.     *)
THEOREM LoneRunsCleanUp == Spec => []ServersEndWithLoneRuns
<1>1. IInv => ServersEndWithLoneRuns
  BY DEF IInv, TypeOK, Life, Served, UnderWay, Fresh, ServersEndWithLoneRuns
<1> QED
  BY Invariance, <1>1, PTL

-----------------------------------------------------------------------------
(* Validation and repair.                                                  *)

Outcome == {"none", "passed", "exhausted", "noProgress", "notRepairable", "regressed", "actionFailed"}

Placed ==
  stage = "check" =>
    /\ at # 0 => CheckOrder[at] \in configured
    /\ ~touched => \A j \in DOMAIN CheckOrder : j < at /\ CheckOrder[j] \in configured => tree[CheckOrder[j]] = Passing

Given == stage # "done" /\ asked # <<>> => report = asked[Len(asked)]

LoopInv == LoopTypeOK /\ Placed /\ Given /\ AttemptsNeverEscalate /\ ReportIsCurrent

-----------------------------------------------------------------------------
LEMMA Order ==
  /\ DOMAIN CheckOrder = 1..6 /\ Len(CheckOrder) = 6
  /\ \A i \in 1..6 : CheckOrder[i] \in Check
  /\ \A c \in Check : \E i \in 1..6 : CheckOrder[i] = c
  /\ \A i, j \in 1..6 : CheckOrder[i] = CheckOrder[j] => i = j
  BY DEF CheckOrder, Check

(* First is the least of some places, and 0 of none.                       *)
LEMMA FirstIsLeast ==
  ASSUME NEW places \in SUBSET (1..6)
  PROVE  /\ First(places) \in 0..6
         /\ First(places) = 0 <=> places = {}
         /\ places # {} => First(places) \in places /\ \A j \in places : First(places) <= j
<1>1. CASE places = {}
  BY <1>1 DEF First
<1>2. CASE places # {}
  <2>1. \E i \in places : \A j \in places : i <= j
    <3>1. CASE 1 \in places
      BY <3>1
    <3>2. CASE 1 \notin places /\ 2 \in places
      BY <3>2
    <3>3. CASE 1 \notin places /\ 2 \notin places /\ 3 \in places
      BY <3>3
    <3>4. CASE 1 \notin places /\ 2 \notin places /\ 3 \notin places /\ 4 \in places
      BY <3>4
    <3>5. CASE 1 \notin places /\ 2 \notin places /\ 3 \notin places /\ 4 \notin places /\ 5 \in places
      BY <3>5
    <3>6. CASE 1 \notin places /\ 2 \notin places /\ 3 \notin places /\ 4 \notin places /\ 5 \notin places
      <4>1. \A i \in places : i \in 1..6 /\ i # 1 /\ i # 2 /\ i # 3 /\ i # 4 /\ i # 5
        BY <3>6
      <4>2. \A i \in places : i = 6
        BY <4>1
      <4>3. PICK i \in places : TRUE
        BY <1>2
      <4>4. \A j \in places : i <= j
        BY <4>2, <4>3
      <4> QED
        BY <4>3, <4>4
    <3> QED
      BY <3>1, <3>2, <3>3, <3>4, <3>5, <3>6, Zenon
  <2> DEFINE least == CHOOSE i \in places : \A j \in places : i <= j
  <2>2. least \in places /\ \A j \in places : least <= j
    BY <2>1
  <2>3. First(places) = least
    BY <1>2 DEF First
  <2> HIDE DEF least
  <2>4. least \in 1..6
    BY <2>2
  <2> QED
    BY <1>2, <2>2, <2>3, <2>4
<1> QED
  BY <1>1, <1>2

LEMMA LaterPlaces ==
  ASSUME NEW i
  PROVE  Later(i) \in SUBSET (1..6)
  BY Order DEF Later

LEMMA ErrorsCounted ==
  ASSUME NEW r \in Report
  PROVE  Cardinality(r.errors) \in Nat
<1>1. IsFiniteSet(Site)
  <2>1. IsFiniteSet({Nowhere})
    BY FS_Singleton
  <2> QED
    BY <2>1, ConstantsAssumption, FS_Union DEF Site
<1>2. IsFiniteSet(r.errors)
  BY <1>1, FS_Subset DEF Report
<1> QED
  BY <1>2, FS_CardinalityType

LEMMA VerdictsAreReports ==
  ASSUME NEW c \in Check, NEW verdict \in Verdict \cup {CannotRun}
  PROVE  ReportOn(c, verdict) \in Report
  BY DEF ReportOn, Report, Verdict, Passing, CannotRun, Site

(* What is read into the output of a killed command is a verdict like any  *)
(* other, on some of its errors or on one that names no place.             *)
LEMMA FragmentsAreVerdicts ==
  ASSUME NEW verdict \in Verdict, NEW fragment \in Fragments(verdict)
  PROVE  /\ fragment \in Verdict /\ fragment.kind # "passes"
         /\ fragment.errors \subseteq verdict.errors \cup {Nowhere}
         /\ fragment.kind = "errors" => fragment.errors # {}
<1>1. verdict.errors \subseteq Site
  BY DEF Verdict, Passing
<1>2. CASE fragment = [kind |-> "warns", errors |-> {}]
  BY <1>2 DEF Verdict
<1>3. CASE fragment \in [kind : {"errors", "misconfigured"},
                        errors : ((SUBSET verdict.errors) \cup {{Nowhere}}) \ {{}}]
  <2>1. /\ fragment = [kind |-> fragment.kind, errors |-> fragment.errors]
        /\ fragment.kind \in {"errors", "misconfigured"} /\ fragment.errors # {}
        /\ fragment.errors \in (SUBSET verdict.errors) \cup {{Nowhere}}
    BY <1>3
  <2>2. fragment.errors \subseteq verdict.errors \cup {Nowhere}
    BY <2>1
  <2>3. fragment.errors \in (SUBSET Site) \ {{}}
    BY <1>1, <2>1, <2>2 DEF Site
  <2>4. fragment \in Verdict
    BY <2>1, <2>3 DEF Verdict
  <2> QED
    BY <2>1, <2>2, <2>4
<1> QED
  BY <1>2, <1>3 DEF Fragments

(* How the running command can end.                                        *)
LEMMA VerdictsOfCheck ==
  ASSUME tree \in [configured -> Verdict], CheckOrder[at] \in configured,
         NEW kill \in BOOLEAN, NEW verdict \in Verdicts(kill)
  PROVE  /\ verdict \in Verdict \cup {CannotRun}
         /\ ~kill /\ ~touched /\ verdict # CannotRun => verdict = tree[CheckOrder[at]]
         /\ kill => /\ verdict \in Verdict /\ verdict.kind # "passes"
                    /\ ~touched => verdict.errors \subseteq tree[CheckOrder[at]].errors \cup {Nowhere}
                    /\ verdict.kind = "errors" => verdict.errors # {}
<1>1. Printed \subseteq Verdict /\ (~touched => Printed = {tree[CheckOrder[at]]})
  BY DEF Printed
<1>2. CASE kill
  <2>1. PICK printed \in Printed : verdict \in Fragments(printed)
    BY <1>2 DEF Verdicts
  <2>2. printed \in Verdict
    BY <1>1, <2>1
  <2> QED
    BY <1>1, <1>2, <2>1, <2>2, FragmentsAreVerdicts
<1>3. CASE ~kill
  BY <1>1, <1>3 DEF Verdicts
<1> QED
  BY <1>2, <1>3

LEMMA ConstantReports == AllPassed \in Report /\ NothingRan \in Report
  BY DEF AllPassed, NothingRan, ReportOn, Report, Passing

(* What judging a report does: it is kept, and either the loop ends or one *)
(* more attempt is asked for, on errors that did not grow.                 *)
LEMMA Judged ==
  ASSUME NEW r, Judge(r)
  PROVE  /\ report' = r
         /\ UNCHANGED <<at, deaf, touched>>
         /\ \/ /\ stage' = "done" /\ asked' = asked
               /\ ending' \in Outcome \ {"none", "actionFailed"}
               /\ ending' = "passed" <=> r.kind = "passes"
            \/ /\ stage' = "repair" /\ asked' = Append(asked, r) /\ ending' = ending
               /\ ~Regressed(r) /\ ~NoProgress(r) /\ ~Spent /\ ~aborted /\ r.kind = "errors"
<1>1. CASE Regressed(r)
  BY <1>1, Zenon DEF Judge, Stop, Regressed, Outcome
<1>2. CASE ~Regressed(r) /\ r.kind = "passes"
  BY <1>2, Zenon DEF Judge, Stop, Outcome
<1>3. CASE ~Regressed(r) /\ r.kind # "passes" /\ (Spent \/ aborted)
  BY <1>3, Zenon DEF Judge, Stop, Outcome
<1>4. CASE ~Regressed(r) /\ r.kind # "passes" /\ ~Spent /\ ~aborted /\ ~Repairable(r)
  BY <1>4, Zenon DEF Judge, Stop, Outcome
<1>5. CASE ~Regressed(r) /\ r.kind # "passes" /\ ~Spent /\ ~aborted /\ Repairable(r) /\ NoProgress(r)
  BY <1>5, Zenon DEF Judge, Stop, Outcome
<1>6. CASE ~Regressed(r) /\ r.kind # "passes" /\ ~Spent /\ ~aborted /\ Repairable(r) /\ ~NoProgress(r)
  BY <1>6, Zenon DEF Judge, Repairable
<1> QED
  BY <1>1, <1>2, <1>3, <1>4, <1>5, <1>6

(* Judging keeps the bookkeeping, whatever the report.                     *)
LEMMA JudgedInv ==
  ASSUME LoopInv, stage = "check", NEW r \in Report, Judge(r),
         configured' = configured, tree' = tree, aborted' = aborted, killed' \in BOOLEAN
  PROVE  LoopTypeOK' /\ Placed' /\ Given' /\ AttemptsNeverEscalate'
<1> USE DEF LoopInv
<1>1. LoopTypeOK'
  <2>1. report' \in Report /\ ending' \in Outcome /\ stage' \in {"repair", "done"} /\ UNCHANGED <<at, deaf, touched>>
    BY Judged DEF LoopTypeOK, Outcome
  <2>2. asked' \in Seq(Report) /\ Len(asked') <= MaxAttempts
    <3>1. CASE asked' = asked
      BY <3>1 DEF LoopTypeOK
    <3>2. CASE asked' = Append(asked, r) /\ ~Spent
      BY <3>2, ConstantsAssumption DEF LoopTypeOK, Spent
    <3> QED
      BY <3>1, <3>2, Judged
  <2> QED
    BY <2>1, <2>2 DEF LoopTypeOK, Outcome
<1>2. Placed'
  BY Judged DEF Placed
<1>3. Given'
  <2>1. CASE stage' = "done"
    BY <2>1 DEF Given
  <2>2. CASE asked' = Append(asked, r)
    BY <2>2, Judged DEF Given, LoopTypeOK
  <2> QED
    BY <2>1, <2>2, Judged
<1>4. AttemptsNeverEscalate'
  <2>1. CASE asked' = asked
    BY <2>1 DEF AttemptsNeverEscalate, Signature
  <2>2. CASE asked' = Append(asked, r) /\ ~Regressed(r) /\ ~NoProgress(r) /\ r.kind = "errors"
    <3> SUFFICES ASSUME NEW j \in DOMAIN asked', NEW i \in 1..(j - 1)
                 PROVE  /\ Cardinality(asked'[j].errors) <= Cardinality(asked'[i].errors)
                        /\ i = j - 1 => Signature(asked'[j]) # Signature(asked'[i])
      BY DEF AttemptsNeverEscalate, Signature
    <3>1. asked \in Seq(Report) /\ DOMAIN asked = 1..Len(asked) /\ DOMAIN asked' = 1..(Len(asked) + 1)
      BY <2>2 DEF LoopTypeOK
    <3>2. CASE j \in DOMAIN asked
      <4>1. i \in DOMAIN asked /\ asked'[j] = asked[j] /\ asked'[i] = asked[i]
        BY <2>2, <3>1, <3>2
      <4> QED
        BY <3>2, <4>1 DEF AttemptsNeverEscalate
    <3>3. CASE j = Len(asked) + 1
      <4>1. i \in DOMAIN asked /\ asked # <<>> /\ asked'[j] = r /\ asked'[i] = asked[i] /\ asked[i] \in Report
        BY <2>2, <3>1, <3>3
      <4> DEFINE final == asked[Len(asked)]
      <4>2. Len(asked) \in DOMAIN asked /\ final \in Report /\ report = final
        BY <3>1, <4>1 DEF Given
      <4>3. Cardinality(r.errors) \in Nat /\ Cardinality(final.errors) \in Nat /\ Cardinality(asked[i].errors) \in Nat
        BY <4>1, <4>2, ErrorsCounted
      <4>4. Cardinality(r.errors) <= Cardinality(final.errors)
        BY <2>2, <4>1, <4>2, <4>3 DEF Regressed
      <4>5. Cardinality(final.errors) <= Cardinality(asked[i].errors)
        <5>1. CASE i = Len(asked)
          BY <5>1, <4>3
        <5>2. CASE i \in 1..(Len(asked) - 1)
          BY <5>2, <4>2 DEF AttemptsNeverEscalate
        <5> QED
          BY <5>1, <5>2, <3>3
      <4>6. i = j - 1 => Signature(r) # Signature(asked[i])
        BY <2>2, <3>1, <3>3, <4>1 DEF NoProgress
      <4>7. Cardinality(r.errors) <= Cardinality(asked[i].errors)
        BY <4>3, <4>4, <4>5
      <4> QED
        BY <4>1, <4>6, <4>7
    <3> QED
      BY <3>1, <3>2, <3>3
  <2> QED
    BY <2>1, <2>2, Judged
<1> QED
  BY <1>1, <1>2, <1>3, <1>4

-----------------------------------------------------------------------------
LEMMA LoopInitially == LoopInit => LoopInv
<1> SUFFICES ASSUME LoopInit PROVE LoopInv
  OBVIOUS
<1>1. /\ at \in 0..6
      /\ at # 0 => CheckOrder[at] \in configured
      /\ \A j \in DOMAIN CheckOrder : CheckOrder[j] \in configured => ~(j < at)
  <2>1. at = First(Later(0))
    BY DEF LoopInit
  <2>2. CASE Later(0) = {}
    BY <2>1, <2>2, LaterPlaces, FirstIsLeast, Order DEF Later
  <2>3. CASE Later(0) # {}
    <3>1. at \in Later(0) /\ \A j \in Later(0) : at <= j
      BY <2>1, <2>3, LaterPlaces, FirstIsLeast
    <3> QED
      BY <3>1, Order DEF Later
  <2> QED
    BY <2>2, <2>3
<1>2. LoopTypeOK
  <2>1. asked \in Seq(Report) /\ Len(asked) = 0
    BY DEF LoopInit
  <2>2. report \in Report /\ Len(CheckOrder) = 6
    BY ConstantReports, Order DEF LoopInit
  <2>3. configured \in Configurations /\ tree \in [configured -> Verdict] /\ Len(asked) <= MaxAttempts
    BY <2>1, ConstantsAssumption DEF LoopInit
  <2>4. touched \in BOOLEAN /\ aborted \in BOOLEAN /\ deaf \in BOOLEAN /\ killed \in BOOLEAN
    BY Zenon DEF LoopInit
  <2>5. stage = "check" /\ ending = "none"
    BY DEF LoopInit
  <2> QED
    BY <1>1, <2>1, <2>2, <2>3, <2>4, <2>5 DEF LoopTypeOK
<1>3. Placed /\ Given /\ AttemptsNeverEscalate /\ ReportIsCurrent
  BY <1>1, Order DEF LoopInit, Placed, Given, AttemptsNeverEscalate, ReportIsCurrent
<1> QED
  BY <1>2, <1>3 DEF LoopInv

(* A validation that starts has every earlier check, that is none, behind  *)
(* it.                                                                     *)
LEMMA Restarted ==
  ASSUME LoopInv, NEW i \in 0..6, StartCommand(First(Later(i)))
  PROVE  /\ stage' = "check" /\ at' \in 0..6 /\ deaf' = aborted
         /\ at' # 0 => at' \in 1..6 /\ i < at' /\ CheckOrder[at'] \in configured
         /\ \A j \in 1..6 : j < at' /\ CheckOrder[j] \in configured => j <= i
<1>1. Later(i) \in SUBSET (1..6) /\ at' = First(Later(i)) /\ stage' = "check" /\ deaf' = aborted
  BY LaterPlaces DEF StartCommand
<1>2. CASE Later(i) = {}
  BY <1>1, <1>2, FirstIsLeast
<1>3. CASE Later(i) # {}
  <2>1. at' \in Later(i) /\ \A j \in Later(i) : at' <= j
    BY <1>1, <1>3, FirstIsLeast
  <2> QED
    BY <1>1, <2>1, Order DEF Later
<1> QED
  BY <1>2, <1>3

LEMMA Preserved == LoopInv /\ [LoopNext]_loopVars => LoopInv'
<1> SUFFICES ASSUME LoopInv, [LoopNext]_loopVars PROVE LoopInv'
  OBVIOUS
<1> USE DEF LoopInv
<1>1. CASE CheckEnds
  <2>1. /\ stage = "check" /\ at \in 1..6 /\ CheckOrder[at] \in configured
        /\ configured \subseteq Check /\ tree \in [configured -> Verdict]
        /\ UNCHANGED <<configured, tree, aborted>>
    BY <1>1, Order, ConstantsAssumption DEF CheckEnds, LoopTypeOK, Placed
  <2> DEFINE c == CheckOrder[at]
  <2>2. PICK verdict \in Verdicts(killed') :
          IF verdict.kind # "passes" THEN Judge(ReportOn(c, verdict))
          ELSE IF Later(at) = {} THEN Judge(AllPassed)
          ELSE StartCommand(First(Later(at))) /\ UNCHANGED <<touched, asked, report, ending>>
    BY <1>1 DEF CheckEnds
  <2>0. killed' \in BOOLEAN
    BY <1>1 DEF CheckEnds
  <2>3. /\ verdict \in Verdict \cup {CannotRun}
        /\ ~touched /\ verdict # CannotRun /\ ~killed' => verdict = tree[c]
        /\ killed' => verdict.kind # "passes"
        /\ killed' /\ ~touched => verdict.errors \subseteq tree[c].errors \cup {Nowhere}
        /\ verdict.kind = "cannotRun" <=> verdict = CannotRun
        /\ verdict.kind = "passes" => verdict = Passing
    <3>1. /\ verdict \in Verdict \cup {CannotRun}
          /\ ~touched /\ verdict # CannotRun /\ ~killed' => verdict = tree[c]
          /\ killed' => verdict.kind # "passes"
          /\ killed' /\ ~touched => verdict.errors \subseteq tree[c].errors \cup {Nowhere}
      BY <2>0, <2>1, <2>2, VerdictsOfCheck
    <3>2. /\ verdict.kind = "cannotRun" <=> verdict = CannotRun
          /\ verdict.kind = "passes" => verdict = Passing
      BY <3>1 DEF Verdict, CannotRun, Passing
    <3> QED
      BY <3>1, <3>2
  <2>4. CASE verdict.kind # "passes"
    <3>1. ReportOn(c, verdict) \in Report /\ Judge(ReportOn(c, verdict))
      BY <2>1, <2>2, <2>3, <2>4, VerdictsAreReports, Order
    <3>2. LoopTypeOK' /\ Placed' /\ Given' /\ AttemptsNeverEscalate'
      BY <2>0, <2>1, <3>1, JudgedInv
    <3>3. ReportIsCurrent'
      <4> SUFFICES ASSUME stage' = "done", ~touched', ending' # "actionFailed" PROVE ReportIsCurrent'
        BY DEF ReportIsCurrent
      <4>1. report' = ReportOn(c, verdict) /\ ending' # "passed" /\ ~touched
        BY <2>4, <3>1, Judged DEF ReportOn
      <4>2. \A d \in configured : Precedes(d, c) => tree[d] = Passing
        BY <2>1, <4>1, Order DEF Placed, Precedes
      <4>3. report'.check = c /\ report'.kind = verdict.kind /\ c # "none"
        BY <4>1, <2>1 DEF ReportOn, Check, CheckOrder
      <4>4. /\ ~killed' /\ report'.kind # "cannotRun" => ReportOn(c, tree'[c]) = report'
            /\ killed' => report'.errors \subseteq tree'[c].errors \cup {Nowhere}
        BY <2>1, <2>3, <4>1, <4>3 DEF ReportOn
      <4> QED
        BY <2>1, <2>4, <4>1, <4>2, <4>3, <4>4 DEF ReportIsCurrent, Precedes
    <3> QED
      BY <3>2, <3>3
  <2>5. CASE verdict.kind = "passes" /\ Later(at) = {}
    <3>1. Judge(AllPassed)
      BY <2>2, <2>5
    <3>2. LoopTypeOK' /\ Placed' /\ Given' /\ AttemptsNeverEscalate'
      BY <2>0, <2>1, <3>1, JudgedInv, ConstantReports
    <3>3. ReportIsCurrent'
      <4> SUFFICES ASSUME stage' = "done", ~touched', ending' # "actionFailed" PROVE ReportIsCurrent'
        BY DEF ReportIsCurrent
      <4>1. report' = AllPassed /\ ending' = "passed" /\ ~touched
        BY <3>1, Judged DEF AllPassed, ReportOn, Passing
      <4>2. \A d \in configured : tree[d] = Passing
        <5> SUFFICES ASSUME NEW d \in configured PROVE tree[d] = Passing
          OBVIOUS
        <5>1. PICK j \in 1..6 : CheckOrder[j] = d
          BY <2>1, Order
        <5>2. j <= at
          BY <2>1, <2>5, <5>1, Order DEF Later
        <5>3. CASE j < at
          BY <2>1, <4>1, <5>1, <5>3, Order DEF Placed
        <5>4. CASE j = at
          BY <2>0, <2>3, <2>5, <4>1, <5>1, <5>4 DEF CannotRun
        <5> QED
          BY <2>1, <5>2, <5>3, <5>4
      <4>3. report'.kind = "passes" /\ report'.check = "none"
        BY <4>1 DEF AllPassed, ReportOn, Passing
      <4> QED
        BY <2>1, <4>1, <4>2, <4>3 DEF ReportIsCurrent
    <3> QED
      BY <3>2, <3>3
  <2>6. CASE verdict.kind = "passes" /\ Later(at) # {}
    <3>1. StartCommand(First(Later(at))) /\ UNCHANGED <<touched, asked, report, ending>>
      BY <2>2, <2>6
    <3>2. /\ stage' = "check" /\ at' \in 0..6 /\ deaf' = aborted
          /\ at' # 0 => CheckOrder[at'] \in configured
          /\ \A j \in 1..6 : j < at' /\ CheckOrder[j] \in configured => j <= at
      BY <2>1, <3>1, Restarted
    <3>3. LoopTypeOK'
      BY <2>0, <2>1, <3>1, <3>2, Order DEF LoopTypeOK
    <3>4. Placed'
      <4>1. ASSUME ~touched, NEW j \in 1..6, j < at', CheckOrder[j] \in configured
            PROVE  tree[CheckOrder[j]] = Passing
        <5>1. CASE j < at
          BY <2>1, <4>1, <5>1, Order DEF Placed
        <5>2. CASE j = at
          BY <2>0, <2>3, <2>6, <4>1, <5>2 DEF CannotRun
        <5> QED
          BY <2>1, <3>2, <4>1, <5>1, <5>2
      <4> QED
        BY <2>1, <3>1, <3>2, <4>1, Order DEF Placed
    <3>5. Given' /\ AttemptsNeverEscalate' /\ ReportIsCurrent'
      BY <2>1, <3>1, <3>2 DEF Given, AttemptsNeverEscalate, ReportIsCurrent, Signature
    <3> QED
      BY <3>3, <3>4, <3>5
  <2> QED
    BY <2>4, <2>5, <2>6
<1>2. CASE NothingToRun
  <2>1. stage = "check" /\ at = 0 /\ Judge(NothingRan) /\ UNCHANGED <<configured, tree, aborted, killed>>
    BY <1>2 DEF NothingToRun
  <2>2. LoopTypeOK' /\ Placed' /\ Given' /\ AttemptsNeverEscalate'
    BY <2>1, JudgedInv, ConstantReports DEF LoopTypeOK
  <2>3. ReportIsCurrent'
    BY <2>1, Judged DEF ReportIsCurrent, NothingRan
  <2> QED
    BY <2>2, <2>3
<1>3. CASE AttemptEnds
  <2>1. stage = "repair" /\ tree' \in [configured -> Verdict] /\ UNCHANGED <<configured, aborted, killed>>
    BY <1>3 DEF AttemptEnds
  <2>2. CASE Validate /\ UNCHANGED <<asked, report, ending>>
    <3>1. /\ stage' = "check" /\ at' \in 0..6 /\ deaf' = aborted /\ touched' = FALSE
          /\ at' # 0 => CheckOrder[at'] \in configured
          /\ \A j \in 1..6 : j < at' /\ CheckOrder[j] \in configured => j <= 0
      BY <2>2, Restarted DEF Validate
    <3>2. LoopTypeOK'
      BY <2>1, <2>2, <3>1, Order DEF LoopTypeOK
    <3>3. Placed'
      BY <2>1, <3>1, Order DEF Placed
    <3>4. Given' /\ AttemptsNeverEscalate' /\ ReportIsCurrent'
      BY <2>1, <2>2, <3>1 DEF Given, AttemptsNeverEscalate, ReportIsCurrent, Signature
    <3> QED
      BY <3>2, <3>3, <3>4
  <2>3. CASE GiveUp
    <3>1. LoopTypeOK'
      BY <2>1, <2>3 DEF LoopTypeOK, GiveUp, Stop
    <3>2. Placed' /\ Given' /\ AttemptsNeverEscalate' /\ ReportIsCurrent'
      BY <2>1, <2>3 DEF Placed, Given, AttemptsNeverEscalate, ReportIsCurrent, Signature, GiveUp, Stop
    <3> QED
      BY <3>1, <3>2
  <2> QED
    BY <1>3, <2>2, <2>3 DEF AttemptEnds
<1>4. CASE Save
  <2>1. LoopTypeOK'
    BY <1>4 DEF LoopTypeOK, Save
  <2>2. Placed' /\ Given' /\ AttemptsNeverEscalate' /\ ReportIsCurrent'
    BY <1>4 DEF Placed, Given, AttemptsNeverEscalate, ReportIsCurrent, Signature, Save
  <2> QED
    BY <2>1, <2>2
<1>5. CASE Cancel
  <2>1. LoopTypeOK'
    BY <1>5 DEF LoopTypeOK, Cancel
  <2>2. Placed' /\ Given' /\ AttemptsNeverEscalate' /\ ReportIsCurrent'
    BY <1>5 DEF Placed, Given, AttemptsNeverEscalate, ReportIsCurrent, Signature, Cancel
  <2> QED
    BY <2>1, <2>2
<1>6. CASE UNCHANGED loopVars
  BY <1>6 DEF loopVars, LoopTypeOK, Placed, Given, AttemptsNeverEscalate, ReportIsCurrent, Signature
<1> QED
  BY <1>1, <1>2, <1>3, <1>4, <1>5, <1>6 DEF LoopNext, LoopStep

-----------------------------------------------------------------------------
(* The variables keep their ranges, and never more attempts are made than  *)
(* configured.                                                             *)
THEOREM LoopTypeCorrect == LoopSpec => []LoopTypeOK
<1>1. LoopInv => LoopTypeOK
  BY DEF LoopInv
<1> QED
  BY LoopInitially, Preserved, <1>1, PTL DEF LoopSpec

(* What the loop reports in the end is true of the tree it leaves, and of  *)
(* a command that was killed it reports nothing that names another place.  *)
THEOREM ReportsTheTree == LoopSpec => []ReportIsCurrent
<1>1. LoopInv => ReportIsCurrent
  BY DEF LoopInv
<1> QED
  BY LoopInitially, Preserved, <1>1, PTL DEF LoopSpec

(* No attempt is given more errors than an earlier one, nor the same ones  *)
(* as the one before it.                                                   *)
THEOREM NeverEscalates == LoopSpec => []AttemptsNeverEscalate
<1>1. LoopInv => AttemptsNeverEscalate
  BY DEF LoopInv
<1> QED
  BY LoopInitially, Preserved, <1>1, PTL DEF LoopSpec

(* Attempts are begun only in runs nobody cancelled and only on errors of  *)
(* a command that ran: all that the tree has, or of a command that         *)
(* somebody killed, some of them or one that names no place.               *)
THEOREM OnlyRealFailures == LoopSpec => RepairsRealFailures
<1> DEFINE Asks ==
      asked' # asked =>
        /\ ~aborted
        /\ report'.errors # {}
        /\ \/ touched
           \/ killed' /\ report'.errors \subseteq tree[report'.check].errors \cup {Nowhere}
           \/ tree[report'.check] = [kind |-> "errors", errors |-> report'.errors]
<1>1. LoopInv /\ [LoopNext]_loopVars => [Asks]_loopVars
  <2> SUFFICES ASSUME LoopInv, LoopNext, asked' # asked
               PROVE  Asks
    BY DEF loopVars
  <2>1. CASE CheckEnds
    <3>1. at \in 1..6 /\ CheckOrder[at] \in configured /\ tree \in [configured -> Verdict]
      BY <2>1, Order DEF CheckEnds, LoopTypeOK, Placed, LoopInv
    <3>0. killed' \in BOOLEAN
      BY <2>1 DEF CheckEnds
    <3>2. PICK verdict \in Verdicts(killed') :
            \/ Judge(ReportOn(CheckOrder[at], verdict))
            \/ Judge(AllPassed)
            \/ UNCHANGED asked
      BY <2>1 DEF CheckEnds
    <3>3. CASE Judge(AllPassed)
      BY <3>3, Judged DEF AllPassed, ReportOn, Passing
    <3>4. CASE Judge(ReportOn(CheckOrder[at], verdict))
      <4>1. report' = ReportOn(CheckOrder[at], verdict) /\ ~aborted /\ report'.kind = "errors"
        BY <3>4, Judged
      <4>2. verdict.kind = "errors" /\ report'.errors = verdict.errors /\ report'.check = CheckOrder[at]
        BY <4>1 DEF ReportOn
      <4>3. /\ verdict \in Verdict
            /\ \/ touched \/ verdict = tree[CheckOrder[at]]
               \/ killed' /\ verdict.errors \subseteq tree[CheckOrder[at]].errors \cup {Nowhere}
        <5>1. verdict # CannotRun
          BY <4>2 DEF CannotRun
        <5> QED
          BY <3>0, <3>1, <5>1, VerdictsOfCheck
      <4>4. verdict = [kind |-> "errors", errors |-> verdict.errors] /\ verdict.errors # {}
        BY <4>2, <4>3 DEF Verdict, Passing
      <4> QED
        BY <4>1, <4>2, <4>3, <4>4
    <3> QED
      BY <3>2, <3>3, <3>4
  <2>2. CASE NothingToRun
    BY <2>2, Judged DEF NothingToRun, NothingRan
  <2>3. CASE AttemptEnds \/ Save \/ Cancel
    BY <2>3 DEF AttemptEnds, Save, Cancel, GiveUp, Stop
  <2> QED
    BY <2>1, <2>2, <2>3 DEF LoopNext, LoopStep
<1> QED
  BY LoopInitially, Preserved, <1>1, PTL DEF LoopSpec, RepairsRealFailures
=============================================================================
