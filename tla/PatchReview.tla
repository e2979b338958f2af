----------------------------- MODULE PatchReview -----------------------------
(***************************************************************************)
(* Proposed changes between proposal and review: the PatchRegistry of      *)
(* apps/agent-server/src/tools/patches.ts, the propose_patch and           *)
(* apply_patch tools of the agent (tools/index.ts) and the applyPatch,     *)
(* revertPatch and discardPatch handlers of the server (server.ts).        *)
(*                                                                         *)
(* Each handler is split at its awaits, so that requests, the agent's tool *)
(* calls and the user's saves interleave, on the same patch and the same   *)
(* files too: nothing is locked and no status is taken before an await.    *)
(* The engine's apply is two steps, staging and writing; the files of one  *)
(* patch are read together and written together, as AtomicPatch licenses   *)
(* while nobody else writes them.  As it allows, any staging may miss      *)
(* files it cannot read, and a failing write may leave files half-done.    *)
(* The history variable disturbed holds the patches to whose files         *)
(* somebody else wrote while a request on them was in flight, those whose  *)
(* files a request could not read or left changed when it failed, and      *)
(* those a revert of which began during another request.                   *)
(***************************************************************************)
EXTENDS PatchEffect

CONSTANTS
  PatchId,      \* the ids makePatch hands out
  Proposal,     \* the patches the agent may propose
  Handler,      \* requests and tool calls that may be in flight together
  Edited,       \* the texts the user's editor saves
  AgentApplies, \* canApply: the approval mode lets the agent apply patches
  MaxRequests,  \* bound: requests and tool calls in a behaviour
  MaxAccidents  \* bound: saves of the editor and faulty files in a behaviour

FilePatches == UNION {{p[i] : i \in DOMAIN p} : p \in Proposal}

ASSUME ProposalAssumption ==
  /\ Proposal \subseteq Seq(FilePatches)
  /\ \A file \in FilePatches : file.path \in Spelling

ASSUME ReviewAssumption ==
  /\ Edited \subseteq Text
  /\ AgentApplies \in BOOLEAN
  /\ MaxRequests \in Nat /\ MaxAccidents \in Nat

VARIABLES
  disk,       \* what every file holds
  status,     \* of each patch in the registry, "none" before it is staged there
  proposal,   \* the patch staged under each id
  revertTo,   \* the originals remembered for it; <<>> when there are none
  handler,    \* what each handler in flight is doing
  overwrote,  \* history: what the last write of each patch replaced
  onDisk,     \* history: the patch was written and not restored since
  writer,     \* history: who applied it last, "user" or "agent"
  disturbed,  \* history: patches whose requests did not have their files alone
  requests,   \* requests so far
  accidents   \* saves of the user's editor and faults of the file system so far

vars == <<disk, status, proposal, revertTo, handler, overwrote, onDisk, writer, disturbed,
          requests, accidents>>
registry == <<status, proposal, revertTo>>
history == <<overwrote, onDisk, writer, disturbed>>

Free == [at |-> "free"]
Busy(h) == handler[h].at # "free"

(* No request on the patch is in flight.                                   *)
Settled(id) == \A h \in Handler : Busy(h) => handler[h].id # id

Files(id) == Targets(proposal[id])

(* Some files are written by others than these handlers.                   *)
Disturbed(files, handlers) ==
  disturbed \cup {id \in PatchId : /\ Files(id) \cap files # {}
                                   /\ \E h \in handlers : Busy(h) /\ handler[h].id = id}

(* The tree as it looks to a staging that cannot read some files of a      *)
(* patch: see ReadGives of PatchEngine.                                    *)
Without(files) == [p \in Path |-> IF p \in files THEN Absent ELSE disk[p]]
Unreadable(p) == SUBSET {t \in Targets(p) : disk[t] # Absent}

Blinded(id, files) == IF files = {} THEN disturbed ELSE disturbed \cup {id}

(* A fault of the file system strikes these files, or none.                *)
Suffer(files) ==
  /\ files # {} => accidents < MaxAccidents
  /\ accidents' = IF files = {} THEN accidents ELSE accidents + 1

(* The before-texts of a patch, in the order of its files.                 *)
Contents(id, tree) ==
  [i \in DOMAIN proposal[id] |->
     [path |-> Target(proposal[id], i), before |-> tree[Target(proposal[id], i)]]]

Init ==
  /\ disk \in [Path -> Edited \cup {Absent}]
  /\ status = [id \in PatchId |-> "none"]
  /\ proposal = [id \in PatchId |-> <<>>]
  /\ revertTo = [id \in PatchId |-> <<>>]
  /\ handler = [h \in Handler |-> Free]
  /\ overwrote = [id \in PatchId |-> <<>>]
  /\ onDisk = [id \in PatchId |-> FALSE]
  /\ writer = [id \in PatchId |-> "user"]
  /\ disturbed = {}
  /\ requests = 0
  /\ accidents = 0

Finish(h) == handler' = [handler EXCEPT ![h] = Free]

Start(h, task) ==
  /\ ~Busy(h)
  /\ requests < MaxRequests
  /\ requests' = requests + 1
  /\ handler' = [handler EXCEPT ![h] = task]

-----------------------------------------------------------------------------
(* propose_patch: only what previews cleanly is staged.                    *)
Propose(id, p) ==
  /\ status[id] = "none"
  /\ \E files \in Unreadable(p) : Suffer(files) /\ Accepts(p, Without(files))
  /\ status' = [status EXCEPT ![id] = "proposed"]
  /\ proposal' = [proposal EXCEPT ![id] = p]
  /\ UNCHANGED <<disk, revertTo, handler, history, requests>>

(* applyPatch: refused when the patch is unknown or already applied.       *)
MayApply(id) == status[id] \notin {"none", "applied"}

RequestApply(h, id) ==
  /\ MayApply(id)
  /\ Start(h, [at |-> "capture", id |-> id])
  /\ UNCHANGED <<disk, registry, history, accidents>>

(* The originals are captured by a staging of their own.                   *)
Capture(h) ==
  /\ handler[h].at = "capture"
  /\ LET id == handler[h].id
     IN \E files \in Unreadable(proposal[id]) :
          /\ Suffer(files)
          /\ disturbed' = Blinded(id, files)
          /\ IF Accepts(proposal[id], Without(files))
             THEN handler' = [handler EXCEPT ![h] =
                    [at |-> "stage", by |-> "user", id |-> id, patch |-> proposal[id],
                     before |-> Contents(id, Without(files))]]
             ELSE Finish(h)
  /\ UNCHANGED <<disk, registry, overwrote, onDisk, writer, requests>>

(* apply_patch, the agent's tool: any patch of the registry will do.       *)
AgentMayApply(id) == status[id] # "none"

AgentApply(h, id) ==
  /\ AgentApplies
  /\ AgentMayApply(id)
  /\ Start(h, [at |-> "stage", by |-> "agent", id |-> id, patch |-> proposal[id], before |-> <<>>])
  /\ UNCHANGED <<disk, registry, history, accidents>>

(* The engine stages the patch anew,                                       *)
Stage(h) ==
  /\ handler[h].at = "stage"
  /\ LET p == handler[h].patch
     IN \E files \in Unreadable(p) :
          /\ Suffer(files)
          /\ disturbed' = Blinded(handler[h].id, files)
          /\ IF Accepts(p, Without(files))
             THEN handler' = [handler EXCEPT ![h] =
                    [at |-> "write", by |-> handler[h].by, id |-> handler[h].id,
                     before |-> handler[h].before,
                     read |-> Restrict(Without(files), Targets(p)),
                     after |-> Restrict(Patched(p, Without(files)), Targets(p))]]
             ELSE Finish(h)
  /\ UNCHANGED <<disk, registry, overwrote, onDisk, writer, requests>>

(* and writes what it staged.                                              *)
Write(h) ==
  /\ handler[h].at = "write"
  /\ LET task == handler[h]
         id == task.id
     IN /\ disk' = [p \in Path |-> IF p \in DOMAIN task.after THEN task.after[p] ELSE disk[p]]
        /\ disturbed' = Disturbed(DOMAIN task.after, Handler \ {h})
        /\ onDisk' = [onDisk EXCEPT ![id] = task.by # "revert"]
        /\ IF task.by = "revert"
           THEN UNCHANGED <<overwrote, writer>>
           ELSE /\ overwrote' = [overwrote EXCEPT ![id] = Contents(id, disk)]
                /\ writer' = [writer EXCEPT ![id] = task.by]
        /\ handler' = [handler EXCEPT ![h] =
             [at |-> "mark", by |-> task.by, id |-> id, before |-> task.before]]
  /\ UNCHANGED <<registry, requests, accidents>>

Marking(h) == handler[h].at = "mark" /\ handler[h].by \in {"user", "agent"}

(* Seeded bugs: the originals of the first application are kept for good;  *)
(* no originals are kept; a patch discarded meanwhile is not marked.       *)
RememberedOnce(h) ==
  IF revertTo[handler[h].id] = <<>> THEN handler[h].before ELSE revertTo[handler[h].id]
RememberedNever(h) == revertTo[handler[h].id]
MarkUnlessDiscarded(h) ==
  /\ Marking(h)
  /\ status' = [status EXCEPT ![handler[h].id] = IF @ = "discarded" THEN @ ELSE "applied"]
  /\ revertTo' = [revertTo EXCEPT ![handler[h].id] = handler[h].before]
  /\ Finish(h)
  /\ UNCHANGED <<disk, proposal, history, requests, accidents>>

(* markApplied, and rememberOriginals when the user asked.                 *)
Remembered(h) ==
  IF handler[h].by = "user" THEN handler[h].before ELSE revertTo[handler[h].id]

Mark(h) ==
  /\ Marking(h)
  /\ status' = [status EXCEPT ![handler[h].id] = "applied"]
  /\ revertTo' = [revertTo EXCEPT ![handler[h].id] = Remembered(h)]
  /\ Finish(h)
  /\ UNCHANGED <<disk, proposal, history, requests, accidents>>

-----------------------------------------------------------------------------
(* revertPatch: a patch of replacements and deletions, applied like any    *)
(* other; the engine refuses it when a file is already as it was.          *)
MayRevert(id) == status[id] = "applied" /\ revertTo[id] # <<>>

Restoring(originals) ==
  [i \in DOMAIN originals |->
     FilePatch(originals[i].path,
               IF originals[i].before = Absent THEN Delete ELSE Replace(originals[i].before))]

RequestRevert(h, id) ==
  /\ MayRevert(id)
  /\ Start(h, [at |-> "stage", by |-> "revert", id |-> id, patch |-> Restoring(revertTo[id]),
               before |-> <<>>])
  /\ disturbed' = IF Settled(id) THEN disturbed ELSE disturbed \cup {id}
  /\ UNCHANGED <<disk, registry, overwrote, onDisk, writer, accidents>>

Unmark(h) ==
  /\ handler[h].at = "mark" /\ handler[h].by = "revert"
  /\ status' = [status EXCEPT ![handler[h].id] = "reverted"]
  /\ Finish(h)
  /\ UNCHANGED <<disk, proposal, revertTo, history, requests, accidents>>

(* The engine reports a failed write.  It did not come to write some files *)
(* of the patch and has put back what it read of others; where that failed *)
(* too, or the write stopped halfway, a file is left changed, and the      *)
(* request tells the registry nothing of it.                               *)
MayLeave(task, p) == {disk[p], task.read[p], task.after[p], <<>>}

Leftovers(task) ==
  {left \in [DOMAIN task.after -> UNION {MayLeave(task, p) : p \in DOMAIN task.after}] :
     \A p \in DOMAIN task.after : left[p] \in MayLeave(task, p)}

EngineFails(h) ==
  /\ handler[h].at = "write"
  /\ \E left \in Leftovers(handler[h]) :
       LET changed == {p \in DOMAIN left : left[p] # disk[p]}
       IN /\ disk' = [p \in Path |-> IF p \in changed THEN left[p] ELSE disk[p]]
          /\ disturbed' = Disturbed(changed, Handler \ {h})
                           \cup {id \in {handler[h].id} : changed # {}}
          /\ Suffer(changed)
  /\ Finish(h)
  /\ UNCHANGED <<registry, overwrote, onDisk, writer, requests>>

(* Seeded bug: discarding is recorded whatever became of the patch.        *)
MarkDiscardedAlways(id) == "discarded"

(* discardPatch runs without an await: refused when applied, and without   *)
(* effect unless the patch is still only proposed.                         *)
MarkDiscarded(id) ==
  IF status[id] = "proposed" THEN "discarded" ELSE status[id]

Discard(id) ==
  /\ status[id] \notin {"none", "applied"}
  /\ status' = [status EXCEPT ![id] = MarkDiscarded(id)]
  /\ UNCHANGED <<disk, proposal, revertTo, handler, history, requests, accidents>>

Save(p, text) ==
  /\ accidents < MaxAccidents
  /\ disk' = [disk EXCEPT ![p] = text]
  /\ disturbed' = Disturbed({p}, Handler)
  /\ accidents' = accidents + 1
  /\ UNCHANGED <<registry, handler, overwrote, onDisk, writer, requests>>

HandlerStep(h) ==
  \/ Capture(h)
  \/ Stage(h)
  \/ Write(h)
  \/ Mark(h)
  \/ Unmark(h)
  \/ EngineFails(h)

Next ==
  \/ \E id \in PatchId, p \in Proposal : Propose(id, p)
  \/ \E h \in Handler, id \in PatchId : RequestApply(h, id)
  \/ \E h \in Handler, id \in PatchId : AgentApply(h, id)
  \/ \E h \in Handler, id \in PatchId : RequestRevert(h, id)
  \/ \E h \in Handler : HandlerStep(h)
  \/ \E id \in PatchId : Discard(id)
  \/ \E p \in Path, text \in Edited \cup {Absent} : Save(p, text)

Spec == Init /\ [][Next]_vars

-----------------------------------------------------------------------------
Original == [path : Path, before : FileState]
PatchStatus == {"none", "proposed", "applied", "reverted", "discarded"}

TypeOK ==
  /\ disk \in [Path -> FileState]
  /\ status \in [PatchId -> PatchStatus]
  /\ proposal \in [PatchId -> Proposal \cup {<<>>}]
  /\ revertTo \in [PatchId -> Seq(Original)]
  /\ DOMAIN handler = Handler
  /\ \A h \in Handler : Busy(h) =>
       /\ handler[h].at \in {"capture", "stage", "write", "mark"}
       /\ handler[h].id \in PatchId
  /\ overwrote \in [PatchId -> Seq(Original)]
  /\ onDisk \in [PatchId -> BOOLEAN]
  /\ writer \in [PatchId -> {"user", "agent"}]
  /\ disturbed \subseteq PatchId
  /\ requests \in 0..MaxRequests
  /\ accidents \in 0..MaxAccidents

(* Every change shown as applied can be reverted (ARCHITECTURE 9.9: the    *)
(* before-text of every file is recorded at apply time): of the changes    *)
(* the user applied last this is so, whatever requests overlapped.         *)
UserAppliedIsRevertible ==
  \A id \in PatchId :
    Settled(id) /\ status[id] = "applied" /\ writer[id] = "user" => revertTo[id] # <<>>

(* A change leaves the applied state only by being reverted, and nothing   *)
(* is reverted that was not applied (patches.ts: "applying then discarding *)
(* is not a thing"), however requests overlap.                             *)
Moves == {<<"none", "proposed">>, <<"proposed", "applied">>, <<"proposed", "discarded">>,
          <<"discarded", "applied">>, <<"applied", "reverted">>, <<"reverted", "applied">>}

LegalMoves ==
  [][\A id \in PatchId : status'[id] # status[id] => <<status[id], status'[id]>> \in Moves]_vars

(* When its requests are over, nobody else wrote its files during one, and *)
(* none failed over files it could not read, write or put back, the        *)
(* registry tells the truth about a patch: one it calls applied was        *)
(* written and not restored since, any other was not.                      *)
RegistryMatchesDisk ==
  \A id \in PatchId \ disturbed : Settled(id) => (onDisk[id] <=> status[id] = "applied")

(* A revert gives the tree back, file by file, exactly what the user's     *)
(* last application of that patch replaced, whatever was applied, reverted *)
(* or saved since, when nobody else wrote its files during its requests    *)
(* and these could read them.                                              *)
Restores(id, h) == handler[h].at = "write" /\ handler[h].by = "revert" /\ handler[h].id = id
                   /\ handler'[h].at = "mark"
GivesBack(old) == \A i \in DOMAIN old : disk'[old[i].path] = old[i].before

RevertIsExact ==
  [][\A h \in Handler, id \in PatchId \ disturbed' :
       Restores(id, h) /\ writer[id] = "user" => GivesBack(overwrote[id])]_vars
=============================================================================
