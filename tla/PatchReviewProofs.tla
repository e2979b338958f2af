-------------------------- MODULE PatchReviewProofs --------------------------
(***************************************************************************)
(* Proofs about PatchReview, for every set of patches, ids and handlers,   *)
(* with any number of requests in flight.  No text is looked into: what an *)
(* edit makes of a file, and so the type of the tree, is TLC's part.       *)
(***************************************************************************)
EXTENDS PatchReview, SequenceTheorems, TLAPS

Tabled == disk = [p \in Path |-> disk[p]]

Shape ==
  /\ Tabled
  /\ DOMAIN disk = Path
  /\ status \in [PatchId -> PatchStatus]
  /\ DOMAIN proposal = PatchId /\ DOMAIN revertTo = PatchId /\ DOMAIN overwrote = PatchId
  /\ DOMAIN handler = Handler
  /\ onDisk \in [PatchId -> BOOLEAN]
  /\ writer \in [PatchId -> {"user", "agent"}]
  /\ disturbed \subseteq PatchId

(* h is at one of these points of a request on the patch, for one of these.*)
On(h, id, places) == handler[h].at \in places /\ handler[h].id = id
For(h, id, places, who) == On(h, id, places) /\ handler[h].by = who
Anywhere == {"capture", "stage", "write", "mark"}

(* Originals of the patch: the before-text of each of its files.           *)
Describes(id, old) ==
  /\ DOMAIN old = DOMAIN proposal[id]
  /\ \A i \in DOMAIN old : old[i].path = Target(proposal[id], i)

(* A patch in the registry was accepted once: it names files of the        *)
(* project.                                                                *)
Named(id) ==
  status[id] # "none" =>
    /\ proposal[id] \in Proposal /\ DOMAIN proposal[id] # {}
    /\ \A i \in DOMAIN proposal[id] : Target(proposal[id], i) \in Path

(* What is remembered of a patch, or was replaced by it, are its files.    *)
Remembers(id) ==
  /\ status[id] = "none" => revertTo[id] = <<>> /\ overwrote[id] = <<>>
  /\ revertTo[id] # <<>> => Describes(id, revertTo[id])
  /\ overwrote[id] # <<>> => Describes(id, overwrote[id])

(* What a request carries from one await to the next.                      *)
Job(h) ==
  Busy(h) =>
    LET id == handler[h].id
    IN /\ handler[h].at \in Anywhere
       /\ id \in PatchId /\ status[id] # "none"
       /\ handler[h].at # "capture" => handler[h].by \in {"user", "agent", "revert"}
       /\ handler[h].at = "stage" => Targets(handler[h].patch) = Files(id)
       /\ handler[h].at = "write" => DOMAIN handler[h].after = Files(id)
       /\ handler[h].at # "capture" /\ handler[h].by = "user" =>
            handler[h].before # <<>> /\ Describes(id, handler[h].before)
       /\ handler[h].at # "capture" /\ handler[h].by = "revert" => status[id] \in {"applied", "reverted"}

(* What the user wrote last can be reverted, or is about to be.            *)
Covered(id) ==
  writer[id] = "user" /\ (status[id] = "applied" \/ \E h \in Handler : For(h, id, {"mark"}, "agent")) =>
    revertTo[id] # <<>> \/ \E h \in Handler : For(h, id, {"mark"}, "user")

-----------------------------------------------------------------------------
(* The rest is about a patch whose requests had its files to themselves.   *)

(* One request at most has written and not yet told the registry, which is *)
(* right about the disk otherwise.                                         *)
Truthful(id) ==
  /\ \A h, g \in Handler : On(h, id, {"mark"}) /\ On(g, id, {"mark"}) => h = g
  /\ \A h \in Handler : On(h, id, {"mark"}) => (onDisk[id] <=> handler[h].by # "revert")
  /\ (\A h \in Handler : ~On(h, id, {"mark"})) => (onDisk[id] <=> status[id] = "applied")

(* The originals a user's request has captured are what it will replace,   *)
(* and then what it did.                                                   *)
Captured(id) ==
  \A h \in Handler :
    /\ For(h, id, {"stage", "write"}, "user") => handler[h].before = Contents(id, disk)
    /\ For(h, id, {"mark"}, "user") => handler[h].before = overwrote[id]

Ready(id) ==
  writer[id] = "user" /\ (\A h \in Handler : ~For(h, id, {"mark"}, "user")) =>
    revertTo[id] \in {<<>>, overwrote[id]}

(* Beside a revert only the agent's requests are under way, and none has   *)
(* written; the revert carries the originals of the registry.              *)
Beside(h, id) ==
  /\ revertTo[id] # <<>> /\ status[id] = "applied"
  /\ \A g \in Handler : g # h /\ On(g, id, Anywhere) => For(g, id, {"stage", "write"}, "agent")

Restored(h, id) ==
  \A i \in DOMAIN revertTo[id] : handler[h].after[revertTo[id][i].path] = revertTo[id][i].before

Reverting(id) ==
  \A h \in Handler :
    /\ For(h, id, {"stage", "write"}, "revert") => Beside(h, id)
    /\ For(h, id, {"stage"}, "revert") => handler[h].patch = Restoring(revertTo[id])
    /\ For(h, id, {"write"}, "revert") => Restored(h, id)

Private(id) == Truthful(id) /\ Captured(id) /\ Ready(id) /\ Reverting(id)

IInv ==
  /\ Shape
  /\ \A h \in Handler : Job(h)
  /\ \A id \in PatchId : Named(id) /\ Remembers(id) /\ Covered(id)
  /\ \A id \in PatchId \ disturbed : Private(id)

-----------------------------------------------------------------------------
(* The files of a patch in the registry are files of the project.          *)
LEMMA FilesKnown ==
  ASSUME NEW id \in PatchId, Named(id), status[id] # "none"
  PROVE  /\ Files(id) # {} /\ Files(id) \subseteq Path
         /\ \A i \in DOMAIN proposal[id] : Target(proposal[id], i) \in Files(id)
BY PatchAssumption DEF Named, Files, Targets

(* So are those of a patch the engine accepts.                             *)
LEMMA AcceptedNamed ==
  ASSUME NEW p \in Proposal, NEW tree, Accepts(p, tree)
  PROVE  DOMAIN p # {} /\ \A i \in DOMAIN p : Target(p, i) \in Path
<1>1. p \in Seq(FilePatches) /\ DOMAIN p # {}
  <2>1. p \in Seq(FilePatches) /\ p # <<>>
    BY ProposalAssumption DEF Accepts, Sized
  <2>2. Len(p) \in Nat \ {0}
    BY <2>1
  <2>3. 1 \in 1..Len(p)
    BY <2>2
  <2>4. DOMAIN p = 1..Len(p)
    OBVIOUS
  <2> QED
    BY <2>1, <2>3
<1>2. ASSUME NEW i \in DOMAIN p PROVE Target(p, i) \in Path
  <2>1. p[i].path \in Spelling
    BY <1>1, ProposalAssumption
  <2>2. Target(p, i) # Refused
    BY DEF Accepts, Addressable
  <2> QED
    BY <2>1, <2>2, PatchAssumption DEF Target
<1> QED
  BY <1>1, <1>2

(* The before-texts of a patch describe it, and are the same in trees that *)
(* agree on its files.                                                     *)
LEMMA ContentsDescribe ==
  ASSUME NEW id \in PatchId, Named(id), status[id] # "none", NEW tree
  PROVE  Describes(id, Contents(id, tree)) /\ Contents(id, tree) # <<>>
BY DEF Named, Describes, Contents

(* Trees that agree on the files of a patch give it the same originals.    *)
LEMMA ContentsAgree ==
  ASSUME NEW id \in PatchId, Named(id), status[id] # "none", NEW tree, NEW other,
         \A p \in Files(id) : other[p] = tree[p]
  PROVE  Contents(id, other) = Contents(id, tree)
BY FilesKnown DEF Contents

(* A patch that is still undisturbed was not, and nobody in flight on it   *)
(* lost one of its files.                                                  *)
LEMMA UndisturbedTells ==
  ASSUME NEW files, NEW handlers, NEW q \in PatchId, q \notin Disturbed(files, handlers)
  PROVE  /\ q \notin disturbed
         /\ \/ Files(q) \cap files = {}
            \/ \A g \in handlers : ~(Busy(g) /\ handler[g].id = q)
BY DEF Disturbed

(* The patch that restores the originals names the files they came from,   *)
(* and what the engine makes of it is what they were.                      *)
LEMMA RestoringNames ==
  ASSUME NEW id \in PatchId, Named(id), status[id] # "none", NEW old, Describes(id, old)
  PROVE  /\ Targets(Restoring(old)) = Files(id)
         /\ \A i \in DOMAIN old : Target(Restoring(old), i) = old[i].path /\ old[i].path \in Path
<1>1. DOMAIN Restoring(old) = DOMAIN proposal[id]
  BY DEF Describes, Restoring
<1>2. ASSUME NEW i \in DOMAIN old
      PROVE  /\ Target(Restoring(old), i) = Target(proposal[id], i)
             /\ Target(Restoring(old), i) = old[i].path /\ old[i].path \in Path
  <2>1. old[i].path = Target(proposal[id], i) /\ old[i].path \in Path
    BY DEF Describes, Named
  <2>2. Restoring(old)[i].path = old[i].path
    BY DEF Restoring, FilePatch
  <2> QED
    BY <2>1, <2>2, PatchAssumption DEF Target
<1> QED
  BY <1>1, <1>2 DEF Targets, Files, Describes

(* Carried out, the restoring patch puts back every original.              *)
LEMMA RestoringGivesBack ==
  ASSUME NEW id \in PatchId, Named(id), status[id] # "none", NEW old, Describes(id, old),
         NEW tree, Accepts(Restoring(old), tree), NEW i \in DOMAIN old
  PROVE  Restrict(Patched(Restoring(old), tree), Files(id))[old[i].path] = old[i].before
<1> DEFINE p == Restoring(old)
           t == old[i].path
           k == CHOOSE j \in DOMAIN p : Target(p, j) = t
<1>1. i \in DOMAIN p /\ DOMAIN p = DOMAIN old
  BY DEF Restoring
<1>2. Target(p, i) = t /\ t \in Path /\ t \in Files(id)
  <2>1. Target(p, i) = t /\ t \in Path
    BY RestoringNames
  <2> QED
    BY <2>1, FilesKnown DEF Describes
<1>3. k \in DOMAIN p /\ Target(p, k) = t
  BY <1>1, <1>2
<1>4. p[k] = FilePatch(t, IF old[k].before = Absent THEN Delete ELSE Replace(old[k].before))
  BY <1>1, <1>3, RestoringNames DEF Restoring
<1>5. Patched(p, tree)[t] = FileEffect(p[k], tree[t])
  BY <1>1, <1>2 DEF Patched
<1>6. FileEffect(p[k], tree[t]) # Refused
  BY <1>3 DEF Accepts
<1>7. FileEffect(p[k], tree[t]) = old[k].before
  <2>1. FileEffect(p[k], tree[t]) = ComputeAfter(tree[t], p[k].op)
    BY <1>6 DEF FileEffect
  <2>2. CASE old[k].before = Absent
    <3>1. p[k].op = Delete /\ Delete.kind = "delete"
      BY <1>4, <2>2 DEF FilePatch, Delete
    <3>2. ComputeAfter(tree[t], p[k].op) \in {Refused, Absent}
      BY <3>1 DEF ComputeAfter
    <3> QED
      BY <1>6, <2>1, <2>2, <3>2
  <2>3. CASE old[k].before # Absent
    <3>1. /\ p[k].op = Replace(old[k].before)
          /\ Replace(old[k].before).kind = "replace"
          /\ Replace(old[k].before).content = old[k].before
      BY <1>4, <2>3 DEF FilePatch, Replace
    <3>2. ComputeAfter(tree[t], p[k].op) = old[k].before
      BY <3>1 DEF ComputeAfter
    <3> QED
      BY <2>1, <3>2
  <2> QED
    BY <2>2, <2>3
<1>8. k = i
  <2>1. i \in Nat \ {0} /\ k \in Nat \ {0}
    <3>1. proposal[id] \in Seq(FilePatches)
      BY ProposalAssumption DEF Named
    <3> QED
      BY <1>1, <1>3, <3>1 DEF Describes
  <2> HIDE DEF k
  <2>2. i \in 1..k - 1 \/ k \in 1..i - 1 \/ k = i
    BY <1>1, <1>3, <2>1
  <2> QED
    BY <1>1, <1>2, <1>3, <2>2 DEF Accepts, Addressable, FirstMention
<1> QED
  BY <1>2, <1>5, <1>7, <1>8 DEF Restrict

-----------------------------------------------------------------------------
(* What a capture and a staging do with the tree they see, which is the    *)
(* tree as it is unless they leave the patch disturbed.                    *)
SeenBy(id, tree) ==
  /\ disturbed \subseteq disturbed' /\ disturbed' \subseteq disturbed \cup {id}
  /\ id \in disturbed' \/ tree = disk

Captures(h, tree) ==
  /\ handler[h].at = "capture"
  /\ SeenBy(handler[h].id, tree)
  /\ IF Accepts(proposal[handler[h].id], tree)
     THEN handler' = [handler EXCEPT ![h] =
            [at |-> "stage", by |-> "user", id |-> handler[h].id, patch |-> proposal[handler[h].id],
             before |-> Contents(handler[h].id, tree)]]
     ELSE Finish(h)
  /\ UNCHANGED <<disk, registry, overwrote, onDisk, writer>>

Stages(h, tree, read) ==
  /\ handler[h].at = "stage"
  /\ SeenBy(handler[h].id, tree)
  /\ IF Accepts(handler[h].patch, tree)
     THEN handler' = [handler EXCEPT ![h] =
            [at |-> "write", by |-> handler[h].by, id |-> handler[h].id, before |-> handler[h].before,
             read |-> read,
             after |-> Restrict(Patched(handler[h].patch, tree), Targets(handler[h].patch))]]
     ELSE Finish(h)
  /\ UNCHANGED <<disk, registry, overwrote, onDisk, writer>>

LEMMA TreeSeen ==
  ASSUME Shape, NEW id, NEW files, disturbed' = Blinded(id, files)
  PROVE  SeenBy(id, Without(files))
<1>1. CASE files = {}
  <2>1. Without(files) = disk
    BY <1>1 DEF Without, Shape, Tabled
  <2> QED
    BY <1>1, <2>1 DEF SeenBy, Blinded
<1>2. CASE files # {}
  BY <1>2 DEF SeenBy, Blinded
<1> QED
  BY <1>1, <1>2

LEMMA CaptureSees ==
  ASSUME Shape, NEW h \in Handler, Capture(h)
  PROVE  \E tree : Captures(h, tree)
<1>1. PICK files \in Unreadable(proposal[handler[h].id]) :
        /\ disturbed' = Blinded(handler[h].id, files)
        /\ IF Accepts(proposal[handler[h].id], Without(files))
           THEN handler' = [handler EXCEPT ![h] =
                  [at |-> "stage", by |-> "user", id |-> handler[h].id, patch |-> proposal[handler[h].id],
                   before |-> Contents(handler[h].id, Without(files))]]
           ELSE Finish(h)
  BY DEF Capture
<1>2. Captures(h, Without(files))
  BY <1>1, TreeSeen DEF Captures, Capture
<1> QED
  BY <1>2

LEMMA StageSees ==
  ASSUME Shape, NEW h \in Handler, Stage(h)
  PROVE  \E tree, read : Stages(h, tree, read)
<1>1. PICK files \in Unreadable(handler[h].patch) :
        /\ disturbed' = Blinded(handler[h].id, files)
        /\ IF Accepts(handler[h].patch, Without(files))
           THEN handler' = [handler EXCEPT ![h] =
                  [at |-> "write", by |-> handler[h].by, id |-> handler[h].id, before |-> handler[h].before,
                   read |-> Restrict(Without(files), Targets(handler[h].patch)),
                   after |-> Restrict(Patched(handler[h].patch, Without(files)), Targets(handler[h].patch))]]
           ELSE Finish(h)
  BY DEF Stage
<1>2. Stages(h, Without(files), Restrict(Without(files), Targets(handler[h].patch)))
  BY <1>1, TreeSeen DEF Stages, Stage
<1> QED
  BY <1>2

-----------------------------------------------------------------------------
(* A new patch is known to no request, and was written by nobody.          *)
LEMMA ProposeKeeps ==
  ASSUME IInv, NEW id \in PatchId, NEW p \in Proposal, Propose(id, p)
  PROVE  IInv'
<1>1. Shape'
  BY DEF IInv, Shape, Tabled, PatchStatus, Propose, registry, history
<1>2. ASSUME NEW g \in Handler PROVE Job(g)'
  BY DEF IInv, Shape, Job, Files, Describes, Busy, Free, Anywhere, On, For, Propose, registry, history
<1>3. ASSUME NEW q \in PatchId PROVE Named(q)' /\ Remembers(q)'
  <2>1. Named(q)'
    <3>1. CASE q = id
      <4>1. PICK files : Accepts(p, Without(files))
        BY DEF Propose
      <4>2. DOMAIN p # {} /\ \A i \in DOMAIN p : Target(p, i) \in Path
        BY <4>1, AcceptedNamed
      <4> QED
        BY <3>1, <4>2 DEF IInv, Shape, Named, Propose
    <3>2. CASE q # id
      BY <3>2 DEF IInv, Shape, Named, Propose
    <3> QED BY <3>1, <3>2
  <2>2. Remembers(q)'
    BY DEF IInv, Shape, Remembers, Describes, Propose, registry, history
  <2> QED BY <2>1, <2>2
<1>4. ASSUME NEW q \in PatchId PROVE Covered(q)'
  BY DEF IInv, Shape, Covered, Job, Busy, Free, Anywhere, On, For, Propose, registry, history
<1>5. ASSUME NEW q \in PatchId \ disturbed' PROVE Truthful(q)'
  BY DEF IInv, Shape, Private, Truthful, Job, Busy, Free, Anywhere, On, For, Propose, registry, history
<1>6. ASSUME NEW q \in PatchId \ disturbed' PROVE Captured(q)'
  BY DEF IInv, Shape, Private, Captured, Job, Contents, Busy, Free, Anywhere, On, For, Propose, registry,
     history
<1>7. ASSUME NEW q \in PatchId \ disturbed' PROVE Ready(q)'
  BY DEF IInv, Shape, Private, Ready, Captured, Job, Busy, Free, Anywhere, On, For, Propose, registry, history
<1>8. ASSUME NEW q \in PatchId \ disturbed' PROVE Reverting(q)'
  <2> SUFFICES ASSUME NEW g \in Handler
               PROVE  /\ For(g, q, {"stage", "write"}, "revert")' => Beside(g, q)'
                      /\ For(g, q, {"stage"}, "revert")' => handler'[g].patch = Restoring(revertTo'[q])
                      /\ For(g, q, {"write"}, "revert")' => Restored(g, q)'
    BY DEF Reverting
  <2>1. For(g, q, {"stage", "write"}, "revert")' => Beside(g, q)'
    BY DEF IInv, Shape, Private, Reverting, Beside, Job, Busy, Free, Anywhere, On, For, Propose, registry,
       history
  <2>2. For(g, q, {"stage"}, "revert")' => handler'[g].patch = Restoring(revertTo'[q])
    BY DEF IInv, Shape, Private, Reverting, Beside, Job, Busy, Free, Anywhere, On, For, Propose, registry,
       history
  <2>3. For(g, q, {"write"}, "revert")' => Restored(g, q)'
    BY DEF IInv, Shape, Private, Reverting, Beside, Restored, Job, Busy, Free, Anywhere, On, For, Propose,
       registry, history
  <2> QED BY <2>1, <2>2, <2>3
<1> QED
  BY <1>1, <1>2, <1>3, <1>4, <1>5, <1>6, <1>7, <1>8 DEF IInv, Private

(* A request to apply carries nothing yet.                                 *)
LEMMA RequestApplyKeeps ==
  ASSUME IInv, NEW h \in Handler, NEW id \in PatchId, RequestApply(h, id)
  PROVE  IInv'
<1>1. Shape'
  BY DEF IInv, Shape, Tabled, PatchStatus, RequestApply, MayApply, Start, registry, history
<1>2. ASSUME NEW g \in Handler PROVE Job(g)'
  BY DEF IInv, Shape, Job, Files, Describes, Busy, Free, Anywhere, On, For, RequestApply, MayApply, Start,
     registry, history
<1>3. ASSUME NEW q \in PatchId PROVE Named(q)' /\ Remembers(q)'
  <2>1. Named(q)'
    BY DEF IInv, Shape, Named, RequestApply, MayApply, Start, registry, history
  <2>2. Remembers(q)'
    BY DEF IInv, Shape, Remembers, Describes, RequestApply, MayApply, Start, registry, history
  <2> QED BY <2>1, <2>2
<1>4. ASSUME NEW q \in PatchId PROVE Covered(q)'
  BY DEF IInv, Shape, Covered, Job, Busy, Free, Anywhere, On, For, RequestApply, MayApply, Start, registry,
     history
<1>5. ASSUME NEW q \in PatchId \ disturbed' PROVE Truthful(q)'
  BY DEF IInv, Shape, Private, Truthful, Job, Busy, Free, Anywhere, On, For, RequestApply, MayApply, Start,
     registry, history
<1>6. ASSUME NEW q \in PatchId \ disturbed' PROVE Captured(q)'
  BY DEF IInv, Shape, Private, Captured, Job, Contents, Busy, Free, Anywhere, On, For, RequestApply, MayApply,
     Start, registry, history
<1>7. ASSUME NEW q \in PatchId \ disturbed' PROVE Ready(q)'
  BY DEF IInv, Shape, Private, Ready, Captured, Job, Busy, Free, Anywhere, On, For, RequestApply, MayApply,
     Start, registry, history
<1>8. ASSUME NEW q \in PatchId \ disturbed' PROVE Reverting(q)'
  <2> SUFFICES ASSUME NEW g \in Handler
               PROVE  /\ For(g, q, {"stage", "write"}, "revert")' => Beside(g, q)'
                      /\ For(g, q, {"stage"}, "revert")' => handler'[g].patch = Restoring(revertTo'[q])
                      /\ For(g, q, {"write"}, "revert")' => Restored(g, q)'
    BY DEF Reverting
  <2>1. For(g, q, {"stage", "write"}, "revert")' => Beside(g, q)'
    BY DEF IInv, Shape, Private, Reverting, Beside, Job, Busy, Free, Anywhere, On, For, RequestApply,
       MayApply, Start, registry, history
  <2>2. For(g, q, {"stage"}, "revert")' => handler'[g].patch = Restoring(revertTo'[q])
    BY DEF IInv, Shape, Private, Reverting, Beside, Job, Busy, Free, Anywhere, On, For, RequestApply,
       MayApply, Start, registry, history
  <2>3. For(g, q, {"write"}, "revert")' => Restored(g, q)'
    BY DEF IInv, Shape, Private, Reverting, Beside, Restored, Job, Busy, Free, Anywhere, On, For,
       RequestApply, MayApply, Start, registry, history
  <2> QED BY <2>1, <2>2, <2>3
<1> QED
  BY <1>1, <1>2, <1>3, <1>4, <1>5, <1>6, <1>7, <1>8 DEF IInv, Private

(* The originals are captured from the tree as it is.                      *)
LEMMA CaptureKeeps ==
  ASSUME IInv, NEW h \in Handler, Capture(h)
  PROVE  IInv'
<1>a. PICK tree : Captures(h, tree)
  BY CaptureSees DEF IInv
<1>1. Shape'
  BY <1>a DEF IInv, Shape, Tabled, Job, Busy, Free, PatchStatus, Captures, SeenBy, Finish, registry
<1>2. ASSUME NEW g \in Handler PROVE Job(g)'
  <2>1. CASE g = h /\ Accepts(proposal[handler[h].id], tree)
    <3> DEFINE id == handler[h].id
    <3>1. id \in PatchId /\ status[id] # "none" /\ Named(id) /\ h \in DOMAIN handler
      BY <1>a DEF IInv, Shape, Job, Busy, Free, Captures
    <3>2. Describes(id, Contents(id, tree)) /\ Contents(id, tree) # <<>>
      BY <3>1, ContentsDescribe
    <3>3. handler'[h] = [at |-> "stage", by |-> "user", id |-> id, patch |-> proposal[id],
                         before |-> Contents(id, tree)]
      BY <1>a, <2>1, <3>1 DEF Captures
    <3> HIDE DEF id
    <3> QED
      BY <1>a, <2>1, <3>1, <3>2, <3>3 DEF Job, Files, Describes, Anywhere, Captures, registry
  <2>2. CASE ~(g = h /\ Accepts(proposal[handler[h].id], tree))
    BY <1>a, <2>2 DEF IInv, Shape, Job, Files, Describes, Busy, Free, Anywhere, Captures, SeenBy, Finish, registry
  <2> QED BY <2>1, <2>2
<1>3. ASSUME NEW q \in PatchId PROVE Named(q)' /\ Remembers(q)'
  <2>1. Named(q)'
    BY <1>a DEF IInv, Shape, Named, Captures, SeenBy, Finish, registry
  <2>2. Remembers(q)'
    BY <1>a DEF IInv, Shape, Remembers, Describes, Captures, SeenBy, Finish, registry
  <2> QED BY <2>1, <2>2
<1>4. ASSUME NEW q \in PatchId PROVE Covered(q)'
  BY <1>a DEF IInv, Shape, Covered, Job, Busy, Free, Anywhere, On, For, Captures, SeenBy, Finish, registry
<1>5. ASSUME NEW q \in PatchId \ disturbed' PROVE Truthful(q)'
  BY <1>a DEF IInv, Shape, Private, Truthful, Job, Busy, Free, Anywhere, On, For, Captures, SeenBy, Finish, registry
<1>6. ASSUME NEW q \in PatchId \ disturbed' PROVE Captured(q)'
  BY <1>a, SMTT(60) DEF IInv, Shape, Private, Captured, Job, Contents, Busy, Free, Anywhere, On, For, Captures, SeenBy, Finish, registry
<1>7. ASSUME NEW q \in PatchId \ disturbed' PROVE Ready(q)'
  BY <1>a DEF IInv, Shape, Private, Ready, Captured, Job, Busy, Free, Anywhere, On, For, Captures, SeenBy, Finish, registry
<1>8. ASSUME NEW q \in PatchId \ disturbed' PROVE Reverting(q)'
  <2> SUFFICES ASSUME NEW g \in Handler
               PROVE  /\ For(g, q, {"stage", "write"}, "revert")' => Beside(g, q)'
                      /\ For(g, q, {"stage"}, "revert")' => handler'[g].patch = Restoring(revertTo'[q])
                      /\ For(g, q, {"write"}, "revert")' => Restored(g, q)'
    BY DEF Reverting
  <2>1. For(g, q, {"stage", "write"}, "revert")' => Beside(g, q)'
    BY <1>a DEF IInv, Shape, Private, Reverting, Beside, Job, Busy, Free, Anywhere, On, For, Captures, SeenBy, Finish, registry
  <2>2. For(g, q, {"stage"}, "revert")' => handler'[g].patch = Restoring(revertTo'[q])
    BY <1>a DEF IInv, Shape, Private, Reverting, Beside, Job, Busy, Free, Anywhere, On, For, Captures, SeenBy, Finish, registry
  <2>3. For(g, q, {"write"}, "revert")' => Restored(g, q)'
    BY <1>a DEF IInv, Shape, Private, Reverting, Beside, Restored, Job, Busy, Free, Anywhere, On, For, Captures,
       Finish, SeenBy, registry
  <2> QED BY <2>1, <2>2, <2>3
<1> QED
  BY <1>1, <1>2, <1>3, <1>4, <1>5, <1>6, <1>7, <1>8 DEF IInv, Private

(* The agent applies without originals, and covers no user patch that way. *)
LEMMA AgentApplyKeeps ==
  ASSUME IInv, NEW h \in Handler, NEW id \in PatchId, AgentApply(h, id)
  PROVE  IInv'
<1>1. Shape'
  BY DEF IInv, Shape, Tabled, PatchStatus, AgentApply, AgentMayApply, Start, registry, history
<1>2. ASSUME NEW g \in Handler PROVE Job(g)'
  BY DEF IInv, Shape, Job, Files, Describes, Busy, Free, Anywhere, On, For, AgentApply, AgentMayApply, Start,
     registry, history
<1>3. ASSUME NEW q \in PatchId PROVE Named(q)' /\ Remembers(q)'
  <2>1. Named(q)'
    BY DEF IInv, Shape, Named, AgentApply, AgentMayApply, Start, registry, history
  <2>2. Remembers(q)'
    BY DEF IInv, Shape, Remembers, Describes, AgentApply, AgentMayApply, Start, registry, history
  <2> QED BY <2>1, <2>2
<1>4. ASSUME NEW q \in PatchId PROVE Covered(q)'
  BY DEF IInv, Shape, Covered, Job, Busy, Free, Anywhere, On, For, AgentApply, AgentMayApply, Start, registry,
     history
<1>5. ASSUME NEW q \in PatchId \ disturbed' PROVE Truthful(q)'
  BY DEF IInv, Shape, Private, Truthful, Job, Busy, Free, Anywhere, On, For, AgentApply, AgentMayApply, Start,
     registry, history
<1>6. ASSUME NEW q \in PatchId \ disturbed' PROVE Captured(q)'
  BY DEF IInv, Shape, Private, Captured, Job, Contents, Busy, Free, Anywhere, On, For, AgentApply,
     AgentMayApply, Start, registry, history
<1>7. ASSUME NEW q \in PatchId \ disturbed' PROVE Ready(q)'
  BY DEF IInv, Shape, Private, Ready, Captured, Job, Busy, Free, Anywhere, On, For, AgentApply, AgentMayApply,
     Start, registry, history
<1>8. ASSUME NEW q \in PatchId \ disturbed' PROVE Reverting(q)'
  <2> SUFFICES ASSUME NEW g \in Handler
               PROVE  /\ For(g, q, {"stage", "write"}, "revert")' => Beside(g, q)'
                      /\ For(g, q, {"stage"}, "revert")' => handler'[g].patch = Restoring(revertTo'[q])
                      /\ For(g, q, {"write"}, "revert")' => Restored(g, q)'
    BY DEF Reverting
  <2>1. For(g, q, {"stage", "write"}, "revert")' => Beside(g, q)'
    BY DEF IInv, Shape, Private, Reverting, Beside, Job, Busy, Free, Anywhere, On, For, AgentApply,
       AgentMayApply, Start, registry, history
  <2>2. For(g, q, {"stage"}, "revert")' => handler'[g].patch = Restoring(revertTo'[q])
    BY DEF IInv, Shape, Private, Reverting, Beside, Job, Busy, Free, Anywhere, On, For, AgentApply,
       AgentMayApply, Start, registry, history
  <2>3. For(g, q, {"write"}, "revert")' => Restored(g, q)'
    BY DEF IInv, Shape, Private, Reverting, Beside, Restored, Job, Busy, Free, Anywhere, On, For, AgentApply,
       AgentMayApply, Start, registry, history
  <2> QED BY <2>1, <2>2, <2>3
<1> QED
  BY <1>1, <1>2, <1>3, <1>4, <1>5, <1>6, <1>7, <1>8 DEF IInv, Private

(* What the engine will write is for the files of the patch; for a revert  *)
(* it is the originals.                                                    *)
LEMMA StageKeeps ==
  ASSUME IInv, NEW h \in Handler, Stage(h)
  PROVE  IInv'
<1>a. PICK tree, read : Stages(h, tree, read)
  BY StageSees DEF IInv
<1>1. Shape'
  BY <1>a DEF IInv, Shape, Tabled, Job, Busy, Free, PatchStatus, Stages, SeenBy, Finish, registry
<1>2. ASSUME NEW g \in Handler PROVE Job(g)'
  <2> DEFINE id == handler[h].id
             p == handler[h].patch
  <2>1. CASE g = h /\ Accepts(p, tree)
    <3>1. id \in PatchId /\ Job(h) /\ Busy(h) /\ Targets(p) = Files(id)
      BY <1>a DEF IInv, Job, Busy, Free, Stages
    <3>2. handler'[h] = [at |-> "write", by |-> handler[h].by, id |-> id, before |-> handler[h].before,
                         read |-> read, after |-> Restrict(Patched(p, tree), Targets(p))]
      BY <1>a, <2>1 DEF Stages, IInv, Shape
    <3>3. DOMAIN handler'[h].after = Files(id)
      BY <3>1, <3>2 DEF Restrict
    <3> QED
      BY <1>a, <2>1, <3>1, <3>2, <3>3 DEF Job, Files, Describes, Anywhere, Stages, registry
  <2>2. CASE ~(g = h /\ Accepts(p, tree))
    BY <1>a, <2>2 DEF IInv, Shape, Job, Files, Describes, Busy, Free, Anywhere, Stages, SeenBy, Finish, registry
  <2> QED BY <2>1, <2>2
<1>3. ASSUME NEW q \in PatchId PROVE Named(q)' /\ Remembers(q)'
  <2>1. Named(q)'
    BY <1>a DEF IInv, Shape, Named, Stages, SeenBy, Finish, registry
  <2>2. Remembers(q)'
    BY <1>a DEF IInv, Shape, Remembers, Describes, Stages, SeenBy, Finish, registry
  <2> QED BY <2>1, <2>2
<1>4. ASSUME NEW q \in PatchId PROVE Covered(q)'
  BY <1>a DEF IInv, Shape, Covered, Job, Busy, Free, Anywhere, On, For, Stages, SeenBy, Finish, registry
<1>5. ASSUME NEW q \in PatchId \ disturbed' PROVE Truthful(q)'
  BY <1>a DEF IInv, Shape, Private, Truthful, Job, Busy, Free, Anywhere, On, For, Stages, SeenBy, Finish, registry
<1>6. ASSUME NEW q \in PatchId \ disturbed' PROVE Captured(q)'
  BY <1>a DEF IInv, Shape, Private, Captured, Job, Contents, Busy, Free, Anywhere, On, For, Stages, SeenBy, Finish,
     registry
<1>7. ASSUME NEW q \in PatchId \ disturbed' PROVE Ready(q)'
  BY <1>a DEF IInv, Shape, Private, Ready, Captured, Job, Busy, Free, Anywhere, On, For, Stages, SeenBy, Finish, registry
<1>8. ASSUME NEW q \in PatchId \ disturbed' PROVE Reverting(q)'
  <2> SUFFICES ASSUME NEW g \in Handler
               PROVE  /\ For(g, q, {"stage", "write"}, "revert")' => Beside(g, q)'
                      /\ For(g, q, {"stage"}, "revert")' => handler'[g].patch = Restoring(revertTo'[q])
                      /\ For(g, q, {"write"}, "revert")' => Restored(g, q)'
    BY DEF Reverting
  <2>1. For(g, q, {"stage", "write"}, "revert")' => Beside(g, q)'
    BY <1>a DEF IInv, Shape, Private, Reverting, Beside, Job, Busy, Free, Anywhere, On, For, Stages, SeenBy, Finish,
       registry
  <2>2. For(g, q, {"stage"}, "revert")' => handler'[g].patch = Restoring(revertTo'[q])
    BY <1>a DEF IInv, Shape, Private, Reverting, Beside, Job, Busy, Free, Anywhere, On, For, Stages, SeenBy, Finish,
       registry
  <2>3. For(g, q, {"write"}, "revert")' => Restored(g, q)'
    <3> DEFINE p == handler[h].patch
    <3>1. CASE g = h /\ handler[h].by = "revert" /\ handler[h].id = q /\ Accepts(p, tree)
      <4>1. Describes(q, revertTo[q]) /\ Named(q) /\ status[q] # "none" /\ p = Restoring(revertTo[q])
        BY <1>a, <3>1 DEF IInv, Private, Reverting, Remembers, Beside, For, On, Stages, SeenBy
      <4>2. Targets(p) = Files(q)
        BY <4>1, RestoringNames
      <4>3. handler'[h].after = Restrict(Patched(p, tree), Files(q))
        BY <1>a, <3>1, <4>2 DEF Stages, IInv, Shape
      <4>4. \A i \in DOMAIN revertTo[q] : handler'[h].after[revertTo[q][i].path] = revertTo[q][i].before
        BY <3>1, <4>1, <4>3, RestoringGivesBack
      <4> QED
        BY <1>a, <3>1, <4>4 DEF Restored, Stages, registry
    <3>2. CASE ~(g = h /\ handler[h].by = "revert" /\ handler[h].id = q /\ Accepts(p, tree))
      BY <1>a, <3>2 DEF IInv, Shape, Private, Reverting, Restored, For, On, Free, Stages, SeenBy, Finish, registry
    <3> QED BY <3>1, <3>2
  <2> QED BY <2>1, <2>2, <2>3
<1> QED
  BY <1>1, <1>2, <1>3, <1>4, <1>5, <1>6, <1>7, <1>8 DEF IInv, Private

(* A write disturbs every other patch whose requests share its files; the  *)
(* patch it belongs to is on disk now, or off it after a revert.           *)
LEMMA WriteKeeps ==
  ASSUME IInv, NEW h \in Handler, Write(h)
  PROVE  IInv'
<1> DEFINE id == handler[h].id
           who == handler[h].by
           after == handler[h].after
<1>a. /\ Job(h) /\ Busy(h) /\ id \in PatchId /\ h \in DOMAIN handler
      /\ who \in {"user", "agent", "revert"} /\ DOMAIN after = Files(id)
      /\ Named(id) /\ status[id] # "none"
  BY DEF IInv, Shape, Job, Busy, Free, Write
<1>b. \A g \in Handler :
        handler'[g] = IF g = h THEN [at |-> "mark", by |-> who, id |-> id, before |-> handler[h].before]
                      ELSE handler[g]
  BY DEF Write, IInv, Shape
<1>c. status' = status /\ proposal' = proposal /\ revertTo' = revertTo
  BY DEF Write, registry
<1>d. \A q \in PatchId : onDisk'[q] = IF q = id THEN who # "revert" ELSE onDisk[q]
  BY Zenon DEF Write, IInv, Shape
<1>e. \A q \in PatchId :
        /\ overwrote'[q] = IF q = id /\ who # "revert" THEN Contents(id, disk) ELSE overwrote[q]
        /\ writer'[q] = IF q = id /\ who # "revert" THEN who ELSE writer[q]
  BY DEF Write, IInv, Shape
<1>f. /\ disk' = [p \in Path |-> IF p \in Files(id) THEN after[p] ELSE disk[p]]
      /\ h \in Handler /\ handler[h].at = "write"
  BY <1>a DEF Write
<1>g. ASSUME NEW q \in PatchId \ disturbed'
      PROVE  /\ q \notin disturbed /\ Private(q)
             /\ Files(q) \cap Files(id) # {} =>
                  \A g \in Handler \ {h} : ~(Busy(g) /\ handler[g].id = q)
  BY <1>a, UndisturbedTells DEF Write, IInv
<1>h. \A q \in PatchId \ disturbed' : q = id => \A g \in Handler \ {h} : ~On(g, id, Anywhere)
  BY <1>a, <1>g, FilesKnown DEF Busy, Free, On, Anywhere
<1>1. Shape'
  <2>1. disturbed' \subseteq PatchId
    BY DEF IInv, Shape, Write, Disturbed
  <2>2. onDisk' \in [PatchId -> BOOLEAN]
    BY <1>a, Zenon DEF IInv, Shape, Write
  <2>3. writer' \in [PatchId -> {"user", "agent"}] /\ DOMAIN overwrote' = PatchId
    BY <1>a DEF IInv, Shape, Write
  <2>4. DOMAIN handler' = Handler
    BY DEF IInv, Shape, Write
  <2> QED
    BY <1>c, <1>f, <2>1, <2>2, <2>3, <2>4 DEF IInv, Shape, Tabled
<1> HIDE DEF id, who, after
<1>2. ASSUME NEW g \in Handler PROVE Job(g)'
  <2>1. CASE g = h
    <3>1. handler'[g] = [at |-> "mark", by |-> who, id |-> id, before |-> handler[h].before]
      BY <1>b, <2>1
    <3>2. handler[h].by = who /\ handler[h].id = id
      BY DEF who, id
    <3> QED
      BY <1>a, <1>c, <1>f, <3>1, <3>2 DEF Job, Describes, Anywhere
  <2>2. CASE g # h
    <3>1. handler'[g] = handler[g] /\ Job(g)
      BY <1>b, <2>2 DEF IInv
    <3> QED
      BY <1>c, <3>1 DEF Job, Files, Describes, Busy, Free
  <2> QED BY <2>1, <2>2
<1>3. ASSUME NEW q \in PatchId PROVE Named(q)' /\ Remembers(q)'
  <2>1. Named(q)'
    BY <1>c DEF IInv, Named
  <2>2. Remembers(q)'
    <3>1. Describes(id, Contents(id, disk))
      BY <1>a, ContentsDescribe
    <3> QED
      BY <1>a, <1>c, <1>e, <3>1 DEF IInv, Remembers, Describes
  <2> QED BY <2>1, <2>2
<1>4. ASSUME NEW q \in PatchId PROVE Covered(q)'
  BY <1>a, <1>b, <1>c, <1>e, <1>f DEF IInv, Covered, For, On
<1>5. ASSUME NEW q \in PatchId \ disturbed' PROVE Truthful(q)'
  <2>1. CASE q = id
    <3>1. ASSUME NEW g \in Handler PROVE On(g, q, {"mark"})' <=> g = h
      <4>1. CASE g = h
        BY <1>b, <2>1, <4>1 DEF On
      <4>2. CASE g # h
        BY <1>b, <1>h, <2>1, <4>2 DEF On, Anywhere
      <4> QED BY <4>1, <4>2
    <3>2. onDisk'[q] <=> who # "revert"
      BY <1>d, <2>1
    <3>3. handler'[h].by = who
      BY <1>a, <1>b
    <3> QED
      BY <3>1, <3>2, <3>3, <1>f, Zenon DEF Truthful
  <2>2. CASE q # id
    <3>1. \A g \in Handler : On(g, q, {"mark"})' <=> On(g, q, {"mark"})
      BY <1>a, <1>b, <1>f, <2>2 DEF On
    <3>2. \A g \in Handler : On(g, q, {"mark"}) => handler'[g] = handler[g]
      BY <1>b, <1>f DEF On
    <3>3. onDisk'[q] <=> onDisk[q]
      BY <1>d, <2>2
    <3> QED
      BY <1>c, <1>g, <3>1, <3>2, <3>3 DEF Private, Truthful
  <2> QED BY <2>1, <2>2
<1>6. ASSUME NEW q \in PatchId \ disturbed' PROVE Captured(q)'
  <2>1. ASSUME NEW g \in Handler \ {h}, For(g, q, {"stage", "write"}, "user")
        PROVE  Contents(q, disk') = Contents(q, disk)
    <3>1. Busy(g) /\ handler[g].id = q /\ status[q] # "none" /\ Named(q)
      BY <2>1 DEF IInv, Job, For, On, Busy, Free
    <3>2. Files(q) \cap Files(id) = {}
      BY <1>g, <3>1
    <3>3. \A t \in Files(q) : disk'[t] = disk[t]
      BY <1>f, <3>1, <3>2, FilesKnown
    <3> QED
      BY <3>1, <3>3, ContentsAgree
  <2>2. Contents(q, disk)' = Contents(q, disk')
    BY <1>c DEF Contents
  <2>3. ASSUME NEW g \in Handler PROVE For(g, q, {"stage", "write"}, "user")' => handler'[g].before = Contents(q, disk)'
    BY <1>a, <1>b, <1>f, <1>g, <2>1, <2>2 DEF Private, Captured, For, On
  <2>4. ASSUME NEW g \in Handler PROVE For(g, q, {"mark"}, "user")' => handler'[g].before = overwrote'[q]
    <3>1. CASE g = h
      <4>1. handler'[h] = [at |-> "mark", by |-> who, id |-> id, before |-> handler[h].before]
        BY <1>b
      <4>2. For(h, q, {"mark"}, "user")' => For(h, q, {"stage", "write"}, "user") /\ q = id /\ who = "user"
        BY <1>f, <4>1 DEF For, On, id, who
      <4>3. For(h, q, {"stage", "write"}, "user") => handler[h].before = Contents(q, disk)
        BY <1>f, <1>g DEF Private, Captured
      <4> QED
        BY <1>e, <3>1, <4>1, <4>2, <4>3
    <3>2. CASE g # h /\ q = id
      BY <1>b, <1>h, <3>2 DEF For, On, Anywhere
    <3>3. CASE g # h /\ q # id
      BY <1>b, <1>e, <1>g, <3>3 DEF Private, Captured, For, On
    <3> QED BY <3>1, <3>2, <3>3
  <2> QED
    BY <2>3, <2>4 DEF Captured
<1>7. ASSUME NEW q \in PatchId \ disturbed' PROVE Ready(q)'
  <2>1. CASE q = id /\ who = "user"
    BY <1>a, <1>b, <1>f, <2>1 DEF Ready, For, On
  <2>2. CASE q = id /\ who = "agent"
    BY <1>a, <1>e, <2>2 DEF Ready
  <2>3. CASE q # id \/ who = "revert"
    <3>1. overwrote'[q] = overwrote[q] /\ writer'[q] = writer[q]
      BY <1>e, <2>3
    <3>2. \A g \in Handler : For(g, q, {"mark"}, "user")' <=> For(g, q, {"mark"}, "user")
      BY <1>b, <1>f, <2>3 DEF For, On
    <3> QED
      BY <1>c, <1>g, <3>1, <3>2 DEF Private, Ready
  <2> QED BY <1>a, <2>1, <2>2, <2>3
<1>8. ASSUME NEW q \in PatchId \ disturbed' PROVE Reverting(q)'
  <2>1. ASSUME NEW g \in Handler, For(g, q, {"stage", "write"}, "revert")'
        PROVE  g # h /\ q # id /\ handler'[g] = handler[g] /\ For(g, q, {"stage", "write"}, "revert")
    BY <1>a, <1>b, <1>f, <1>h, <2>1 DEF For, On, Anywhere
  <2>2. ASSUME NEW k \in Handler PROVE On(k, q, Anywhere)' => On(k, q, Anywhere)
    <3>1. CASE k = h
      BY <1>b, <1>f, <3>1 DEF On, Anywhere, id
    <3>2. CASE k # h
      BY <1>b, <3>2 DEF On
    <3> QED BY <3>1, <3>2
  <2>3. ASSUME NEW g \in Handler, For(g, q, {"stage", "write"}, "revert")' PROVE Beside(g, q)'
    <3>1. Beside(g, q) /\ q # id
      BY <1>g, <2>1, <2>3 DEF Private, Reverting
    <3>2. ASSUME NEW k \in Handler, For(k, q, {"stage", "write"}, "agent")
          PROVE  For(k, q, {"stage", "write"}, "agent")'
      <4>1. k # h
        BY <3>1, <3>2 DEF For, On, id
      <4> QED
        BY <1>b, <3>2, <4>1 DEF For, On
    <3> QED
      BY <1>c, <2>2, <3>1, <3>2 DEF Beside
  <2>4. ASSUME NEW g \in Handler, For(g, q, {"stage"}, "revert")'
        PROVE  handler'[g].patch = Restoring(revertTo'[q])
    <3>1. For(g, q, {"stage", "write"}, "revert")'
      BY <2>4 DEF For, On
    <3>2. handler'[g] = handler[g] /\ For(g, q, {"stage"}, "revert")
      BY <2>1, <2>4, <3>1 DEF For, On
    <3> QED
      BY <1>c, <1>g, <3>2 DEF Private, Reverting
  <2>5. ASSUME NEW g \in Handler, For(g, q, {"write"}, "revert")' PROVE Restored(g, q)'
    <3>1. For(g, q, {"stage", "write"}, "revert")'
      BY <2>5 DEF For, On
    <3>2. handler'[g] = handler[g] /\ For(g, q, {"write"}, "revert")
      BY <2>1, <2>5, <3>1 DEF For, On
    <3> QED
      BY <1>c, <1>g, <3>2 DEF Private, Reverting, Restored
  <2> QED
    BY <2>3, <2>4, <2>5 DEF Reverting
<1> QED
  BY <1>1, <1>2, <1>3, <1>4, <1>5, <1>6, <1>7, <1>8 DEF IInv, Private

(* The registry hears of an application, and keeps the originals of a user *)
(* who asked for it.                                                       *)
LEMMA MarkKeeps ==
  ASSUME IInv, NEW h \in Handler, Mark(h)
  PROVE  IInv'
<1>1. Shape'
  BY DEF IInv, Shape, Tabled, PatchStatus, Mark, Marking, Remembered, Finish, registry, history
<1>2. ASSUME NEW g \in Handler PROVE Job(g)'
  BY DEF IInv, Shape, Job, Files, Describes, Busy, Free, Anywhere, On, For, Mark, Marking, Remembered, Finish,
     registry, history
<1>3. ASSUME NEW q \in PatchId PROVE Named(q)' /\ Remembers(q)'
  <2>1. Named(q)'
    BY DEF IInv, Shape, Named, Job, Busy, Free, Mark, Marking
  <2>2. Remembers(q)'
    BY DEF IInv, Shape, Remembers, Describes, Job, Busy, Free, Mark, Marking, Remembered, history
  <2> QED BY <2>1, <2>2
<1>4. ASSUME NEW q \in PatchId PROVE Covered(q)'
  BY DEF IInv, Shape, Covered, Job, Busy, Free, Anywhere, On, For, Mark, Marking, Remembered, Finish,
     registry, history
<1>5. ASSUME NEW q \in PatchId \ disturbed' PROVE Truthful(q)'
  BY DEF IInv, Shape, Private, Truthful, Job, Busy, Free, Anywhere, On, For, Mark, Marking, Remembered,
     Finish, registry, history
<1>6. ASSUME NEW q \in PatchId \ disturbed' PROVE Captured(q)'
  BY DEF IInv, Shape, Private, Captured, Job, Contents, Busy, Free, Anywhere, On, For, Mark, Marking,
     Remembered, Finish, registry, history
<1>7. ASSUME NEW q \in PatchId \ disturbed' PROVE Ready(q)'
  BY DEF IInv, Shape, Private, Ready, Captured, Job, Busy, Free, Anywhere, On, For, Mark, Marking, Remembered,
     Finish, registry, history
<1>8. ASSUME NEW q \in PatchId \ disturbed' PROVE Reverting(q)'
  <2> SUFFICES ASSUME NEW g \in Handler
               PROVE  /\ For(g, q, {"stage", "write"}, "revert")' => Beside(g, q)'
                      /\ For(g, q, {"stage"}, "revert")' => handler'[g].patch = Restoring(revertTo'[q])
                      /\ For(g, q, {"write"}, "revert")' => Restored(g, q)'
    BY DEF Reverting
  <2>1. For(g, q, {"stage", "write"}, "revert")' => Beside(g, q)'
    BY DEF IInv, Shape, Private, Reverting, Beside, Job, Busy, Free, Anywhere, On, For, Mark, Marking,
       Remembered, Finish, registry, history
  <2>2. For(g, q, {"stage"}, "revert")' => handler'[g].patch = Restoring(revertTo'[q])
    BY DEF IInv, Shape, Private, Reverting, Beside, Job, Busy, Free, Anywhere, On, For, Mark, Marking,
       Remembered, Finish, registry, history
  <2>3. For(g, q, {"write"}, "revert")' => Restored(g, q)'
    BY DEF IInv, Shape, Private, Reverting, Beside, Restored, Job, Busy, Free, Anywhere, On, For, Mark,
       Marking, Remembered, Finish, registry, history
  <2> QED BY <2>1, <2>2, <2>3
<1> QED
  BY <1>1, <1>2, <1>3, <1>4, <1>5, <1>6, <1>7, <1>8 DEF IInv, Private

(* A revert begins on an applied patch that has originals, and disturbs it *)
(* when other requests are under way that would write.                     *)
LEMMA RequestRevertKeeps ==
  ASSUME IInv, NEW h \in Handler, NEW id \in PatchId, RequestRevert(h, id)
  PROVE  IInv'
<1>1. Shape'
  BY DEF IInv, Shape, Tabled, PatchStatus, RequestRevert, MayRevert, Start, registry, history
<1>2. ASSUME NEW g \in Handler PROVE Job(g)'
  <2>1. CASE g = h
    <3>1. Describes(id, revertTo[id]) /\ Named(id) /\ status[id] = "applied"
      BY DEF IInv, Remembers, RequestRevert, MayRevert
    <3>2. Targets(Restoring(revertTo[id])) = Files(id)
      BY <3>1, RestoringNames
    <3>3. handler'[h] = [at |-> "stage", by |-> "revert", id |-> id, patch |-> Restoring(revertTo[id]),
                         before |-> <<>>]
      BY DEF RequestRevert, Start, IInv, Shape
    <3> QED
      BY <2>1, <3>1, <3>2, <3>3 DEF Job, Files, Anywhere, RequestRevert, registry
  <2>2. CASE g # h
    BY <2>2 DEF IInv, Shape, Job, Files, Describes, Busy, Free, RequestRevert, Start, registry
  <2> QED BY <2>1, <2>2
<1>3. ASSUME NEW q \in PatchId PROVE Named(q)' /\ Remembers(q)'
  <2>1. Named(q)'
    BY DEF IInv, Shape, Named, RequestRevert, MayRevert, Start, registry, history
  <2>2. Remembers(q)'
    BY DEF IInv, Shape, Remembers, Describes, RequestRevert, MayRevert, Start, registry, history
  <2> QED BY <2>1, <2>2
<1>4. ASSUME NEW q \in PatchId PROVE Covered(q)'
  BY DEF IInv, Shape, Covered, Job, Busy, Free, Anywhere, On, For, RequestRevert, MayRevert, Start, registry,
     history
<1>5. ASSUME NEW q \in PatchId \ disturbed' PROVE Truthful(q)'
  BY DEF IInv, Shape, Private, Truthful, Job, Busy, Free, Anywhere, On, For, RequestRevert, MayRevert, Start,
     registry, history
<1>6. ASSUME NEW q \in PatchId \ disturbed' PROVE Captured(q)'
  BY DEF IInv, Shape, Private, Captured, Job, Contents, Busy, Free, Anywhere, On, For, RequestRevert,
     MayRevert, Start, registry, history
<1>7. ASSUME NEW q \in PatchId \ disturbed' PROVE Ready(q)'
  BY DEF IInv, Shape, Private, Ready, Captured, Job, Busy, Free, Anywhere, On, For, RequestRevert, MayRevert,
     Start, registry, history
<1>8. ASSUME NEW q \in PatchId \ disturbed' PROVE Reverting(q)'
  <2> SUFFICES ASSUME NEW g \in Handler
               PROVE  /\ For(g, q, {"stage", "write"}, "revert")' => Beside(g, q)'
                      /\ For(g, q, {"stage"}, "revert")' => handler'[g].patch = Restoring(revertTo'[q])
                      /\ For(g, q, {"write"}, "revert")' => Restored(g, q)'
    BY DEF Reverting
  <2>1. For(g, q, {"stage", "write"}, "revert")' => Beside(g, q)'
    <3>1. CASE q = id
      BY <3>1 DEF IInv, Shape, Beside, For, On, Anywhere, Settled, Busy, Free, RequestRevert, MayRevert,
         Start, registry
    <3>2. CASE q # id
      BY <3>2 DEF IInv, Shape, Private, Reverting, Beside, For, On, Anywhere, RequestRevert, Start, registry
    <3> QED BY <3>1, <3>2
  <2>2. For(g, q, {"stage"}, "revert")' => handler'[g].patch = Restoring(revertTo'[q])
    BY DEF IInv, Shape, Private, Reverting, Beside, Job, Busy, Free, Anywhere, On, For, RequestRevert,
       MayRevert, Start, registry, history
  <2>3. For(g, q, {"write"}, "revert")' => Restored(g, q)'
    BY DEF IInv, Shape, Private, Reverting, Beside, Restored, Job, Busy, Free, Anywhere, On, For,
       RequestRevert, MayRevert, Start, registry, history
  <2> QED BY <2>1, <2>2, <2>3
<1> QED
  BY <1>1, <1>2, <1>3, <1>4, <1>5, <1>6, <1>7, <1>8 DEF IInv, Private

(* The registry hears of a revert.                                         *)
LEMMA UnmarkKeeps ==
  ASSUME IInv, NEW h \in Handler, Unmark(h)
  PROVE  IInv'
<1>1. Shape'
  BY DEF IInv, Shape, Tabled, PatchStatus, Unmark, Finish, registry, history
<1>2. ASSUME NEW g \in Handler PROVE Job(g)'
  BY DEF IInv, Shape, Job, Files, Describes, Busy, Free, Anywhere, On, For, Unmark, Finish, registry, history
<1>3. ASSUME NEW q \in PatchId PROVE Named(q)' /\ Remembers(q)'
  <2>1. Named(q)'
    BY DEF IInv, Shape, Named, Job, Busy, Free, Unmark
  <2>2. Remembers(q)'
    BY DEF IInv, Shape, Remembers, Describes, Unmark, Finish, registry, history
  <2> QED BY <2>1, <2>2
<1>4. ASSUME NEW q \in PatchId PROVE Covered(q)'
  BY DEF IInv, Shape, Covered, Job, Busy, Free, Anywhere, On, For, Unmark, Finish, registry, history
<1>5. ASSUME NEW q \in PatchId \ disturbed' PROVE Truthful(q)'
  BY DEF IInv, Shape, Private, Truthful, Job, Busy, Free, Anywhere, On, For, Unmark, Finish, registry, history
<1>6. ASSUME NEW q \in PatchId \ disturbed' PROVE Captured(q)'
  BY DEF IInv, Shape, Private, Captured, Job, Contents, Busy, Free, Anywhere, On, For, Unmark, Finish,
     registry, history
<1>7. ASSUME NEW q \in PatchId \ disturbed' PROVE Ready(q)'
  BY DEF IInv, Shape, Private, Ready, Captured, Job, Busy, Free, Anywhere, On, For, Unmark, Finish, registry,
     history
<1>8. ASSUME NEW q \in PatchId \ disturbed' PROVE Reverting(q)'
  <2> SUFFICES ASSUME NEW g \in Handler
               PROVE  /\ For(g, q, {"stage", "write"}, "revert")' => Beside(g, q)'
                      /\ For(g, q, {"stage"}, "revert")' => handler'[g].patch = Restoring(revertTo'[q])
                      /\ For(g, q, {"write"}, "revert")' => Restored(g, q)'
    BY DEF Reverting
  <2>1. For(g, q, {"stage", "write"}, "revert")' => Beside(g, q)'
    BY DEF IInv, Shape, Private, Reverting, Beside, Job, Busy, Free, Anywhere, On, For, Unmark, Finish,
       registry, history
  <2>2. For(g, q, {"stage"}, "revert")' => handler'[g].patch = Restoring(revertTo'[q])
    BY DEF IInv, Shape, Private, Reverting, Beside, Job, Busy, Free, Anywhere, On, For, Unmark, Finish,
       registry, history
  <2>3. For(g, q, {"write"}, "revert")' => Restored(g, q)'
    BY DEF IInv, Shape, Private, Reverting, Beside, Restored, Job, Busy, Free, Anywhere, On, For, Unmark,
       Finish, registry, history
  <2> QED BY <2>1, <2>2, <2>3
<1> QED
  BY <1>1, <1>2, <1>3, <1>4, <1>5, <1>6, <1>7, <1>8 DEF IInv, Private

(* A failed request is over; the files it leaves changed disturb its patch *)
(* and those under way on them, as a save does.                            *)
LEMMA EngineFailsKeeps ==
  ASSUME IInv, NEW h \in Handler, EngineFails(h)
  PROVE  IInv'
<1> DEFINE id == handler[h].id
<1>a. PICK changed :
        /\ changed \subseteq DOMAIN handler[h].after
        /\ DOMAIN disk' = Path /\ disk' = [t \in Path |-> disk'[t]]
        /\ \A t \in Path \ changed : disk'[t] = disk[t]
        /\ disturbed' = Disturbed(changed, Handler \ {h}) \cup {k \in {id} : changed # {}}
  <2>1. PICK left \in Leftovers(handler[h]) :
          LET changed == {p \in DOMAIN left : left[p] # disk[p]}
          IN /\ disk' = [p \in Path |-> IF p \in changed THEN left[p] ELSE disk[p]]
             /\ disturbed' = Disturbed(changed, Handler \ {h})
                              \cup {k \in {handler[h].id} : changed # {}}
    BY DEF EngineFails
  <2> DEFINE changed == {p \in DOMAIN left : left[p] # disk[p]}
  <2>2. changed \subseteq DOMAIN handler[h].after
    BY DEF Leftovers
  <2>3. disk' = [p \in Path |-> IF p \in changed THEN left[p] ELSE disk[p]]
    BY <2>1
  <2>4. disturbed' = Disturbed(changed, Handler \ {h}) \cup {k \in {id} : changed # {}}
    BY <2>1
  <2> HIDE DEF changed
  <2> QED
    BY <2>2, <2>3, <2>4
<1>b. /\ id \in PatchId /\ Job(h) /\ Busy(h) /\ handler[h].at = "write"
      /\ UNCHANGED <<registry, overwrote, onDisk, writer>>
  BY DEF IInv, Job, Busy, Free, EngineFails
<1>c. \A g \in Handler : handler'[g] = IF g = h THEN Free ELSE handler[g]
  BY DEF EngineFails, Finish, IInv, Shape
<1>d. ~Busy(h)' /\ \A k, places : "free" \notin places => ~On(h, k, places)'
  BY <1>c DEF Busy, Free, On
<1>e. ASSUME NEW q \in PatchId \ disturbed'
      PROVE  /\ q \notin disturbed /\ Private(q)
             /\ Files(q) \cap changed = {} \/ \A g \in Handler \ {h} : ~(Busy(g) /\ handler[g].id = q)
             /\ q = id => changed = {}
  <2>1. q \notin Disturbed(changed, Handler \ {h}) /\ (q = id => changed = {})
    BY <1>a
  <2> QED
    BY <2>1, UndisturbedTells DEF IInv
<1>1. Shape'
  <2>1. DOMAIN handler' = Handler
    BY DEF IInv, Shape, EngineFails, Finish
  <2>2. disturbed' \subseteq PatchId
    BY <1>a, <1>b DEF IInv, Shape, Disturbed
  <2> QED
    BY <1>a, <1>b, <2>1, <2>2 DEF IInv, Shape, Tabled, registry
<1>2. ASSUME NEW g \in Handler PROVE Job(g)'
  <2>1. CASE g = h
    BY <1>d, <2>1 DEF Job
  <2>2. CASE g # h
    BY <1>b, <1>c, <2>2 DEF IInv, Job, Files, Describes, Busy, Free, registry
  <2> QED BY <2>1, <2>2
<1>3. ASSUME NEW q \in PatchId PROVE Named(q)' /\ Remembers(q)'
  BY <1>b DEF IInv, Named, Remembers, Describes, registry
<1> HIDE DEF id
<1>4. ASSUME NEW q \in PatchId PROVE Covered(q)'
  <2>1. \A who : \A g \in Handler : For(g, q, {"mark"}, who)' <=> For(g, q, {"mark"}, who)
    BY <1>b, <1>c DEF For, On, Free
  <2> QED
    BY <1>b, <2>1 DEF IInv, Covered, registry
<1>5. ASSUME NEW q \in PatchId \ disturbed' PROVE Truthful(q)'
  <2>1. \A g \in Handler : On(g, q, {"mark"})' <=> On(g, q, {"mark"})
    BY <1>b, <1>c DEF On, Free
  <2>2. \A g \in Handler : On(g, q, {"mark"}) => handler'[g] = handler[g]
    BY <1>b, <1>c DEF On
  <2> QED
    BY <1>b, <1>e, <2>1, <2>2 DEF Private, Truthful, registry
<1>6. ASSUME NEW q \in PatchId \ disturbed' PROVE Captured(q)'
  <2>1. ASSUME NEW g \in Handler \ {h}, For(g, q, {"stage", "write"}, "user")
        PROVE  Contents(q, disk') = Contents(q, disk)
    <3>1. Busy(g) /\ handler[g].id = q /\ status[q] # "none" /\ Named(q)
      BY <2>1 DEF IInv, Job, For, On, Busy, Free
    <3>2. Files(q) \cap changed = {}
      BY <1>e, <3>1
    <3>3. \A t \in Files(q) : disk'[t] = disk[t]
      BY <1>a, <3>1, <3>2, FilesKnown
    <3> QED
      BY <3>1, <3>3, ContentsAgree
  <2>2. Contents(q, disk)' = Contents(q, disk')
    BY <1>b DEF Contents, registry
  <2>3. ASSUME NEW g \in Handler
        PROVE  /\ For(g, q, {"stage", "write"}, "user")' => handler'[g].before = Contents(q, disk)'
               /\ For(g, q, {"mark"}, "user")' => handler'[g].before = overwrote'[q]
    <3>1. CASE g = h
      BY <1>c, <3>1 DEF For, On, Free
    <3>2. CASE g # h
      <4>1. handler'[g] = handler[g]
        BY <1>c, <3>2
      <4>2. For(g, q, {"stage", "write"}, "user") => handler[g].before = Contents(q, disk')
        BY <1>e, <2>1, <3>2 DEF Private, Captured
      <4>3. For(g, q, {"mark"}, "user") => handler[g].before = overwrote[q]
        BY <1>e DEF Private, Captured
      <4> QED
        BY <1>b, <2>2, <4>1, <4>2, <4>3 DEF For, On
    <3> QED BY <3>1, <3>2
  <2> QED
    BY <2>3 DEF Captured
<1>7. ASSUME NEW q \in PatchId \ disturbed' PROVE Ready(q)'
  <2>1. \A g \in Handler : For(g, q, {"mark"}, "user")' <=> For(g, q, {"mark"}, "user")
    BY <1>b, <1>c DEF For, On, Free
  <2> QED
    BY <1>b, <1>e, <2>1 DEF Private, Ready, registry
<1>8. ASSUME NEW q \in PatchId \ disturbed' PROVE Reverting(q)'
  <2>1. \A who : \A g \in Handler, places \in SUBSET Anywhere :
          For(g, q, places, who)' => For(g, q, places, who) /\ handler'[g] = handler[g]
    BY <1>c DEF For, On, Free, Anywhere
  <2>2. \A g \in Handler : On(g, q, Anywhere)' => g # h /\ On(g, q, Anywhere) /\ handler'[g] = handler[g]
    BY <1>c DEF On, Free, Anywhere
  <2>3. ASSUME NEW g \in Handler, For(g, q, {"stage", "write"}, "revert")' PROVE Beside(g, q)'
    <3>1. For(g, q, {"stage", "write"}, "revert")
      BY <2>1, <2>3 DEF Anywhere
    <3>2. Beside(g, q)
      BY <1>e, <3>1 DEF Private, Reverting
    <3>3. \A k \in Handler : k # g /\ On(k, q, Anywhere)' => For(k, q, {"stage", "write"}, "agent")'
      BY <2>2, <3>2 DEF Beside, For, On
    <3> QED
      BY <1>b, <3>2, <3>3 DEF Beside, registry
  <2>4. ASSUME NEW g \in Handler, For(g, q, {"stage"}, "revert")'
        PROVE  handler'[g].patch = Restoring(revertTo'[q])
    <3>1. For(g, q, {"stage"}, "revert") /\ handler'[g] = handler[g]
      BY <2>1, <2>4 DEF Anywhere
    <3> QED
      BY <1>b, <1>e, <3>1 DEF Private, Reverting, registry
  <2>5. ASSUME NEW g \in Handler, For(g, q, {"write"}, "revert")' PROVE Restored(g, q)'
    <3>1. For(g, q, {"write"}, "revert") /\ handler'[g] = handler[g]
      BY <2>1, <2>5 DEF Anywhere
    <3> QED
      BY <1>b, <1>e, <3>1 DEF Private, Reverting, Restored, registry
  <2> QED
    BY <2>3, <2>4, <2>5 DEF Reverting
<1> QED
  BY <1>1, <1>2, <1>3, <1>4, <1>5, <1>6, <1>7, <1>8 DEF IInv, Private

(* Only a patch that is not applied is discarded.                          *)
LEMMA DiscardKeeps ==
  ASSUME IInv, NEW id \in PatchId, Discard(id)
  PROVE  IInv'
<1>1. Shape'
  BY DEF IInv, Shape, Tabled, PatchStatus, Discard, MarkDiscarded, registry, history
<1>2. ASSUME NEW g \in Handler PROVE Job(g)'
  BY DEF IInv, Shape, Job, Files, Describes, Busy, Free, Anywhere, On, For, Discard, MarkDiscarded, registry,
     history
<1>3. ASSUME NEW q \in PatchId PROVE Named(q)' /\ Remembers(q)'
  <2>1. Named(q)'
    BY DEF IInv, Shape, Named, Discard
  <2>2. Remembers(q)'
    BY DEF IInv, Shape, Remembers, Describes, Discard, MarkDiscarded, registry, history
  <2> QED BY <2>1, <2>2
<1>4. ASSUME NEW q \in PatchId PROVE Covered(q)'
  BY DEF IInv, Shape, Covered, Job, Busy, Free, Anywhere, On, For, Discard, MarkDiscarded, registry, history
<1>5. ASSUME NEW q \in PatchId \ disturbed' PROVE Truthful(q)'
  BY DEF IInv, Shape, Private, Truthful, Job, Busy, Free, Anywhere, On, For, Discard, MarkDiscarded, registry,
     history
<1>6. ASSUME NEW q \in PatchId \ disturbed' PROVE Captured(q)'
  BY DEF IInv, Shape, Private, Captured, Job, Contents, Busy, Free, Anywhere, On, For, Discard, MarkDiscarded,
     registry, history
<1>7. ASSUME NEW q \in PatchId \ disturbed' PROVE Ready(q)'
  BY DEF IInv, Shape, Private, Ready, Captured, Job, Busy, Free, Anywhere, On, For, Discard, MarkDiscarded,
     registry, history
<1>8. ASSUME NEW q \in PatchId \ disturbed' PROVE Reverting(q)'
  <2> SUFFICES ASSUME NEW g \in Handler
               PROVE  /\ For(g, q, {"stage", "write"}, "revert")' => Beside(g, q)'
                      /\ For(g, q, {"stage"}, "revert")' => handler'[g].patch = Restoring(revertTo'[q])
                      /\ For(g, q, {"write"}, "revert")' => Restored(g, q)'
    BY DEF Reverting
  <2>1. For(g, q, {"stage", "write"}, "revert")' => Beside(g, q)'
    BY DEF IInv, Shape, Private, Reverting, Beside, Job, Busy, Free, Anywhere, On, For, Discard,
       MarkDiscarded, registry, history
  <2>2. For(g, q, {"stage"}, "revert")' => handler'[g].patch = Restoring(revertTo'[q])
    BY DEF IInv, Shape, Private, Reverting, Beside, Job, Busy, Free, Anywhere, On, For, Discard,
       MarkDiscarded, registry, history
  <2>3. For(g, q, {"write"}, "revert")' => Restored(g, q)'
    BY DEF IInv, Shape, Private, Reverting, Beside, Restored, Job, Busy, Free, Anywhere, On, For, Discard,
       MarkDiscarded, registry, history
  <2> QED BY <2>1, <2>2, <2>3
<1> QED
  BY <1>1, <1>2, <1>3, <1>4, <1>5, <1>6, <1>7, <1>8 DEF IInv, Private

(* A save disturbs the patches under way on its file.                      *)
LEMMA SaveKeeps ==
  ASSUME IInv, NEW p \in Path, NEW text \in Edited \cup {Absent}, Save(p, text)
  PROVE  IInv'
<1>0. ASSUME NEW q \in PatchId \ disturbed'
      PROVE  q \notin disturbed /\ (p \in Files(q) => \A g \in Handler : ~(Busy(g) /\ handler[g].id = q))
  BY UndisturbedTells DEF Save
<1>a. handler' = handler /\ status' = status /\ revertTo' = revertTo
  BY DEF Save, registry
<1>1. Shape'
  BY DEF IInv, Shape, Tabled, Save, Disturbed, registry
<1>2. ASSUME NEW g \in Handler PROVE Job(g)'
  BY DEF IInv, Shape, Job, Files, Describes, Busy, Free, Anywhere, On, For, Save, registry, history
<1>3. ASSUME NEW q \in PatchId PROVE Named(q)' /\ Remembers(q)'
  <2>1. Named(q)'
    BY DEF IInv, Shape, Named, Save, registry, history
  <2>2. Remembers(q)'
    BY DEF IInv, Shape, Remembers, Describes, Save, registry, history
  <2> QED BY <2>1, <2>2
<1>4. ASSUME NEW q \in PatchId PROVE Covered(q)'
  BY DEF IInv, Shape, Covered, Job, Busy, Free, Anywhere, On, For, Save, registry, history
<1>5. ASSUME NEW q \in PatchId \ disturbed' PROVE Truthful(q)'
  BY <1>0 DEF IInv, Private, Truthful, On, For, Save, registry
<1>6. ASSUME NEW q \in PatchId \ disturbed' PROVE Captured(q)'
  <2>1. ASSUME NEW g \in Handler, For(g, q, {"stage", "write"}, "user")
        PROVE  Contents(q, disk') = Contents(q, disk)
    <3>1. Busy(g) /\ handler[g].id = q /\ status[q] # "none" /\ Named(q)
      BY <2>1 DEF IInv, Job, For, On, Busy, Free
    <3>2. p \notin Files(q)
      BY <1>0, <3>1
    <3>3. \A t \in Files(q) : disk'[t] = disk[t]
      BY <3>1, <3>2, FilesKnown DEF Save, IInv, Shape
    <3> QED
      BY <3>1, <3>3, ContentsAgree
  <2>2. Contents(q, disk)' = Contents(q, disk')
    BY DEF Contents, Save, registry
  <2>3. ASSUME NEW g \in Handler
        PROVE  /\ For(g, q, {"stage", "write"}, "user")' => handler'[g].before = Contents(q, disk)'
               /\ For(g, q, {"mark"}, "user")' => handler'[g].before = overwrote'[q]
    <3>1. For(g, q, {"stage", "write"}, "user")' => handler'[g].before = Contents(q, disk)'
      BY <1>0, <2>1, <2>2 DEF IInv, Private, Captured, On, For, Save
    <3>2. For(g, q, {"mark"}, "user")' => handler'[g].before = overwrote'[q]
      BY <1>0 DEF IInv, Private, Captured, On, For, Save
    <3> QED BY <3>1, <3>2
  <2> QED
    BY <2>3 DEF Captured
<1>7. ASSUME NEW q \in PatchId \ disturbed' PROVE Ready(q)'
  BY <1>0 DEF IInv, Private, Ready, On, For, Save, registry
<1>8. ASSUME NEW q \in PatchId \ disturbed' PROVE Reverting(q)'
  <2> SUFFICES ASSUME NEW g \in Handler
               PROVE  /\ For(g, q, {"stage", "write"}, "revert")' => Beside(g, q)'
                      /\ For(g, q, {"stage"}, "revert")' => handler'[g].patch = Restoring(revertTo'[q])
                      /\ For(g, q, {"write"}, "revert")' => Restored(g, q)'
    BY DEF Reverting
  <2>1. For(g, q, {"stage", "write"}, "revert")' => Beside(g, q)'
    BY <1>0, <1>a DEF IInv, Private, Reverting, Beside, Anywhere, On, For
  <2>2. For(g, q, {"stage"}, "revert")' => handler'[g].patch = Restoring(revertTo'[q])
    <3>1. Reverting(q)
      BY <1>0 DEF IInv, Private
    <3>2. For(g, q, {"stage"}, "revert")' => For(g, q, {"stage"}, "revert")
      BY <1>a DEF For, On
    <3> QED
      BY <1>a, <3>1, <3>2 DEF Reverting
  <2>3. For(g, q, {"write"}, "revert")' => Restored(g, q)'
    BY <1>0, <1>a DEF IInv, Private, Reverting, Restored, Anywhere, On, For
  <2> QED BY <2>1, <2>2, <2>3
<1> QED
  BY <1>1, <1>2, <1>3, <1>4, <1>5, <1>6, <1>7, <1>8 DEF IInv, Private

-----------------------------------------------------------------------------
(* Nothing is proposed at first.                                           *)
LEMMA Initially == Init => IInv
<1> SUFFICES ASSUME Init PROVE IInv
  OBVIOUS
<1>1. Shape
  BY DEF Init, Shape, Tabled, PatchStatus
<1>2. ASSUME NEW h \in Handler PROVE ~Busy(h)
  BY DEF Init, Busy, Free
<1>3. ASSUME NEW h \in Handler, NEW id, NEW who
      PROVE  ~On(h, id, Anywhere) /\ ~On(h, id, {"mark"}) /\ ~On(h, id, {"stage", "write"})
             /\ ~On(h, id, {"stage"}) /\ ~On(h, id, {"write"})
  BY DEF Init, Free, On, Anywhere
<1>4. ASSUME NEW id \in PatchId PROVE Named(id) /\ Remembers(id) /\ Covered(id)
  BY <1>3 DEF Init, Named, Remembers, Covered, For
<1>5. ASSUME NEW id \in PatchId PROVE Private(id)
  <2>1. Truthful(id)
    BY <1>3 DEF Init, Truthful
  <2>2. Captured(id) /\ Ready(id) /\ Reverting(id)
    BY <1>3 DEF Init, Captured, Ready, Reverting, For
  <2> QED
    BY <2>1, <2>2 DEF Private
<1> QED
  BY <1>1, <1>2, <1>4, <1>5 DEF IInv, Job

(* A stutter changes nothing.                                              *)
LEMMA StutteringKeeps ==
  ASSUME IInv, UNCHANGED vars
  PROVE  IInv'
<1>1. Shape'
  BY DEF IInv, Shape, Tabled, vars
<1>2. ASSUME NEW h \in Handler PROVE Job(h)'
  BY DEF IInv, vars, Job, Describes, Files, Busy
<1>3. ASSUME NEW id \in PatchId PROVE Named(id)' /\ Remembers(id)' /\ Covered(id)'
  BY DEF IInv, vars, Named, Remembers, Covered, Describes, For, On
<1>4. ASSUME NEW id \in PatchId \ disturbed' PROVE Private(id)'
  BY DEF IInv, vars, Private, Truthful, Captured, Ready, Reverting, Beside, Restored, Contents, For, On
<1> QED
  BY <1>1, <1>2, <1>3, <1>4 DEF IInv

(* Every step keeps the invariant.                                         *)
LEMMA StepKeeps == IInv /\ [Next]_vars => IInv'
BY ProposeKeeps, RequestApplyKeeps, CaptureKeeps, AgentApplyKeeps, StageKeeps, WriteKeeps, MarkKeeps,
   RequestRevertKeeps, UnmarkKeeps, EngineFailsKeeps, DiscardKeeps, SaveKeeps, StutteringKeeps DEF Next,
   HandlerStep

(* The invariant holds throughout.                                         *)
LEMMA Invariance == Spec => []IInv
BY Initially, StepKeeps, PTL DEF Spec

(* Of the changes shown as applied that the user applied last, each can be *)
(* reverted once its requests are over, whatever overlapped.               *)
THEOREM AppliedCanBeReverted == Spec => []UserAppliedIsRevertible
<1>1. IInv => UserAppliedIsRevertible
  BY DEF IInv, Covered, For, On, Settled, Busy, Free, UserAppliedIsRevertible
<1> QED
  BY Invariance, <1>1, PTL

(* The registry calls a patch applied exactly when the patch was written   *)
(* and not restored since, when its requests are over, nobody else wrote   *)
(* its files during one, and none met a file it could not read, write or   *)
(* put back.                                                               *)
THEOREM RegistryIsTrue == Spec => []RegistryMatchesDisk
<1>1. IInv => RegistryMatchesDisk
  BY DEF IInv, Private, Truthful, On, Settled, Busy, Free, RegistryMatchesDisk
<1> QED
  BY Invariance, <1>1, PTL

(* However requests overlap, a change leaves the applied state only by     *)
(* being reverted, and nothing is reverted that was not applied.           *)
THEOREM MovesAreLegal == Spec => LegalMoves
<1>1. ASSUME IInv, [Next]_vars, NEW id \in PatchId, status'[id] # status[id]
      PROVE  <<status[id], status'[id]>> \in Moves
  <2>1. \/ status' = status
        \/ \E k \in PatchId, p \in Proposal : Propose(k, p)
        \/ \E h \in Handler : Mark(h) \/ Unmark(h)
        \/ \E k \in PatchId : Discard(k)
    BY <1>1 DEF Next, HandlerStep, vars, registry, history, RequestApply, AgentApply, RequestRevert, Capture,
       Stage, Write, EngineFails, Save
  <2>2. CASE status' = status
    BY <1>1, <2>2
  <2>3. CASE \E k \in PatchId, p \in Proposal : Propose(k, p)
    BY <1>1, <2>3 DEF Propose, Moves, IInv, Shape
  <2>4. ASSUME NEW h \in Handler, Mark(h) PROVE <<status[id], status'[id]>> \in Moves
    <3>1. status[id] \in {"proposed", "reverted", "discarded"} /\ status'[id] = "applied"
      BY <1>1, <2>4 DEF Mark, Marking, IInv, Shape, PatchStatus, Job, Busy, Free
    <3> QED
      BY <3>1 DEF Moves
  <2>5. ASSUME NEW h \in Handler, Unmark(h) PROVE <<status[id], status'[id]>> \in Moves
    <3>1. status[id] = "applied" /\ status'[id] = "reverted"
      BY <1>1, <2>5 DEF Unmark, IInv, Shape, PatchStatus, Job, Busy, Free
    <3> QED
      BY <3>1 DEF Moves
  <2>6. CASE \E k \in PatchId : Discard(k)
    BY <1>1, <2>6 DEF Discard, MarkDiscarded, Moves, IInv, Shape
  <2> QED
    BY <2>1, <2>2, <2>3, <2>4, <2>5, <2>6
<1>2. IInv /\ [Next]_vars =>
        [\A id \in PatchId : status'[id] # status[id] => <<status[id], status'[id]>> \in Moves]_vars
  BY <1>1
<1> QED
  BY Invariance, <1>2, PTL DEF Spec, LegalMoves

(* A revert gives back, file by file, what the last application by the     *)
(* user replaced, when nobody else wrote the files of the patch during its *)
(* requests and these could read them.                                     *)
THEOREM RevertsAreExact == Spec => RevertIsExact
<1>1. ASSUME IInv, [Next]_vars, NEW h \in Handler, NEW id \in PatchId \ disturbed',
             Restores(id, h), writer[id] = "user"
      PROVE  GivesBack(overwrote[id])
  <2>1. handler[h].at = "write" /\ handler[h].by = "revert" /\ handler[h].id = id
        /\ handler'[h].at = "mark"
    BY <1>1 DEF Restores
  <2>2. Write(h)
    <3>1. Busy(h) /\ handler[h] # handler'[h] /\ DOMAIN handler = Handler
      BY <1>1, <2>1 DEF Busy, Free, IInv, Shape
    <3>2. handler' # handler
      BY <3>1
    <3>3. ASSUME NEW k \in Handler, NEW q \in PatchId
          PROVE  ~RequestApply(k, q) /\ ~AgentApply(k, q) /\ ~RequestRevert(k, q)
      BY <3>1 DEF RequestApply, AgentApply, RequestRevert, Start
    <3>4. ASSUME NEW k \in Handler, HandlerStep(k) PROVE k = h
      BY <3>1, <3>4 DEF HandlerStep, Capture, Stage, Write, Mark, Unmark, EngineFails, Finish
    <3>5. ~EngineFails(h)
      BY <2>1, <3>1 DEF EngineFails, Finish, Free
    <3>6. ~Capture(h) /\ ~Stage(h) /\ ~Mark(h) /\ ~Unmark(h)
      BY <2>1 DEF Capture, Stage, Mark, Marking, Unmark
    <3>7. \E k \in Handler : HandlerStep(k)
      BY <1>1, <3>2, <3>3 DEF Next, vars, Propose, Discard, Save
    <3> QED
      BY <3>4, <3>5, <3>6, <3>7 DEF HandlerStep
  <2>3. id \notin disturbed
    BY <2>2, UndisturbedTells DEF Write
  <2>4. Beside(h, id) /\ Restored(h, id)
    BY <1>1, <2>1, <2>3 DEF IInv, Private, Reverting, For, On
  <2>5. \A g \in Handler : ~For(g, id, {"mark"}, "user")
    BY <2>1, <2>4 DEF Beside, For, On, Anywhere
  <2>6. revertTo[id] = overwrote[id]
    BY <1>1, <2>3, <2>4, <2>5 DEF IInv, Private, Ready, Beside
  <2>7. Describes(id, revertTo[id]) /\ Named(id) /\ status[id] # "none" /\ DOMAIN handler[h].after = Files(id)
    BY <1>1, <2>1, <2>4 DEF IInv, Remembers, Job, Beside, Busy, Free
  <2>8. \A i \in DOMAIN revertTo[id] : revertTo[id][i].path \in Files(id) /\ revertTo[id][i].path \in Path
    BY <2>7, FilesKnown DEF Describes
  <2>9. \A p \in Files(id) \cap Path : disk'[p] = handler[h].after[p]
    BY <2>2, <2>7 DEF Write
  <2> QED
    BY <2>4, <2>6, <2>8, <2>9 DEF Restored, GivesBack
<1>2. IInv /\ [Next]_vars =>
        [\A h \in Handler, id \in PatchId \ disturbed' :
           Restores(id, h) /\ writer[id] = "user" => GivesBack(overwrote[id])]_vars
  BY <1>1
<1> QED
  BY Invariance, <1>2, PTL DEF Spec, RevertIsExact
=============================================================================
