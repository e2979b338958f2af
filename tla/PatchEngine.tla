----------------------------- MODULE PatchEngine -----------------------------
(***************************************************************************)
(* PatchEngine of packages/fs-engine/src/patch.ts, with every await a step *)
(* of its own: preview/proposedContents stage the files of a patch one     *)
(* read at a time; apply goes on to write them one at a time and, when a   *)
(* write fails, restores the completed ones in reverse order.              *)
(*                                                                         *)
(* Several calls may be in flight and the user's editor saves files in     *)
(* between: the engine takes no lock, so they may meet on a file.  Some    *)
(* environments leave the files of a call in flight alone; the engine      *)
(* implements AtomicPatch in those.  Damage lists what a failing file      *)
(* operation may do: "clean" fails without effect, "torn" is a writeFile   *)
(* that fails after truncating its file, "restore" is a failure while      *)
(* rolling back, which the engine only logs, and "read" is a failing read  *)
(* of a file that exists, which stage() takes for one that does not.       *)
(***************************************************************************)
EXTENDS PatchEffect

CONSTANTS
  Call,       \* calls of the engine that may be in flight together
  Patch,      \* the patches callers submit
  Edited,     \* the texts the user's editor saves
  Content,    \* what files may hold: closed under the patches submitted
  Damage,     \* the kinds of failures of the file system
  MaxFaults,  \* bound: failures in a behaviour
  MaxSaves    \* bound: saves of the editor in a behaviour

FilePatches == UNION {{p[i] : i \in DOMAIN p} : p \in Patch}

ASSUME ContentAssumption ==
  /\ Content \subseteq FileState
  /\ Edited \cup {Absent, <<>>} \subseteq Content
  /\ \A file \in FilePatches, before \in Content :
       FileEffect(file, before) \in Content \cup {Refused}

ASSUME EngineAssumption ==
  /\ Damage \subseteq {"clean", "torn", "restore", "read"}
  /\ MaxFaults \in Nat /\ MaxSaves \in Nat
  /\ Patch \subseteq Seq(FilePatches)
  /\ \A file \in FilePatches : file.path \in Spelling

VARIABLES
  alone,    \* nobody else touches the files of a call in flight
  disk,     \* what every file holds
  pc,       \* where each call is
  mode,     \* "apply" or "preview"
  patch,    \* the patch it was given
  staged,   \* StagedChange records: the path, its content before and after;
            \*   history: what was there when it was read
  written,  \* how many staged changes are on disk
  strayed,  \* history: staged files a failure or somebody else has left
            \*   with another text than it held when the call read or wrote it
  unread,   \* history: the files whose read failed
  faults,   \* failures so far
  saves     \* saves so far

vars == <<alone, disk, pc, mode, patch, staged, written, strayed, unread, faults, saves>>

Working == {"staging", "writing", "rollback"}
Ended == {"applied", "previewed", "refused", "failed"}

Touches(c) == IF pc[c] \in Working THEN Targets(patch[c]) ELSE {}
InFlight == UNION {Touches(c) : c \in Call}

(* A file is written by others than these calls.                           *)
Stray(p, calls) ==
  [c \in Call |->
     IF c \in calls /\ pc[c] \in Working /\ \E i \in DOMAIN staged[c] : staged[c][i].path = p
     THEN strayed[c] \cup {p} ELSE strayed[c]]

Init ==
  /\ alone \in BOOLEAN
  /\ disk \in [Path -> Edited \cup {Absent}]
  /\ pc = [c \in Call |-> "idle"]
  /\ mode = [c \in Call |-> "apply"]
  /\ patch = [c \in Call |-> <<>>]
  /\ staged = [c \in Call |-> <<>>]
  /\ written = [c \in Call |-> 0]
  /\ strayed = [c \in Call |-> {}]
  /\ unread = [c \in Call |-> {}]
  /\ faults = 0
  /\ saves = 0

(* apply, preview or proposedContents is called; the size checks of        *)
(* stage() run before its first await.                                     *)
Begin(c, p, m) ==
  /\ pc[c] = "idle"
  /\ alone => Targets(p) \cap InFlight = {}
  /\ patch' = [patch EXCEPT ![c] = p]
  /\ mode' = [mode EXCEPT ![c] = m]
  /\ pc' = [pc EXCEPT ![c] = IF Sized(p) THEN "staging" ELSE "refused"]
  /\ UNCHANGED <<alone, disk, staged, written, strayed, unread, faults, saves>>

(* The file whose turn it is.                                              *)
Turn(c) == Len(staged[c]) + 1

(* readIfExists: any error of the read, not only that there is no file,    *)
(* comes back as "absent".                                                 *)
ReadGives(c, seen) ==
  LET path == Target(patch[c], Turn(c))
  IN \/ /\ seen = disk[path]
        /\ UNCHANGED <<unread, faults>>
     \/ /\ "read" \in Damage /\ faults < MaxFaults
        /\ seen = Absent /\ disk[path] # Absent
        /\ unread' = [unread EXCEPT ![c] = @ \cup {path}]
        /\ faults' = faults + 1

StagedChange(p, i, seen) ==
  LET path == Target(p, i)
  IN [path |-> path, there |-> disk[path], before |-> seen, after |-> FileEffect(p[i], seen)]

(* Seeded bug: only the path of a file is checked.                         *)
StageableAnywhere(c, seen) == Addressable(patch[c], Turn(c))

Stageable(c, seen) ==
  /\ Addressable(patch[c], Turn(c))
  /\ FileEffect(patch[c][Turn(c)], seen) # Refused

AfterStaging(c) ==
  IF Turn(c) < Len(patch[c]) THEN "staging"
  ELSE IF mode[c] = "apply" THEN "writing" ELSE "previewed"

StageFile(c, seen) ==
  /\ pc[c] = "staging"
  /\ Stageable(c, seen)
  /\ ReadGives(c, seen)
  /\ staged' = [staged EXCEPT ![c] = Append(@, StagedChange(patch[c], Turn(c), seen))]
  /\ pc' = [pc EXCEPT ![c] = AfterStaging(c)]
  /\ UNCHANGED <<alone, disk, mode, patch, written, strayed, saves>>

(* The path is looked at before the file is read.                          *)
RefuseFile(c, seen) ==
  /\ pc[c] = "staging"
  /\ ~Stageable(c, seen)
  /\ IF Addressable(patch[c], Turn(c)) THEN ReadGives(c, seen) ELSE UNCHANGED <<unread, faults>>
  /\ pc' = [pc EXCEPT ![c] = "refused"]
  /\ UNCHANGED <<alone, disk, mode, patch, staged, written, strayed, saves>>

-----------------------------------------------------------------------------
NextWrite(c) == staged[c][written[c] + 1]

AfterWrite(c) == IF written[c] + 1 < Len(staged[c]) THEN "writing" ELSE "applied"

WriteFile(c) ==
  /\ pc[c] = "writing"
  /\ disk' = [disk EXCEPT ![NextWrite(c).path] = NextWrite(c).after]
  /\ strayed' = [Stray(NextWrite(c).path, Call \ {c}) EXCEPT ![c] = @ \ {NextWrite(c).path}]
  /\ written' = [written EXCEPT ![c] = @ + 1]
  /\ pc' = [pc EXCEPT ![c] = AfterWrite(c)]
  /\ UNCHANGED <<alone, mode, patch, staged, unread, faults, saves>>

(* Seeded bug: the completed writes are left in place.                     *)
AfterFailureGiveUp(c) == "failed"

(* Only the completed writes are rolled back: with none, the call ends.    *)
AfterFailure(c) == IF written[c] = 0 THEN "failed" ELSE "rollback"

WriteFails(c, damage) ==
  /\ pc[c] = "writing"
  /\ damage \in Damage \cap {"clean", "torn"}
  /\ damage = "torn" => NextWrite(c).after # Absent
  /\ faults < MaxFaults
  /\ IF damage = "torn"
     THEN /\ disk' = [disk EXCEPT ![NextWrite(c).path] = <<>>]
          /\ strayed' = Stray(NextWrite(c).path, Call)
     ELSE UNCHANGED <<disk, strayed>>
  /\ pc' = [pc EXCEPT ![c] = AfterFailure(c)]
  /\ faults' = faults + 1
  /\ UNCHANGED <<alone, mode, patch, staged, written, unread, saves>>

-----------------------------------------------------------------------------
(* rollback(): the last completed write first.                             *)
LastWrite(c) == staged[c][written[c]]

AfterRestore(c) == IF written[c] = 1 THEN "failed" ELSE "rollback"

(* A file that could not be read is removed: it strays from what it held.  *)
RestoreFile(c) ==
  /\ pc[c] = "rollback"
  /\ disk' = [disk EXCEPT ![LastWrite(c).path] = LastWrite(c).before]
  /\ strayed' = [Stray(LastWrite(c).path, Call \ {c}) EXCEPT ![c] =
                   IF LastWrite(c).path \in unread[c] THEN @ \cup {LastWrite(c).path}
                   ELSE @ \ {LastWrite(c).path}]
  /\ written' = [written EXCEPT ![c] = @ - 1]
  /\ pc' = [pc EXCEPT ![c] = AfterRestore(c)]
  /\ UNCHANGED <<alone, mode, patch, staged, unread, faults, saves>>

(* A failing restore is logged and the next file is tried.                 *)
RestoreFails(c) ==
  /\ pc[c] = "rollback"
  /\ "restore" \in Damage
  /\ faults < MaxFaults
  /\ written' = [written EXCEPT ![c] = @ - 1]
  /\ pc' = [pc EXCEPT ![c] = AfterRestore(c)]
  /\ strayed' = [strayed EXCEPT ![c] = @ \cup {LastWrite(c).path}]
  /\ faults' = faults + 1
  /\ UNCHANGED <<alone, disk, mode, patch, staged, unread, saves>>

-----------------------------------------------------------------------------
(* The user saves or deletes a file.                                       *)
Save(p, text) ==
  /\ saves < MaxSaves
  /\ alone => p \notin InFlight
  /\ disk' = [disk EXCEPT ![p] = text]
  /\ strayed' = Stray(p, Call)
  /\ saves' = saves + 1
  /\ UNCHANGED <<alone, pc, mode, patch, staged, written, unread, faults>>

CallStep(c) ==
  \/ \E seen \in Content : StageFile(c, seen) \/ RefuseFile(c, seen)
  \/ WriteFile(c)
  \/ \E damage \in Damage : WriteFails(c, damage)
  \/ RestoreFile(c)
  \/ RestoreFails(c)

Next ==
  \/ \E c \in Call, p \in Patch, m \in {"apply", "preview"} : Begin(c, p, m)
  \/ \E c \in Call : CallStep(c)
  \/ \E p \in Path, text \in Edited \cup {Absent} : Save(p, text)

Spec == Init /\ [][Next]_vars

-----------------------------------------------------------------------------
Change == [path : Path, there : Content, before : Content, after : Content]

TypeOK ==
  /\ alone \in BOOLEAN
  /\ disk \in [Path -> Content]
  /\ pc \in [Call -> {"idle"} \cup Working \cup Ended]
  /\ mode \in [Call -> {"apply", "preview"}]
  /\ patch \in [Call -> Patch \cup {<<>>}]
  /\ staged \in [Call -> Seq(Change)]
  /\ written \in [Call -> Nat]
  /\ \A c \in Call : written[c] \in 0..Len(staged[c])
  /\ strayed \in [Call -> SUBSET Path]
  /\ unread \in [Call -> SUBSET Path]
  /\ faults \in 0..MaxFaults
  /\ saves \in 0..MaxSaves

(* While a call is in flight the disk is exactly what its bookkeeping      *)
(* says, whoever else is at work: the staged changes counted in `written`  *)
(* are there, and every other staged file still holds what it held when it *)
(* was staged, which is what rolling back would put there.  It is not so   *)
(* for the files that strayed, a save that was written over among them,    *)
(* and rolling back does not know what a file held that it could not read. *)
WriteFrontier ==
  \A c \in Call : pc[c] \in Working =>
    \A i \in DOMAIN staged[c] :
      /\ \/ staged[c][i].path \in strayed[c]
         \/ disk[staged[c][i].path] =
              IF i <= written[c] THEN staged[c][i].after ELSE staged[c][i].there
      /\ staged[c][i].path \notin unread[c] => staged[c][i].before = staged[c][i].there

-----------------------------------------------------------------------------
(* The engine implements AtomicPatch: hide what a call has done to the     *)
(* files it touches until it reports how it ended.                         *)
Hidden(c, i) ==
  /\ pc[c] \in {"writing", "rollback"}
  /\ i \in DOMAIN staged[c]
  /\ i <= written[c] \/ staged[c][i].path \in strayed[c]

Hides(c, p) == \E i \in DOMAIN staged[c] : Hidden(c, i) /\ staged[c][i].path = p

Visible(p) ==
  IF \E c \in Call : Hides(c, p)
  THEN LET c == CHOOSE k \in Call : Hides(k, p)
           i == CHOOSE k \in DOMAIN staged[c] : Hidden(c, k) /\ staged[c][k].path = p
       IN staged[c][i].there
  ELSE disk[p]

Atomic == INSTANCE AtomicPatch WITH
  tree <- [p \in Path |-> Visible(p)],
  outcome <- [c \in Call |-> IF pc[c] \in Working THEN "running" ELSE pc[c]],
  asked <- patch,
  unread <- [c \in Call |-> IF pc[c] \in Working THEN {} ELSE unread[c]],
  lost <- [c \in Call |-> IF pc[c] \in Working THEN {} ELSE strayed[c]]

(* When nobody else touches its files, a call is seen from outside to      *)
(* happen at one instant or not at all, but for the files lost to the file *)
(* system by a call that reports failure: only a reader between two writes *)
(* sees a mixture, and previews and hash checks are answered from one      *)
(* state of the tree.  A file that cannot be read counts as absent in that *)
(* state: a creation goes over it, and rolling back removes it.            *)
ImplementsAtomicPatch ==
  Atomic!Init /\ [][alone => Atomic!Next \/ UNCHANGED Atomic!vars]_vars
=============================================================================
