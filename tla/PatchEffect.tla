---------------------------- MODULE PatchEffect ----------------------------
(***************************************************************************)
(* What a patch does to a tree of files: the pure part of                  *)
(* packages/fs-engine/src/patch.ts.                                        *)
(*                                                                         *)
(* A file holds a text (the sequence of its lines) or is Absent.  A content*)
(* hash is modelled by the text itself, SHA-256 being taken as free of     *)
(* collisions.  An anchor is a single line.  The ways of spelling a path   *)
(* are kept apart from the files they resolve to, since a patch may name   *)
(* one file twice under two spellings.                                     *)
(***************************************************************************)
EXTENDS UnifiedDiff

CONSTANTS
  Absent,      \* the file does not exist
  Refused,     \* the operation was refused with an error
  NoHash,      \* no expectedHash was supplied
  Path,        \* canonical project-relative paths
  Spelling,    \* the strings patches name files by
  Resolves,    \* Spelling -> Path, or Refused for one that leaves the project
  SecretPath,  \* credential files
  MaxFiles     \* Limits.maxPatchFiles

ASSUME PatchAssumption ==
  /\ {Absent, Refused, NoHash} \cap Text = {}
  /\ Absent # Refused
  /\ Refused \notin Path
  /\ Path \subseteq Spelling
  /\ Resolves \in [Spelling -> Path \cup {Refused}]
  /\ \A p \in Path : Resolves[p] = p
  /\ SecretPath \subseteq Path
  /\ MaxFiles \in Nat

(* The operations of a patch.                                              *)
Create(text) == [kind |-> "create", content |-> text]
Replace(text) == [kind |-> "replace", content |-> text]
Delete == [kind |-> "delete"]
Edits(edits) == [kind |-> "edit", edits |-> edits]
Unified(diff) == [kind |-> "unified", diff |-> diff]

Anchored(old, new) == [old |-> old, new |-> new, all |-> FALSE]
AnchoredAll(old, new) == [old |-> old, new |-> new, all |-> TRUE]

FilePatch(spelling, op) == [path |-> spelling, op |-> op, expect |-> NoHash]
HashedFilePatch(spelling, op, text) == [path |-> spelling, op |-> op, expect |-> text]

-----------------------------------------------------------------------------
(* applyAnchoredEdit: the anchor must be there, once unless replaceAll was *)
(* asked for, and must not be replaced by itself.                          *)
AnchorUsable(hits, edit) ==
  /\ hits # {}
  /\ edit.all \/ Cardinality(hits) = 1
  /\ edit.new # <<edit.old>>

ApplyAnchoredEdit(text, edit) ==
  LET hits == {i \in DOMAIN text : text[i] = edit.old}
  IN IF AnchorUsable(hits, edit)
     THEN FlattenSeq([i \in DOMAIN text |-> IF i \in hits THEN edit.new ELSE <<text[i]>>])
     ELSE Refused

ApplyEdits(text, edits) ==
  LET Step(acc, edit) == IF acc = Refused THEN Refused ELSE ApplyAnchoredEdit(acc, edit)
  IN IF edits = <<>> THEN Refused ELSE FoldLeft(Step, text, edits)

ApplyDiff(text, diff) ==
  LET applied == ApplyUnifiedDiff(text, ParseUnifiedDiff(diff))
  IN IF applied.ok THEN applied.text ELSE Refused

(* computeAfter: the content after the operation, Absent for a deletion.   *)
ComputeAfter(before, op) ==
  CASE op.kind = "create"  -> IF before = Absent THEN op.content ELSE Refused
    [] op.kind = "replace" -> op.content
    [] op.kind = "delete"  -> IF before = Absent THEN Refused ELSE Absent
    [] op.kind = "edit"    -> IF before = Absent THEN Refused ELSE ApplyEdits(before, op.edits)
    [] op.kind = "unified" -> IF before = Absent THEN Refused ELSE ApplyDiff(before, op.diff)

(* One file of stage(), once its path is accepted: the hash precondition,  *)
(* the effect, and the refusal of an edit that would change nothing.       *)
HashHolds(file, before) == file.expect = NoHash \/ file.expect = before

FileEffect(file, before) ==
  LET after == ComputeAfter(before, file.op)
  IN IF HashHolds(file, before) /\ after # before THEN after ELSE Refused

-----------------------------------------------------------------------------
(* A patch is a sequence of file patches.                                  *)

Target(patch, i) == Resolves[patch[i].path]
Targets(patch) == {Target(patch, i) : i \in DOMAIN patch} \ {Refused}

Sized(patch) == patch # <<>> /\ Len(patch) <= MaxFiles

(* Seeded bug: duplicates are looked for before paths are resolved.        *)
FirstSpelled(patch, i) == \A j \in 1..i - 1 : patch[j].path # patch[i].path

(* The path checks of stage(): inside the project, not named before, not a *)
(* credentials file.                                                       *)
FirstMention(patch, i) == \A j \in 1..i - 1 : Target(patch, j) # Target(patch, i)

Addressable(patch, i) ==
  /\ Target(patch, i) # Refused
  /\ FirstMention(patch, i)
  /\ Target(patch, i) \notin SecretPath

(* The whole of stage() against one tree.                                  *)
Accepts(patch, tree) ==
  /\ Sized(patch)
  /\ \A i \in DOMAIN patch :
       /\ Addressable(patch, i)
       /\ FileEffect(patch[i], tree[Target(patch, i)]) # Refused

(* The tree the patch asks for.                                            *)
Patched(patch, tree) ==
  [p \in Path |->
     IF \E i \in DOMAIN patch : Target(patch, i) = p
     THEN FileEffect(patch[CHOOSE i \in DOMAIN patch : Target(patch, i) = p], tree[p])
     ELSE tree[p]]

FileState == Text \cup {Absent}
=============================================================================
