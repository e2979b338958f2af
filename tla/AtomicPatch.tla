----------------------------- MODULE AtomicPatch -----------------------------
(***************************************************************************)
(* What the patch engine promises: a patch is applied in one step, against *)
(* the tree as it is at that step, or it changes nothing at all, but for   *)
(* files the file system itself lost while the call was failing.  A file   *)
(* that cannot be read is taken for absent: what the promise says of it is *)
(* only that nothing else is.                                              *)
(***************************************************************************)
CONSTANTS
  Path,           \* the files there are
  Absent,         \* what a file that does not exist holds
  Edited,         \* the texts the user's editor saves
  Call,           \* calls of the engine that may be in flight together
  Patch,          \* the patches callers submit
  Sized(_),       \* a patch is not empty, nor too large to be looked at
  Targets(_),     \* the files it names
  Accepts(_, _),  \* all of it can be carried out on a tree
  Patched(_, _)   \* the tree it asks for

VARIABLES
  tree,     \* what every file holds
  outcome,  \* of each call: "idle", "running", or how it ended
  asked,    \* the patch each call was given
  unread,   \* the files an ended call could not read
  lost      \* the files a failed call could not leave as they were

vars == <<tree, outcome, asked, unread, lost>>

(* The tree as it looks to who cannot read some of its files.              *)
Without(files) == [p \in Path |-> IF p \in files THEN Absent ELSE tree[p]]

Init ==
  /\ tree \in [Path -> Edited \cup {Absent}]
  /\ outcome = [c \in Call |-> "idle"]
  /\ asked = [c \in Call |-> <<>>]
  /\ unread = [c \in Call |-> {}]
  /\ lost = [c \in Call |-> {}]

Submit(c, patch) ==
  /\ outcome[c] = "idle"
  /\ asked' = [asked EXCEPT ![c] = patch]
  /\ outcome' = [outcome EXCEPT ![c] = IF Sized(patch) THEN "running" ELSE "refused"]
  /\ UNCHANGED <<tree, unread, lost>>

(* The call ends, having failed to read some of the files it names.        *)
Ends(c, how, files) ==
  /\ outcome[c] = "running"
  /\ outcome' = [outcome EXCEPT ![c] = how]
  /\ unread' = [unread EXCEPT ![c] = files]
  /\ UNCHANGED asked

Commit(c, files) ==
  /\ Ends(c, "applied", files)
  /\ Accepts(asked[c], Without(files))
  /\ tree' = Patched(asked[c], Without(files))
  /\ UNCHANGED lost

(* A preview computes the same effect and writes nothing.                  *)
Show(c, files) ==
  /\ Ends(c, "previewed", files)
  /\ Accepts(asked[c], Without(files))
  /\ UNCHANGED <<tree, lost>>

Refuse(c, files) ==
  /\ Ends(c, "refused", files)
  /\ ~Accepts(asked[c], Without(files))
  /\ UNCHANGED <<tree, lost>>

(* A write failed: every file but the lost ones is as it was.              *)
Fail(c, files, gone) ==
  /\ Ends(c, "failed", files)
  /\ lost' = [lost EXCEPT ![c] = gone]
  /\ tree' = [p \in Path |-> IF p \in gone THEN tree'[p] ELSE tree[p]]

Save(p, text) ==
  /\ tree' = [tree EXCEPT ![p] = text]
  /\ UNCHANGED <<outcome, asked, unread, lost>>

Next ==
  \/ \E c \in Call, patch \in Patch : Submit(c, patch)
  \/ \E c \in Call : \E files \in SUBSET {p \in Targets(asked[c]) : tree[p] # Absent} :
       \/ Commit(c, files)
       \/ Show(c, files)
       \/ Refuse(c, files)
       \/ \E gone \in SUBSET Targets(asked[c]) : Fail(c, files, gone)
  \/ \E p \in Path, text \in Edited \cup {Absent} : Save(p, text)

Spec == Init /\ [][Next]_vars
=============================================================================
