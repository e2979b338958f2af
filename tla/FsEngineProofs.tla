--------------------------- MODULE FsEngineProofs ---------------------------
(***************************************************************************)
(* Proofs about the file-system engine, for every set of calls, patches,   *)
(* contents, lines, texts and contexts.                                    *)
(*                                                                         *)
(* PatchEngine: its types, the frontier of writes, and that calls which    *)
(* have their files to themselves implement AtomicPatch.                   *)
(*                                                                         *)
(* DiffReview: the edit script behind a diff is exact and minimal, a diff  *)
(* that can carry its change reapplies, and no diff is applied over lines  *)
(* it did not describe.                                                    *)
(***************************************************************************)
EXTENDS PatchEngine, DiffReview, SequenceTheorems, WellFoundedInduction, TLAPS

(* The files of a call that are staged are the first ones of its patch, at *)
(* the paths these resolve to.                                             *)
StagesPatch(c) ==
  /\ Len(staged[c]) <= Len(patch[c])
  /\ \A i \in DOMAIN staged[c] :
       /\ staged[c][i].path = Target(patch[c], i)
       /\ Addressable(patch[c], i)

(* A staged change tells apart what was there and what was read there.     *)
ReadsTold(c) ==
  /\ pc[c] \in Working =>
       \A p \in unread[c] : \E i \in DOMAIN staged[c] : staged[c][i].path = p
  /\ pc[c] = "idle" => unread[c] = {}
  /\ \A i \in DOMAIN staged[c] :
       /\ staged[c][i].before = IF staged[c][i].path \in unread[c] THEN Absent ELSE staged[c][i].there
       /\ staged[c][i].path \in unread[c] => staged[c][i].there # Absent

(* Where a call is says how far its bookkeeping has come.                  *)
Progress(c) ==
  /\ pc[c] = "idle" => staged[c] = <<>> /\ written[c] = 0
  /\ pc[c] = "staging" => Len(staged[c]) < Len(patch[c]) /\ written[c] = 0
  /\ pc[c] = "writing" => written[c] < Len(staged[c])
  /\ pc[c] = "rollback" => 0 < written[c]

Bookkeeping == \A c \in Call : StagesPatch(c) /\ Progress(c) /\ ReadsTold(c)

IInv == TypeOK /\ Bookkeeping /\ WriteFrontier

-----------------------------------------------------------------------------
(* Submitted patches are sequences of file patches naming files by known   *)
(* spellings.                                                              *)
LEMMA PatchesTyped ==
  ASSUME NEW p \in Patch \cup {<<>>}
  PROVE  /\ p \in Seq(FilePatches)
         /\ \A i \in DOMAIN p : p[i] \in FilePatches /\ Target(p, i) \in Path \cup {Refused}
  <1>1. p \in Seq(FilePatches)
    <2>1. CASE p \in Patch
      BY <2>1, EngineAssumption
    <2>2. CASE p = <<>>
      BY <2>2
    <2> QED
      BY <2>1, <2>2
  <1>2. ASSUME NEW i \in DOMAIN p
        PROVE  p[i] \in FilePatches /\ Target(p, i) \in Path \cup {Refused}
    <2>1. p[i] \in FilePatches
      BY <1>1
    <2>2. p[i].path \in Spelling
      BY <2>1, EngineAssumption
    <2> QED
      BY <2>1, <2>2, PatchAssumption DEF Target
  <1> QED
    BY <1>1, <1>2

(* What stage() appends for an accepted file is a well-formed change of    *)
(* the file whose turn it is.                                              *)
LEMMA StagedChangeTyped ==
  ASSUME TypeOK, Bookkeeping, NEW c \in Call, NEW seen \in Content,
         pc[c] = "staging", Stageable(c, seen)
  PROVE  /\ Turn(c) \in DOMAIN patch[c]
         /\ Turn(c) = Len(staged[c]) + 1
         /\ StagedChange(patch[c], Turn(c), seen) \in Change
         /\ StagedChange(patch[c], Turn(c), seen).path = Target(patch[c], Turn(c))
         /\ StagedChange(patch[c], Turn(c), seen).there = disk[Target(patch[c], Turn(c))]
         /\ StagedChange(patch[c], Turn(c), seen).before = seen
         /\ Target(patch[c], Turn(c)) \in Path
         /\ \A j \in DOMAIN staged[c] : staged[c][j].path # Target(patch[c], Turn(c))
  <1> DEFINE i == Turn(c)
             t == Target(patch[c], i)
  <1>1. patch[c] \in Patch \cup {<<>>} /\ staged[c] \in Seq(Change)
    BY DEF TypeOK
  <1>2. patch[c] \in Seq(FilePatches)
    BY <1>1, PatchesTyped
  <1>3. i \in DOMAIN patch[c]
    BY <1>1, <1>2 DEF Turn, Bookkeeping, Progress
  <1>4. patch[c][i] \in FilePatches /\ t \in Path
    BY <1>1, <1>3, PatchesTyped DEF Stageable, Addressable
  <1>5. disk[t] \in Content
    BY <1>4 DEF TypeOK
  <1>6. FileEffect(patch[c][i], seen) \in Content
    BY <1>4, ContentAssumption DEF Stageable
  <1>7. ASSUME NEW j \in DOMAIN staged[c] PROVE staged[c][j].path # t
    <2>1. j \in 1..i - 1
      BY <1>1 DEF Turn
    <2>2. Target(patch[c], j) # t
      BY <2>1 DEF Stageable, Addressable, FirstMention
    <2> QED
      BY <2>2 DEF Bookkeeping, StagesPatch
  <1> QED
    BY <1>3, <1>4, <1>5, <1>6, <1>7 DEF StagedChange, Change, Turn

(* The file whose turn it is, once its path is accepted.                   *)
LEMMA NextTargetTyped ==
  ASSUME TypeOK, Bookkeeping, NEW c \in Call, pc[c] = "staging", Addressable(patch[c], Turn(c))
  PROVE  Turn(c) \in DOMAIN patch[c] /\ Target(patch[c], Turn(c)) \in Path
  <1>1. patch[c] \in Patch \cup {<<>>} /\ staged[c] \in Seq(Change)
    BY DEF TypeOK
  <1>2. patch[c] \in Seq(FilePatches)
    BY <1>1, PatchesTyped
  <1>3. Turn(c) \in DOMAIN patch[c]
    BY <1>1, <1>2 DEF Turn, Bookkeeping, Progress
  <1> QED
    BY <1>1, <1>3, PatchesTyped DEF Addressable

(* It is none of the files staged already.                                 *)
LEMMA FreshTarget ==
  ASSUME TypeOK, Bookkeeping, NEW c \in Call, Addressable(patch[c], Turn(c)),
         NEW j \in DOMAIN staged[c]
  PROVE  staged[c][j].path # Target(patch[c], Turn(c))
  <1>1. j \in 1..Turn(c) - 1
    BY DEF TypeOK, Turn
  <1>2. Target(patch[c], j) # Target(patch[c], Turn(c))
    BY <1>1 DEF Addressable, FirstMention
  <1> QED
    BY <1>2 DEF Bookkeeping, StagesPatch

(* A read adds at most its own file to the ones that could not be read.    *)
LEMMA ReadTyped ==
  ASSUME TypeOK, NEW c \in Call, NEW seen, ReadGives(c, seen), Target(patch[c], Turn(c)) \in Path
  PROVE  /\ unread' \in [Call -> SUBSET Path] /\ faults' \in 0..MaxFaults
         /\ \A d \in Call : d # c => unread'[d] = unread[d]
         /\ \/ unread'[c] = unread[c] /\ seen = disk[Target(patch[c], Turn(c))]
            \/ /\ unread'[c] = unread[c] \cup {Target(patch[c], Turn(c))} /\ seen = Absent
               /\ disk[Target(patch[c], Turn(c))] # Absent
  <1> DEFINE t == Target(patch[c], Turn(c))
  <1>1. \/ unread' = unread /\ faults' = faults /\ seen = disk[t]
        \/ /\ unread' = [unread EXCEPT ![c] = @ \cup {t}] /\ seen = Absent /\ disk[t] # Absent
           /\ faults < MaxFaults /\ faults' = faults + 1
    BY DEF ReadGives
  <1>2. unread \in [Call -> SUBSET Path] /\ faults \in 0..MaxFaults /\ t \in Path
    BY DEF TypeOK
  <1> HIDE DEF t
  <1>3. /\ unread' \in [Call -> SUBSET Path]
        /\ \A d \in Call : d # c => unread'[d] = unread[d]
        /\ \/ unread'[c] = unread[c] /\ seen = disk[t]
           \/ unread'[c] = unread[c] \cup {t} /\ seen = Absent /\ disk[t] # Absent
    BY <1>1, <1>2
  <1>4. faults' \in 0..MaxFaults
    BY <1>1, <1>2, EngineAssumption
  <1> QED
    BY <1>3, <1>4 DEF t

(* Who writes a file strays it for others that staged it, and adds nothing *)
(* but that file.                                                          *)
LEMMA StrayTyped ==
  ASSUME TypeOK, NEW p \in Path, NEW calls
  PROVE  Stray(p, calls) \in [Call -> SUBSET Path]
  BY DEF TypeOK, Stray

LEMMA StrayMarks ==
  ASSUME TypeOK, NEW p \in Path, NEW calls, NEW d \in Call
  PROVE  /\ strayed[d] \subseteq Stray(p, calls)[d]
         /\ Stray(p, calls)[d] \subseteq strayed[d] \cup {p}
         /\ d \notin calls => Stray(p, calls)[d] = strayed[d]
         /\ (d \in calls /\ pc[d] \in Working) =>
              \A i \in DOMAIN staged[d] : staged[d][i].path = p => p \in Stray(p, calls)[d]
  BY DEF TypeOK, Stray

-----------------------------------------------------------------------------
(* Type correctness.                                                       *)
LEMMA InitTypeOK == Init => TypeOK
  <1> SUFFICES ASSUME Init PROVE TypeOK
    OBVIOUS
  <1>1. disk \in [Path -> Content]
    BY ContentAssumption DEF Init
  <1>2. \A c \in Call : written[c] \in 0..Len(staged[c])
    BY DEF Init
  <1> QED
    BY <1>1, <1>2, EngineAssumption DEF Init, TypeOK, Working, Ended

LEMMA NextTypeOK ==
  ASSUME TypeOK, Bookkeeping, [Next]_vars
  PROVE  TypeOK'
  <1> USE EngineAssumption DEF TypeOK, Working, Ended
  <1>1. ASSUME NEW c \in Call, NEW p \in Patch, NEW m \in {"apply", "preview"}, Begin(c, p, m)
        PROVE  TypeOK'
    BY <1>1 DEF Begin
  <1>2. ASSUME NEW c \in Call, NEW seen \in Content, StageFile(c, seen)
        PROVE  TypeOK'
    <2>1. StagedChange(patch[c], Turn(c), seen) \in Change /\ Target(patch[c], Turn(c)) \in Path
      BY <1>2, StagedChangeTyped DEF StageFile
    <2>5. unread' \in [Call -> SUBSET Path] /\ faults' \in 0..MaxFaults
      BY <1>2, <2>1, ReadTyped DEF StageFile
    <2>2. staged' \in [Call -> Seq(Change)]
      BY <1>2, <2>1 DEF StageFile
    <2>3. \A d \in Call : written'[d] \in 0..Len(staged'[d])
      BY <1>2, <2>1 DEF StageFile
    <2>4. pc' \in [Call -> {"idle"} \cup Working \cup Ended]
      BY <1>2 DEF StageFile, AfterStaging
    <2> QED
      BY <1>2, <2>2, <2>3, <2>4, <2>5 DEF StageFile
  <1>3. ASSUME NEW c \in Call, NEW seen \in Content, RefuseFile(c, seen)
        PROVE  TypeOK'
    <2>1. unread' \in [Call -> SUBSET Path] /\ faults' \in 0..MaxFaults
      <3>1. CASE Addressable(patch[c], Turn(c))
        BY <1>3, <3>1, NextTargetTyped, ReadTyped DEF RefuseFile
      <3>2. CASE ~Addressable(patch[c], Turn(c))
        BY <1>3, <3>2 DEF RefuseFile
      <3> QED
        BY <3>1, <3>2
    <2> QED
      BY <1>3, <2>1 DEF RefuseFile
  <1>4. ASSUME NEW c \in Call, WriteFile(c)
        PROVE  TypeOK'
    <2>1. written[c] + 1 \in DOMAIN staged[c]
      BY <1>4 DEF WriteFile, Bookkeeping, Progress
    <2>2. NextWrite(c) \in Change
      BY <2>1 DEF NextWrite
    <2>3. disk' \in [Path -> Content]
      BY <1>4, <2>2 DEF WriteFile, Change
    <2>4. pc' \in [Call -> {"idle"} \cup Working \cup Ended]
      BY <1>4 DEF WriteFile, AfterWrite
    <2>5. \A d \in Call : written'[d] \in 0..Len(staged'[d])
      BY <1>4, <2>1 DEF WriteFile
    <2>6. strayed' \in [Call -> SUBSET Path]
      <3> DEFINE others == Stray(NextWrite(c).path, Call \ {c})
      <3>1. others \in [Call -> SUBSET Path]
        BY <2>2, StrayTyped DEF Change
      <3>2. strayed' = [others EXCEPT ![c] = @ \ {NextWrite(c).path}]
        BY <1>4 DEF WriteFile
      <3> HIDE DEF others
      <3> QED
        BY <3>1, <3>2
    <2>7. UNCHANGED <<alone, mode, patch, staged, unread, faults, saves>>
      BY <1>4 DEF WriteFile
    <2>8. written' \in [Call -> Nat]
      BY <1>4 DEF WriteFile
    <2> QED
      BY <2>3, <2>4, <2>5, <2>6, <2>7, <2>8
  <1>5. ASSUME NEW c \in Call, NEW damage \in Damage, WriteFails(c, damage)
        PROVE  TypeOK'
    <2>1. written[c] + 1 \in DOMAIN staged[c]
      BY <1>5 DEF WriteFails, Bookkeeping, Progress
    <2>2. NextWrite(c) \in Change
      BY <2>1 DEF NextWrite
    <2>3. disk' \in [Path -> Content] /\ strayed' \in [Call -> SUBSET Path]
      <3>1. NextWrite(c).path \in Path /\ <<>> \in Content
        BY <2>2, ContentAssumption DEF Change
      <3>2. CASE damage = "torn"
        <4>1. disk' = [disk EXCEPT ![NextWrite(c).path] = <<>>]
          BY <1>5, <3>2 DEF WriteFails
        <4>2. strayed' = Stray(NextWrite(c).path, Call)
          BY <1>5, <3>2 DEF WriteFails
        <4>3. disk' \in [Path -> Content]
          BY <3>1, <4>1
        <4> QED
          BY <3>1, <4>2, <4>3, StrayTyped
      <3>3. CASE damage # "torn"
        BY <1>5, <3>3 DEF WriteFails
      <3> QED
        BY <3>2, <3>3
    <2>4. pc' \in [Call -> {"idle"} \cup Working \cup Ended]
      BY <1>5 DEF WriteFails, AfterFailure
    <2> QED
      BY <1>5, <2>3, <2>4 DEF WriteFails
  <1>6. ASSUME NEW c \in Call, RestoreFile(c)
        PROVE  TypeOK'
    <2>1. written[c] \in DOMAIN staged[c] /\ written[c] - 1 \in 0..Len(staged[c])
      BY <1>6 DEF RestoreFile, Bookkeeping, Progress
    <2>2. LastWrite(c) \in Change
      BY <2>1 DEF LastWrite
    <2>3. disk' \in [Path -> Content]
      BY <1>6, <2>2 DEF RestoreFile, Change
    <2>4. pc' \in [Call -> {"idle"} \cup Working \cup Ended]
      BY <1>6 DEF RestoreFile, AfterRestore
    <2>5. \A d \in Call : written'[d] \in 0..Len(staged'[d])
      BY <1>6, <2>1 DEF RestoreFile
    <2>6. strayed' \in [Call -> SUBSET Path]
      <3> DEFINE q == LastWrite(c).path
                 others == Stray(q, Call \ {c})
      <3>1. others \in [Call -> SUBSET Path] /\ q \in Path
        BY <2>2, StrayTyped DEF Change
      <3>2. \/ strayed' = [others EXCEPT ![c] = @ \ {q}]
            \/ strayed' = [others EXCEPT ![c] = @ \cup {q}]
        BY <1>6 DEF RestoreFile
      <3> HIDE DEF others, q
      <3> QED
        BY ONLY <3>1, <3>2
    <2>7. UNCHANGED <<alone, mode, patch, staged, unread, faults, saves>>
      BY <1>6 DEF RestoreFile
    <2>8. written' \in [Call -> Nat]
      BY <1>6, <2>1 DEF RestoreFile
    <2> QED
      BY <2>3, <2>4, <2>5, <2>6, <2>7, <2>8
  <1>7. ASSUME NEW c \in Call, RestoreFails(c)
        PROVE  TypeOK'
    <2>1. written[c] \in DOMAIN staged[c] /\ written[c] - 1 \in 0..Len(staged[c])
      BY <1>7 DEF RestoreFails, Bookkeeping, Progress
    <2>2. LastWrite(c) \in Change
      BY <2>1 DEF LastWrite
    <2>3. pc' \in [Call -> {"idle"} \cup Working \cup Ended]
      BY <1>7 DEF RestoreFails, AfterRestore
    <2>4. \A d \in Call : written'[d] \in 0..Len(staged'[d])
      BY <1>7, <2>1 DEF RestoreFails
    <2>5. strayed' \in [Call -> SUBSET Path]
      <3>1. LastWrite(c).path \in Path
        BY <2>2 DEF Change
      <3> QED
        BY <1>7, <3>1 DEF RestoreFails
    <2> QED
      BY <1>7, <2>3, <2>4, <2>5 DEF RestoreFails
  <1>8. ASSUME NEW p \in Path, NEW text \in Edited \cup {Absent}, Save(p, text)
        PROVE  TypeOK'
    BY <1>8, ContentAssumption, StrayTyped DEF Save
  <1>9. CASE UNCHANGED vars
    BY <1>9 DEF vars
  <1> QED
    BY <1>1, <1>2, <1>3, <1>4, <1>5, <1>6, <1>7, <1>8, <1>9 DEF Next, CallStep

-----------------------------------------------------------------------------
(* The bookkeeping of a call whose own state does not change stands.       *)
LEMMA BookkeepingFrame ==
  ASSUME Bookkeeping, NEW d \in Call,
         pc'[d] = pc[d], patch'[d] = patch[d], staged'[d] = staged[d],
         written'[d] = written[d], unread'[d] = unread[d]
  PROVE  StagesPatch(d)' /\ Progress(d)' /\ ReadsTold(d)'
  BY DEF Bookkeeping, StagesPatch, Progress, ReadsTold, Addressable, FirstMention, Target, Working

(* What a call staged and read stands as long as it stages nothing more.   *)
LEMMA ReadsFrame ==
  ASSUME NEW d \in Call, ReadsTold(d), staged'[d] = staged[d], unread'[d] = unread[d],
         pc[d] # "idle", pc'[d] # "idle", pc'[d] \in Working => pc[d] \in Working
  PROVE  ReadsTold(d)'
  BY DEF ReadsTold, Working

(* Bookkeeping is preserved: a call stages the files of its patch in order *)
(* and writes no further than it staged.                                   *)
LEMMA NextBookkeeping ==
  ASSUME TypeOK, Bookkeeping, [Next]_vars
  PROVE  Bookkeeping'
  <1> USE DEF TypeOK
  <1> SUFFICES ASSUME NEW d \in Call PROVE StagesPatch(d)' /\ Progress(d)' /\ ReadsTold(d)'
    BY DEF Bookkeeping
  <1>1. ASSUME NEW c \in Call, NEW p \in Patch, NEW m \in {"apply", "preview"}, Begin(c, p, m)
        PROVE  StagesPatch(d)' /\ Progress(d)' /\ ReadsTold(d)'
    <2>1. CASE d # c
      BY <1>1, <2>1, BookkeepingFrame DEF Begin
    <2>2. CASE d = c
      <3>1. p \in Seq(FilePatches)
        BY EngineAssumption
      <3>2. pc'[c] \in {"staging", "refused"} /\ (pc'[c] = "staging" => 0 < Len(p))
        BY <1>1, <3>1 DEF Begin, Sized
      <3>3. staged'[c] = <<>> /\ written'[c] = 0 /\ patch'[c] = p
        BY <1>1 DEF Begin, Bookkeeping, Progress
      <3>4. unread'[c] = {}
        BY <1>1 DEF Begin, Bookkeeping, ReadsTold
      <3> QED
        BY <2>2, <3>1, <3>2, <3>3, <3>4 DEF StagesPatch, Progress, ReadsTold
    <2> QED
      BY <2>1, <2>2
  <1>2. ASSUME NEW c \in Call, NEW seen \in Content, StageFile(c, seen)
        PROVE  StagesPatch(d)' /\ Progress(d)' /\ ReadsTold(d)'
    <2>0. Target(patch[c], Turn(c)) \in Path
      BY <1>2, StagedChangeTyped DEF StageFile
    <2>1. CASE d # c
      <3>1. unread'[d] = unread[d]
        BY <1>2, <2>0, <2>1, ReadTyped DEF StageFile
      <3> QED
        BY <1>2, <2>1, <3>1, BookkeepingFrame DEF StageFile
    <2>2. CASE d = c
      <3> DEFINE i == Turn(c)
                 change == StagedChange(patch[c], i, seen)
      <3>1. pc[c] = "staging" /\ Stageable(c, seen)
        BY <1>2 DEF StageFile
      <3>2. /\ i \in DOMAIN patch[c] /\ i = Len(staged[c]) + 1
            /\ change.path = Target(patch[c], i)
        BY <3>1, StagedChangeTyped
      <3>3. patch[c] \in Seq(FilePatches)
        BY PatchesTyped
      <3>4. staged'[c] = Append(staged[c], change) /\ patch'[c] = patch[c] /\ written'[c] = 0
        BY <1>2, <3>1 DEF StageFile, Bookkeeping, Progress
      <3>5. Len(staged'[c]) = i /\ i <= Len(patch[c])
        BY <3>2, <3>3, <3>4
      <3>6. ASSUME NEW k \in DOMAIN staged'[c]
            PROVE  staged'[c][k].path = Target(patch[c], k) /\ Addressable(patch[c], k)
        <4>1. CASE k = i
          BY <3>1, <3>2, <3>4, <4>1 DEF Stageable
        <4>2. CASE k # i
          <5>1. k \in DOMAIN staged[c] /\ staged'[c][k] = staged[c][k]
            BY <3>2, <3>4, <3>5, <4>2
          <5> QED
            BY <5>1 DEF Bookkeeping, StagesPatch
        <4> QED
          BY <4>1, <4>2
      <3>7. StagesPatch(c)'
        BY <3>4, <3>5, <3>6 DEF StagesPatch, Addressable, FirstMention, Target
      <3>8. /\ pc'[c] \in {"staging", "writing", "previewed"}
            /\ pc'[c] = "staging" => i < Len(patch[c])
        BY <1>2 DEF StageFile, AfterStaging
      <3>9. Progress(c)'
        BY <3>2, <3>4, <3>5, <3>8 DEF Progress
      <3>10. ReadsTold(c)'
        <4> DEFINE t == Target(patch[c], i)
        <4>1. /\ change.path = t /\ change.there = disk[t] /\ change.before = seen
              /\ \A j \in DOMAIN staged[c] : staged[c][j].path # t
          BY <3>1, StagedChangeTyped
        <4>2. \/ unread'[c] = unread[c] /\ seen = disk[t]
              \/ unread'[c] = unread[c] \cup {t} /\ seen = Absent /\ disk[t] # Absent
          BY <1>2, <2>0, ReadTyped DEF StageFile
        <4>3. ReadsTold(c) /\ t \notin unread[c]
          BY <3>1, <4>1 DEF Bookkeeping, ReadsTold, Working
        <4>4. /\ DOMAIN staged'[c] = DOMAIN staged[c] \cup {i}
              /\ staged'[c][i] = change /\ \A j \in DOMAIN staged[c] : staged'[c][j] = staged[c][j]
          BY <3>2, <3>4
        <4> HIDE DEF t, change, i
        <4>5. ASSUME NEW j \in DOMAIN staged'[c]
              PROVE  /\ staged'[c][j].before =
                          IF staged'[c][j].path \in unread'[c] THEN Absent ELSE staged'[c][j].there
                     /\ staged'[c][j].path \in unread'[c] => staged'[c][j].there # Absent
          <5>1. CASE j \in DOMAIN staged[c]
            BY <4>1, <4>2, <4>3, <4>4, <5>1 DEF ReadsTold
          <5>2. CASE j = i
            BY <4>1, <4>2, <4>3, <4>4, <5>2
          <5> QED
            BY <4>4, <5>1, <5>2
        <4>6. ASSUME NEW p \in unread'[c]
              PROVE  \E j \in DOMAIN staged'[c] : staged'[c][j].path = p
          <5>1. CASE p = t
            BY <4>1, <4>4, <5>1
          <5>2. CASE p \in unread[c]
            BY <3>1, <4>3, <4>4, <5>2 DEF ReadsTold, Working
          <5> QED
            BY <4>2, <5>1, <5>2
        <4> QED
          BY <3>8, <4>5, <4>6 DEF ReadsTold
      <3> QED
        BY <2>2, <3>7, <3>9, <3>10
    <2> QED
      BY <2>1, <2>2
  <1>3. ASSUME NEW c \in Call, NEW seen \in Content, RefuseFile(c, seen)
        PROVE  StagesPatch(d)' /\ Progress(d)' /\ ReadsTold(d)'
    <2>0. unread'[c] \in SUBSET Path /\ (d # c => unread'[d] = unread[d])
      <3>1. CASE Addressable(patch[c], Turn(c))
        BY <1>3, <3>1, NextTargetTyped, ReadTyped DEF RefuseFile
      <3>2. CASE ~Addressable(patch[c], Turn(c))
        BY <1>3, <3>2 DEF RefuseFile
      <3> QED
        BY <3>1, <3>2
    <2>1. CASE d # c
      BY <1>3, <2>0, <2>1, BookkeepingFrame DEF RefuseFile
    <2>2. CASE d = c
      <3>1. Progress(c)'
        BY <1>3 DEF RefuseFile, Bookkeeping, Progress
      <3>2. StagesPatch(c)'
        BY <1>3 DEF RefuseFile, Bookkeeping, StagesPatch, Addressable, FirstMention, Target
      <3>3. ReadsTold(c)'
        <4> DEFINE t == Target(patch[c], Turn(c))
        <4>1. pc'[c] = "refused" /\ staged'[c] = staged[c] /\ ReadsTold(c)
          BY <1>3 DEF RefuseFile, Bookkeeping
        <4>2. \A p \in unread'[c] \ unread[c] : \A j \in DOMAIN staged[c] : staged[c][j].path # p
          <5>1. CASE Addressable(patch[c], Turn(c))
            <6>1. unread'[c] \subseteq unread[c] \cup {t}
              BY <1>3, <5>1, NextTargetTyped, ReadTyped DEF RefuseFile
            <6>2. \A j \in DOMAIN staged[c] : staged[c][j].path # t
              BY <1>3, <5>1, FreshTarget DEF RefuseFile
            <6> QED
              BY <6>1, <6>2
          <5>2. CASE ~Addressable(patch[c], Turn(c))
            BY <1>3, <5>2 DEF RefuseFile
          <5> QED
            BY <5>1, <5>2
        <4>3. unread[c] \subseteq unread'[c]
          <5>1. CASE Addressable(patch[c], Turn(c))
            BY <1>3, <5>1, NextTargetTyped, ReadTyped DEF RefuseFile
          <5>2. CASE ~Addressable(patch[c], Turn(c))
            BY <1>3, <5>2 DEF RefuseFile
          <5> QED
            BY <5>1, <5>2
        <4> QED
          BY <4>1, <4>2, <4>3 DEF ReadsTold, Working
      <3> QED
        BY <2>2, <3>1, <3>2, <3>3
    <2> QED
      BY <2>1, <2>2
  <1>4. ASSUME NEW c \in Call, WriteFile(c)
        PROVE  StagesPatch(d)' /\ Progress(d)' /\ ReadsTold(d)'
    <2>1. CASE d # c
      BY <1>4, <2>1, BookkeepingFrame DEF WriteFile
    <2>2. CASE d = c
      <3>1. Progress(c)'
        BY <1>4 DEF WriteFile, AfterWrite, Bookkeeping, Progress
      <3>2. StagesPatch(c)'
        BY <1>4 DEF WriteFile, Bookkeeping, StagesPatch, Addressable, FirstMention, Target
      <3>3. ReadsTold(c)'
        <4>1. /\ pc[c] \in Working /\ pc'[c] # "idle" /\ pc[c] # "idle"
              /\ staged'[c] = staged[c] /\ unread'[c] = unread[c]
          BY <1>4 DEF WriteFile, AfterWrite, Working
        <4> QED
          BY <4>1, ReadsFrame DEF Bookkeeping
      <3> QED
        BY <2>2, <3>1, <3>2, <3>3
    <2> QED
      BY <2>1, <2>2
  <1>5. ASSUME NEW c \in Call, NEW damage \in Damage, WriteFails(c, damage)
        PROVE  StagesPatch(d)' /\ Progress(d)' /\ ReadsTold(d)'
    <2>1. CASE d # c
      BY <1>5, <2>1, BookkeepingFrame DEF WriteFails
    <2>2. CASE d = c
      <3>1. Progress(c)'
        BY <1>5 DEF WriteFails, AfterFailure, Bookkeeping, Progress
      <3>2. StagesPatch(c)'
        BY <1>5 DEF WriteFails, Bookkeeping, StagesPatch, Addressable, FirstMention, Target
      <3>3. ReadsTold(c)'
        <4>1. /\ pc[c] \in Working /\ pc'[c] # "idle" /\ pc[c] # "idle"
              /\ staged'[c] = staged[c] /\ unread'[c] = unread[c]
          BY <1>5 DEF WriteFails, AfterFailure, Working
        <4> QED
          BY <4>1, ReadsFrame DEF Bookkeeping
      <3> QED
        BY <2>2, <3>1, <3>2, <3>3
    <2> QED
      BY <2>1, <2>2
  <1>6. ASSUME NEW c \in Call, RestoreFile(c)
        PROVE  StagesPatch(d)' /\ Progress(d)' /\ ReadsTold(d)'
    <2>1. CASE d # c
      BY <1>6, <2>1, BookkeepingFrame DEF RestoreFile
    <2>2. CASE d = c
      <3>1. Progress(c)'
        BY <1>6 DEF RestoreFile, AfterRestore, Bookkeeping, Progress
      <3>2. StagesPatch(c)'
        BY <1>6 DEF RestoreFile, Bookkeeping, StagesPatch, Addressable, FirstMention, Target
      <3>3. ReadsTold(c)'
        <4>1. /\ pc[c] \in Working /\ pc'[c] # "idle" /\ pc[c] # "idle"
              /\ staged'[c] = staged[c] /\ unread'[c] = unread[c]
          BY <1>6 DEF RestoreFile, AfterRestore, Working
        <4> QED
          BY <4>1, ReadsFrame DEF Bookkeeping
      <3> QED
        BY <2>2, <3>1, <3>2, <3>3
    <2> QED
      BY <2>1, <2>2
  <1>7. ASSUME NEW c \in Call, RestoreFails(c)
        PROVE  StagesPatch(d)' /\ Progress(d)' /\ ReadsTold(d)'
    <2>1. CASE d # c
      BY <1>7, <2>1, BookkeepingFrame DEF RestoreFails
    <2>2. CASE d = c
      <3>1. Progress(c)'
        BY <1>7 DEF RestoreFails, AfterRestore, Bookkeeping, Progress
      <3>2. StagesPatch(c)'
        BY <1>7 DEF RestoreFails, Bookkeeping, StagesPatch, Addressable, FirstMention, Target
      <3>3. ReadsTold(c)'
        <4>1. /\ pc[c] \in Working /\ pc'[c] # "idle" /\ pc[c] # "idle"
              /\ staged'[c] = staged[c] /\ unread'[c] = unread[c]
          BY <1>7 DEF RestoreFails, AfterRestore, Working
        <4> QED
          BY <4>1, ReadsFrame DEF Bookkeeping
      <3> QED
        BY <2>2, <3>1, <3>2, <3>3
    <2> QED
      BY <2>1, <2>2
  <1>8. ASSUME NEW p \in Path, NEW text \in Edited \cup {Absent}, Save(p, text)
        PROVE  StagesPatch(d)' /\ Progress(d)' /\ ReadsTold(d)'
    BY <1>8, BookkeepingFrame DEF Save
  <1>9. CASE UNCHANGED vars
    BY <1>9, BookkeepingFrame DEF vars
  <1> QED
    BY <1>1, <1>2, <1>3, <1>4, <1>5, <1>6, <1>7, <1>8, <1>9 DEF Next, CallStep

-----------------------------------------------------------------------------
(* The staged files of a call are files of the project, each staged once.  *)
LEMMA StagedPaths ==
  ASSUME TypeOK, Bookkeeping, NEW c \in Call, NEW i \in DOMAIN staged[c]
  PROVE  /\ i \in DOMAIN patch[c]
         /\ staged[c][i].path \in Path
         /\ \A j \in DOMAIN staged[c] : j # i => staged[c][j].path # staged[c][i].path
  <1>1. patch[c] \in Seq(FilePatches) /\ staged[c] \in Seq(Change)
    BY PatchesTyped DEF TypeOK
  <1>2. DOMAIN staged[c] \subseteq DOMAIN patch[c]
    BY <1>1 DEF Bookkeeping, StagesPatch
  <1>3. \A j \in DOMAIN staged[c] : /\ staged[c][j].path = Target(patch[c], j)
                                    /\ Addressable(patch[c], j)
    BY DEF Bookkeeping, StagesPatch
  <1>4. staged[c][i].path \in Path
    <2>1. staged[c][i] \in Change
      BY <1>1
    <2> QED
      BY <2>1 DEF Change
  <1>6. ASSUME NEW j \in DOMAIN staged[c], NEW k \in DOMAIN staged[c], j < k
        PROVE  staged[c][j].path # staged[c][k].path
    <2>1. j \in 1..k - 1
      BY <1>1, <1>6
    <2> QED
      BY <1>3, <2>1 DEF Addressable, FirstMention
  <1>7. \A j \in DOMAIN staged[c] : j # i => staged[c][j].path # staged[c][i].path
    BY <1>1, <1>6
  <1> QED
    BY <1>2, <1>4, <1>7

OnDisk(c, i) ==
  \/ staged[c][i].path \in strayed[c]
  \/ disk[staged[c][i].path] = IF i <= written[c] THEN staged[c][i].after ELSE staged[c][i].there

Frontier(c) == pc[c] \in Working => \A i \in DOMAIN staged[c] : OnDisk(c, i)

(* The half of the frontier that the reads answer for.                     *)
LEMMA FrontierIs ==
  ASSUME Bookkeeping
  PROVE  WriteFrontier <=> \A c \in Call : Frontier(c)
  BY DEF WriteFrontier, Frontier, OnDisk, Bookkeeping, ReadsTold

(* A call stays on its frontier when nobody writes,                        *)
LEMMA FrontierFrame ==
  ASSUME NEW d \in Call, Frontier(d), disk' = disk,
         pc'[d] = pc[d], staged'[d] = staged[d], written'[d] = written[d], strayed'[d] = strayed[d]
  PROVE  Frontier(d)'
  BY DEF Frontier, OnDisk

(* and when somebody else does: at a file it staged it knows.              *)
LEMMA FrontierOthers ==
  ASSUME TypeOK, Bookkeeping, NEW calls, NEW d \in Call \cap calls, Frontier(d), NEW p \in Path,
         \A q \in Path : q # p => disk'[q] = disk[q],
         pc'[d] = pc[d], staged'[d] = staged[d], written'[d] = written[d],
         strayed'[d] = Stray(p, calls)[d]
  PROVE  Frontier(d)'
  <1> SUFFICES ASSUME pc[d] \in Working, NEW i \in DOMAIN staged[d]
               PROVE  \/ staged[d][i].path \in strayed'[d]
                      \/ disk'[staged[d][i].path] =
                           IF i <= written[d] THEN staged[d][i].after ELSE staged[d][i].there
    BY DEF Frontier, OnDisk
  <1>1. CASE staged[d][i].path = p
    BY <1>1, StrayMarks
  <1>2. CASE staged[d][i].path # p
    <2>1. disk'[staged[d][i].path] = disk[staged[d][i].path]
      BY <1>2, StagedPaths
    <2>2. strayed[d] \subseteq strayed'[d]
      BY StrayMarks
    <2> QED
      BY <2>1, <2>2 DEF Frontier, OnDisk
  <1> QED
    BY <1>1, <1>2

(* The disk stays what the bookkeeping says, write by write and restore by *)
(* restore, because no two staged files of a call share a path.            *)
LEMMA NextWriteFrontier ==
  ASSUME TypeOK, Bookkeeping, WriteFrontier, [Next]_vars
  PROVE  WriteFrontier'
  <1> USE DEF TypeOK
  <1>b. Bookkeeping'
    BY NextBookkeeping
  <1> SUFFICES ASSUME NEW d \in Call PROVE Frontier(d)'
    BY <1>b DEF WriteFrontier, Frontier, OnDisk, Bookkeeping, ReadsTold
  <1>0. Frontier(d)
    BY FrontierIs
  <1>1. ASSUME NEW c \in Call, NEW p \in Patch, NEW m \in {"apply", "preview"}, Begin(c, p, m)
        PROVE  Frontier(d)'
    <2>1. CASE d # c
      BY <1>0, <1>1, <2>1, FrontierFrame DEF Begin
    <2>2. CASE d = c
      <3>1. staged'[c] = <<>>
        BY <1>1 DEF Begin, Bookkeeping, Progress
      <3> QED
        BY <2>2, <3>1 DEF Frontier, OnDisk
    <2> QED
      BY <2>1, <2>2
  <1>2. ASSUME NEW c \in Call, NEW seen \in Content, StageFile(c, seen)
        PROVE  Frontier(d)'
    <2>1. CASE d # c
      BY <1>0, <1>2, <2>1, FrontierFrame DEF StageFile
    <2>2. CASE d = c
      <3> DEFINE i == Turn(c)
                 change == StagedChange(patch[c], i, seen)
      <3>1. pc[c] = "staging" /\ Stageable(c, seen)
        BY <1>2 DEF StageFile
      <3>2. i = Len(staged[c]) + 1 /\ change.there = disk[change.path]
        BY <3>1, StagedChangeTyped
      <3>3. /\ staged'[c] = Append(staged[c], change)
            /\ written'[c] = 0 /\ written[c] = 0
            /\ disk' = disk /\ strayed' = strayed
        BY <1>2, <3>1 DEF StageFile, Bookkeeping, Progress
      <3>4. ASSUME NEW k \in DOMAIN staged'[c]
            PROVE  \/ staged'[c][k].path \in strayed'[c]
                   \/ disk'[staged'[c][k].path] = staged'[c][k].there
        <4>1. CASE k = i
          BY <3>2, <3>3, <4>1
        <4>2. CASE k # i
          <5>1. k \in DOMAIN staged[c] /\ staged'[c][k] = staged[c][k] /\ ~(k <= written[c])
            BY <3>2, <3>3, <4>2
          <5> QED
            BY <1>0, <2>2, <3>1, <3>3, <5>1 DEF Frontier, OnDisk, Working
        <4> QED
          BY <4>1, <4>2
      <3>5. \A k \in DOMAIN staged'[c] : ~(k <= written'[c])
        BY <3>3
      <3> QED
        BY <2>2, <3>4, <3>5 DEF Frontier, OnDisk
    <2> QED
      BY <2>1, <2>2
  <1>3. ASSUME NEW c \in Call, NEW seen \in Content, RefuseFile(c, seen)
        PROVE  Frontier(d)'
    <2>1. CASE d # c
      BY <1>0, <1>3, <2>1, FrontierFrame DEF RefuseFile
    <2>2. CASE d = c
      BY <1>3, <2>2 DEF RefuseFile, Frontier, OnDisk, Working
    <2> QED
      BY <2>1, <2>2
  <1>4. ASSUME NEW c \in Call, WriteFile(c)
        PROVE  Frontier(d)'
    <2> DEFINE n == written[c] + 1
    <2>1. pc[c] \in Working /\ n \in DOMAIN staged[c] /\ NextWrite(c) = staged[c][n]
      BY <1>4 DEF WriteFile, Bookkeeping, Progress, Working, NextWrite
    <2>2. \A p \in Path : p # staged[c][n].path => disk'[p] = disk[p]
      BY <1>4, <2>1 DEF WriteFile
    <2>3. CASE d # c
      <3>1. staged[c][n].path \in Path
        BY <2>1, StagedPaths
      <3>2. strayed'[d] = Stray(staged[c][n].path, Call \ {c})[d]
        BY <1>4, <2>1, <2>3, <3>1, StrayTyped DEF WriteFile
      <3> QED
        BY <1>0, <1>4, <2>2, <2>3, <3>1, <3>2, FrontierOthers DEF WriteFile
    <2>4. CASE d = c
      <3>0. staged[c][n].path \in Path
        BY <2>1, StagedPaths
      <3>1. /\ staged' = staged /\ written'[c] = n
            /\ strayed'[c] = strayed[c] \ {staged[c][n].path}
        BY <1>4, <2>1, <3>0, StrayTyped, StrayMarks DEF WriteFile
      <3>2. ASSUME NEW i \in DOMAIN staged[c]
            PROVE  \/ staged[c][i].path \in strayed'[c]
                   \/ disk'[staged[c][i].path] =
                        IF i <= n THEN staged[c][i].after ELSE staged[c][i].there
        <4>1. CASE i = n
          BY <1>4, <2>1, <4>1, StagedPaths DEF WriteFile
        <4>2. CASE i # n
          <5>1. /\ disk'[staged[c][i].path] = disk[staged[c][i].path]
                /\ staged[c][i].path # staged[c][n].path
            BY <2>1, <2>2, <4>2, StagedPaths
          <5>2. i <= n <=> i <= written[c]
            BY <4>2
          <5> QED
            BY <1>0, <2>1, <2>4, <3>1, <5>1, <5>2 DEF Frontier, OnDisk
        <4> QED
          BY <4>1, <4>2
      <3> QED
        BY <2>4, <3>1, <3>2 DEF Frontier, OnDisk
    <2> QED
      BY <2>3, <2>4
  <1>5. ASSUME NEW c \in Call, NEW damage \in Damage, WriteFails(c, damage)
        PROVE  Frontier(d)'
    <2> DEFINE n == written[c] + 1
    <2>1. pc[c] \in Working /\ n \in DOMAIN staged[c] /\ NextWrite(c) = staged[c][n]
      BY <1>5 DEF WriteFails, Bookkeeping, Progress, Working, NextWrite
    <2>2. \A p \in Path : p # staged[c][n].path => disk'[p] = disk[p]
      BY <1>5, <2>1 DEF WriteFails
    <2>3. \/ disk' = disk /\ strayed' = strayed
          \/ strayed' = Stray(staged[c][n].path, Call)
      BY <1>5, <2>1 DEF WriteFails
    <2>6. staged[c][n].path \in Path
      BY <2>1, StagedPaths
    <2>4. CASE d # c
      <3>1. pc'[d] = pc[d] /\ staged' = staged /\ written' = written
        BY <1>5, <2>4 DEF WriteFails
      <3>2. CASE disk' = disk /\ strayed' = strayed
        BY <1>0, <3>1, <3>2, FrontierFrame
      <3>3. CASE strayed' = Stray(staged[c][n].path, Call)
        BY <1>0, <2>2, <2>6, <3>1, <3>3, FrontierOthers
      <3> QED
        BY <2>3, <3>2, <3>3
    <2>5. CASE d = c
      <3>1. staged' = staged /\ written' = written
        BY <1>5 DEF WriteFails
      <3>2. ASSUME NEW i \in DOMAIN staged[c]
            PROVE  \/ staged[c][i].path \in strayed'[c]
                   \/ disk'[staged[c][i].path] =
                        IF i <= written[c] THEN staged[c][i].after ELSE staged[c][i].there
        <4>1. \/ staged[c][i].path \in strayed[c]
              \/ disk[staged[c][i].path] =
                   IF i <= written[c] THEN staged[c][i].after ELSE staged[c][i].there
          BY <1>0, <2>1, <2>5 DEF Frontier, OnDisk
        <4>2. CASE disk' = disk /\ strayed' = strayed
          BY <4>1, <4>2
        <4>3. CASE strayed' = Stray(staged[c][n].path, Call)
          <5>1. i # n => disk'[staged[c][i].path] = disk[staged[c][i].path]
            BY <2>1, <2>2, StagedPaths
          <5>2. strayed[c] \cup {staged[c][n].path} \subseteq strayed'[c]
            BY <2>1, <2>6, <4>3, StrayMarks
          <5> QED
            BY <4>1, <5>1, <5>2
        <4> QED
          BY <2>3, <4>2, <4>3
      <3> QED
        BY <2>5, <3>1, <3>2 DEF Frontier, OnDisk
    <2> QED
      BY <2>4, <2>5
  <1>6. ASSUME NEW c \in Call, RestoreFile(c)
        PROVE  Frontier(d)'
    <2> DEFINE n == written[c]
    <2>1. pc[c] \in Working /\ n \in DOMAIN staged[c] /\ LastWrite(c) = staged[c][n]
      BY <1>6 DEF RestoreFile, Bookkeeping, Progress, Working, LastWrite
    <2>2. \A p \in Path : p # staged[c][n].path => disk'[p] = disk[p]
      BY <1>6, <2>1 DEF RestoreFile
    <2>3. CASE d # c
      <3>1. staged[c][n].path \in Path
        BY <2>1, StagedPaths
      <3>2. strayed'[d] = Stray(staged[c][n].path, Call \ {c})[d]
        BY <1>6, <2>1, <2>3, <3>1, StrayTyped DEF RestoreFile
      <3> QED
        BY <1>0, <1>6, <2>2, <2>3, <3>1, <3>2, FrontierOthers DEF RestoreFile
    <2>4. CASE d = c
      <3>0. staged[c][n].path \in Path
        BY <2>1, StagedPaths
      <3>1. /\ staged' = staged /\ written'[c] = n - 1
            /\ strayed[c] \ {staged[c][n].path} \subseteq strayed'[c]
            /\ staged[c][n].path \in unread[c] => staged[c][n].path \in strayed'[c]
        BY <1>6, <2>1, <3>0, StrayTyped, StrayMarks DEF RestoreFile
      <3>2. ASSUME NEW i \in DOMAIN staged[c]
            PROVE  \/ staged[c][i].path \in strayed'[c]
                   \/ disk'[staged[c][i].path] =
                        IF i <= n - 1 THEN staged[c][i].after ELSE staged[c][i].there
        <4>1. CASE i = n
          <5>1. disk'[staged[c][n].path] = staged[c][n].before
            BY <1>6, <2>1, StagedPaths DEF RestoreFile
          <5> QED
            BY <2>1, <3>1, <4>1, <5>1 DEF Bookkeeping, ReadsTold
        <4>2. CASE i # n
          <5>1. /\ disk'[staged[c][i].path] = disk[staged[c][i].path]
                /\ staged[c][i].path # staged[c][n].path
            BY <2>1, <2>2, <4>2, StagedPaths
          <5>2. i <= n - 1 <=> i <= n
            BY <2>1, <4>2
          <5> QED
            BY <1>0, <2>1, <2>4, <3>1, <5>1, <5>2 DEF Frontier, OnDisk
        <4> QED
          BY <4>1, <4>2
      <3> HIDE DEF n
      <3> QED
        BY <2>4, <3>1, <3>2 DEF Frontier, OnDisk
    <2> QED
      BY <2>3, <2>4
  <1>7. ASSUME NEW c \in Call, RestoreFails(c)
        PROVE  Frontier(d)'
    <2> DEFINE n == written[c]
    <2>1. pc[c] \in Working /\ n \in DOMAIN staged[c] /\ LastWrite(c) = staged[c][n]
      BY <1>7 DEF RestoreFails, Bookkeeping, Progress, Working, LastWrite
    <2>2. CASE d # c
      BY <1>0, <1>7, <2>2, FrontierFrame DEF RestoreFails
    <2>3. CASE d = c
      <3>1. /\ disk' = disk /\ staged' = staged /\ written'[c] = n - 1
            /\ strayed'[c] = strayed[c] \cup {staged[c][n].path}
        BY <1>7, <2>1 DEF RestoreFails
      <3>2. ASSUME NEW i \in DOMAIN staged[c], i # n
            PROVE  i <= n - 1 <=> i <= n
        BY <2>1, <3>2
      <3> QED
        BY <1>0, <2>1, <2>3, <3>1, <3>2 DEF Frontier, OnDisk
    <2> QED
      BY <2>2, <2>3
  <1>8. ASSUME NEW p \in Path, NEW text \in Edited \cup {Absent}, Save(p, text)
        PROVE  Frontier(d)'
    <2>1. \A q \in Path : q # p => disk'[q] = disk[q]
      BY <1>8 DEF Save
    <2> QED
      BY <1>0, <1>8, <2>1, FrontierOthers DEF Save
  <1>9. CASE UNCHANGED vars
    BY <1>0, <1>9, FrontierFrame DEF vars
  <1> QED
    BY <1>1, <1>2, <1>3, <1>4, <1>5, <1>6, <1>7, <1>8, <1>9 DEF Next, CallStep

-----------------------------------------------------------------------------
(* Type correctness: whatever the calls, the patches and the failures,     *)
(* files hold contents, and no call counts more writes than it staged.     *)
THEOREM TypeCorrect == Spec => []TypeOK
  <1>1. Init => TypeOK /\ Bookkeeping
    BY InitTypeOK DEF Init, Bookkeeping, StagesPatch, Progress, ReadsTold
  <1>2. TypeOK /\ Bookkeeping /\ [Next]_vars => TypeOK' /\ Bookkeeping'
    BY NextTypeOK, NextBookkeeping
  <1> QED
    BY <1>1, <1>2, PTL DEF Spec

(* Whatever is in flight, whoever else writes and whatever fails, the disk *)
(* is what the bookkeeping of the calls says at every file nobody strayed. *)
THEOREM FrontierHolds == Spec => []WriteFrontier
  <1>1. Init => IInv
    BY InitTypeOK DEF Init, IInv, Bookkeeping, StagesPatch, Progress, ReadsTold, WriteFrontier, Working
  <1>2. IInv /\ [Next]_vars => IInv'
    BY NextTypeOK, NextBookkeeping, NextWriteFrontier DEF IInv
  <1>3. IInv => WriteFrontier
    BY DEF IInv
  <1> QED
    BY <1>1, <1>2, <1>3, PTL DEF Spec

-----------------------------------------------------------------------------
(* The rest is about the behaviours in which every call in flight has its  *)
(* files to itself: the engine implements AtomicPatch.                     *)

Separate == \A c, d \in Call : c # d => Touches(c) \cap Touches(d) = {}

(* Only a failure leaves a file behind, and only one that was staged.      *)
Unstrayed(c) ==
  /\ pc[c] \in {"idle", "staging", "writing"} => strayed[c] = {}
  /\ pc[c] = "rollback" => \A p \in strayed[c] : \E i \in DOMAIN staged[c] : staged[c][i].path = p

(* Every staged change is the effect of its file patch; all are staged     *)
(* before the first is written.                                            *)
StagesEffects(c) ==
  /\ pc[c] \in Working => Sized(patch[c])
  /\ pc[c] \in Working =>
       \A i \in DOMAIN staged[c] :
         staged[c][i].after = FileEffect(patch[c][i], staged[c][i].before) /\ staged[c][i].after # Refused
  /\ pc[c] \in {"writing", "rollback"} => Len(staged[c]) = Len(patch[c])

Undisturbed == alone => Separate /\ \A c \in Call : Unstrayed(c) /\ StagesEffects(c)

RInv == IInv /\ Undisturbed

(* From outside, a file that a call in flight has staged holds what it was *)
(* staged from, and any other what is on disk.                             *)
StagedAt(c, p) == pc[c] \in Working /\ \E i \in DOMAIN staged[c] : staged[c][i].path = p

Seen ==
  \A p \in Path :
    /\ \A c \in Call : pc[c] \in Working =>
         \A i \in DOMAIN staged[c] : staged[c][i].path = p =>
           p \in Targets(patch[c]) /\ Visible(p) = staged[c][i].there
    /\ (\A c \in Call : ~StagedAt(c, p)) => Visible(p) = disk[p]

Tree == [p \in Path |-> Visible(p)]
Outcome == [c \in Call |-> IF pc[c] \in Working THEN "running" ELSE pc[c]]
Unread == [c \in Call |-> IF pc[c] \in Working THEN {} ELSE unread[c]]
Lost == [c \in Call |-> IF pc[c] \in Working THEN {} ELSE strayed[c]]

(* The same tree to who cannot read some of its files.                     *)
TreeWithout(files) == [p \in Path |-> IF p \in files THEN Absent ELSE Tree[p]]

(* A call stages files it may touch, so others never write them.           *)
LEMMA StagedTouched ==
  ASSUME IInv, NEW c \in Call, NEW i \in DOMAIN staged[c]
  PROVE  staged[c][i].path \in Targets(patch[c]) /\ staged[c][i].path = Target(patch[c], i)
  <1>1. i \in DOMAIN patch[c]
    BY StagedPaths DEF IInv
  <1>2. staged[c][i].path = Target(patch[c], i) /\ Addressable(patch[c], i)
    BY DEF IInv, Bookkeeping, StagesPatch
  <1> QED
    BY <1>1, <1>2 DEF Targets, Addressable

(* A call that writes a file of its patch strays it for nobody.            *)
LEMMA OthersUnstrayed ==
  ASSUME IInv, Separate, NEW c \in Call, pc[c] \in Working, NEW p \in Targets(patch[c]),
         NEW calls, NEW d \in Call, d # c \/ c \notin calls
  PROVE  Stray(p, calls)[d] = strayed[d]
  <1>1. CASE d \in calls /\ pc[d] \in Working
    <2>1. p \notin Targets(patch[d])
      BY <1>1 DEF Separate, Touches
    <2>2. ~ \E i \in DOMAIN staged[d] : staged[d][i].path = p
      BY <2>1, StagedTouched
    <2> QED
      BY <2>2 DEF Stray
  <1>2. CASE ~(d \in calls /\ pc[d] \in Working)
    BY <1>2 DEF Stray
  <1> QED
    BY <1>1, <1>2

(* What a call has of its own stands as long as it does nothing.           *)
LEMMA UndisturbedFrame ==
  ASSUME NEW d \in Call, Unstrayed(d), StagesEffects(d),
         pc'[d] = pc[d], patch'[d] = patch[d], staged'[d] = staged[d], strayed'[d] = strayed[d]
  PROVE  Unstrayed(d)' /\ StagesEffects(d)'
  BY DEF Unstrayed, StagesEffects, Sized

(* Calls stay separate as long as none begins.                             *)
LEMMA StaySeparate ==
  ASSUME Separate, patch' = patch, \A c \in Call : pc'[c] \in Working => pc[c] \in Working
  PROVE  Separate'
  BY DEF Separate, Touches, Targets, Target

(* What a call does to itself.                                             *)
Own(c) == Unstrayed(c) /\ StagesEffects(c)

(* Calls that have their files to themselves keep them.                    *)
LEMMA NextUndisturbed ==
  ASSUME IInv, Undisturbed, [Next]_vars
  PROVE  Undisturbed'
  <1> USE DEF Own
  <1> SUFFICES ASSUME alone PROVE Separate' /\ \A d \in Call : Own(d)'
    BY DEF Undisturbed, Next, CallStep, Begin, StageFile, RefuseFile, WriteFile, WriteFails, RestoreFile,
           RestoreFails, Save, vars
  <1>0. TypeOK /\ Bookkeeping /\ Separate /\ \A d \in Call : Own(d)
    BY DEF IInv, Undisturbed
  <1>1. ASSUME NEW c \in Call, NEW p \in Patch, NEW m \in {"apply", "preview"}, Begin(c, p, m)
        PROVE  Separate' /\ \A d \in Call : Own(d)'
    <2>1. pc[c] = "idle" /\ staged[c] = <<>> /\ strayed[c] = {} /\ Targets(p) \cap InFlight = {}
      BY <1>0, <1>1 DEF Begin, Bookkeeping, Progress, Unstrayed
    <2>2. /\ patch' = [patch EXCEPT ![c] = p] /\ staged' = staged /\ strayed' = strayed
          /\ pc' = [pc EXCEPT ![c] = IF Sized(p) THEN "staging" ELSE "refused"]
      BY <1>1 DEF Begin
    <2>3. ASSUME NEW d \in Call
          PROVE  /\ d # c => Touches(d)' = Touches(d)
                 /\ d = c => Touches(d)' \subseteq Targets(p)
      BY <1>0, <2>1, <2>2 DEF TypeOK, Touches, Targets, Target, Working
    <2>4. Separate'
      BY <1>0, <2>1, <2>3 DEF Separate, InFlight
    <2>5. ASSUME NEW d \in Call PROVE Own(d)'
      <3>1. CASE d # c
        BY <1>0, <2>2, <3>1, UndisturbedFrame DEF TypeOK
      <3>2. CASE d = c
        <4>1. /\ pc'[c] = (IF Sized(p) THEN "staging" ELSE "refused") /\ patch'[c] = p
              /\ staged'[c] = <<>> /\ strayed'[c] = {}
          BY <1>0, <2>1, <2>2 DEF TypeOK
        <4> QED
          BY <3>2, <4>1 DEF Unstrayed, StagesEffects, Working, Sized
      <3> QED
        BY <3>1, <3>2
    <2> QED
      BY <2>4, <2>5
  <1>2. ASSUME NEW c \in Call, NEW seen \in Content, StageFile(c, seen)
        PROVE  Separate' /\ \A d \in Call : Own(d)'
    <2>1. pc[c] = "staging" /\ Stageable(c, seen) /\ strayed[c] = {} /\ Sized(patch[c])
      BY <1>0, <1>2 DEF StageFile, Unstrayed, StagesEffects, Working
    <2>2. /\ staged' = [staged EXCEPT ![c] = Append(@, StagedChange(patch[c], Turn(c), seen))]
          /\ pc' = [pc EXCEPT ![c] = AfterStaging(c)]
          /\ patch' = patch /\ strayed' = strayed
      BY <1>2 DEF StageFile
    <2>3. Separate'
      BY <1>0, <2>1, <2>2, StaySeparate DEF TypeOK, Working
    <2>4. ASSUME NEW d \in Call PROVE Own(d)'
      <3>1. CASE d # c
        BY <1>0, <2>2, <3>1, UndisturbedFrame DEF TypeOK
      <3>2. CASE d = c
        <4> DEFINE i == Turn(c)
                   change == StagedChange(patch[c], i, seen)
        <4>1. /\ i \in DOMAIN patch[c] /\ i = Len(staged[c]) + 1
              /\ change \in Change
              /\ change.after = FileEffect(patch[c][i], change.before) /\ change.after # Refused
          BY <1>0, <2>1, StagedChangeTyped DEF StagedChange, Stageable
        <4>2. staged[c] \in Seq(Change) /\ patch[c] \in Seq(FilePatches)
          BY <1>0, PatchesTyped DEF TypeOK
        <4>3. staged'[c] = Append(staged[c], change) /\ patch'[c] = patch[c] /\ strayed'[c] = {}
          BY <1>0, <2>1, <2>2 DEF TypeOK
        <4> HIDE DEF change
        <4>4. ASSUME NEW k \in DOMAIN staged'[c]
              PROVE  /\ staged'[c][k].after = FileEffect(patch[c][k], staged'[c][k].before)
                     /\ staged'[c][k].after # Refused
          <5>1. CASE k = i
            BY <4>1, <4>2, <4>3, <5>1
          <5>2. CASE k # i
            <6>1. k \in DOMAIN staged[c] /\ staged'[c][k] = staged[c][k]
              BY <4>1, <4>2, <4>3, <5>2
            <6> QED
              BY <1>0, <2>1, <6>1 DEF StagesEffects, Working
          <5> QED
            BY <5>1, <5>2
        <4>5. Len(staged'[c]) = i
          BY <4>1, <4>2, <4>3
        <4>6. /\ pc'[c] \in {"staging", "writing", "previewed"}
              /\ pc'[c] = "writing" => ~(i < Len(patch[c]))
          BY <1>0, <2>2 DEF TypeOK, AfterStaging
        <4>7. pc'[c] = "writing" => Len(staged'[c]) = Len(patch[c])
          BY <4>1, <4>2, <4>5, <4>6
        <4> HIDE DEF i
        <4>8. Unstrayed(c)'
          BY <4>3, <4>6 DEF Unstrayed
        <4>9. StagesEffects(c)'
          BY <2>1, <4>3, <4>4, <4>6, <4>7 DEF StagesEffects, Working, Sized
        <4> QED
          BY <3>2, <4>8, <4>9
      <3> QED
        BY <3>1, <3>2
    <2> QED
      BY <2>3, <2>4
  <1>3. ASSUME NEW c \in Call, NEW seen \in Content, RefuseFile(c, seen)
        PROVE  Separate' /\ \A d \in Call : Own(d)'
    <2>1. /\ patch' = patch /\ staged' = staged /\ strayed' = strayed
          /\ pc[c] = "staging" /\ pc' = [pc EXCEPT ![c] = "refused"]
      BY <1>3 DEF RefuseFile
    <2>2. Separate'
      BY <1>0, <2>1, StaySeparate DEF TypeOK, Working
    <2>3. ASSUME NEW d \in Call PROVE Own(d)'
      BY <1>0, <2>1, UndisturbedFrame DEF TypeOK, Unstrayed, StagesEffects, Working
    <2> QED
      BY <2>2, <2>3
  <1>4. ASSUME NEW c \in Call, WriteFile(c)
        PROVE  Separate' /\ \A d \in Call : Own(d)'
    <2> DEFINE n == written[c] + 1
               q == staged[c][n].path
    <2>1. /\ pc[c] = "writing" /\ n \in DOMAIN staged[c] /\ NextWrite(c) = staged[c][n]
          /\ q \in Targets(patch[c]) /\ q \in Path
      <3>1. pc[c] = "writing" /\ n \in DOMAIN staged[c] /\ NextWrite(c) = staged[c][n]
        BY <1>0, <1>4 DEF TypeOK, WriteFile, Bookkeeping, Progress, NextWrite
      <3> QED
        BY <1>0, <3>1, StagedTouched, StagedPaths
    <2>2. /\ patch' = patch /\ staged' = staged /\ pc' = [pc EXCEPT ![c] = AfterWrite(c)]
          /\ strayed' = [Stray(q, Call \ {c}) EXCEPT ![c] = @ \ {q}]
      BY <1>4, <2>1 DEF WriteFile
    <2>3. strayed' = strayed
      <3>1. \A d \in Call : Stray(q, Call \ {c})[d] = strayed[d]
        BY <1>0, <2>1, OthersUnstrayed DEF Working
      <3>2. strayed[c] = {}
        BY <1>0, <2>1 DEF Unstrayed
      <3>3. Stray(q, Call \ {c}) \in [Call -> SUBSET Path] /\ strayed \in [Call -> SUBSET Path]
        BY <1>0, <2>1, StrayTyped DEF TypeOK
      <3> HIDE DEF q
      <3> QED
        BY <2>2, <3>1, <3>2, <3>3
    <2>4. Separate'
      BY <1>0, <2>1, <2>2, StaySeparate DEF TypeOK, Working
    <2>5. ASSUME NEW d \in Call PROVE Own(d)'
      BY <1>0, <2>1, <2>2, <2>3, UndisturbedFrame DEF TypeOK, AfterWrite, Unstrayed, StagesEffects, Working, Sized
    <2> QED
      BY <2>4, <2>5
  <1>5. ASSUME NEW c \in Call, NEW damage \in Damage, WriteFails(c, damage)
        PROVE  Separate' /\ \A d \in Call : Own(d)'
    <2> DEFINE n == written[c] + 1
               q == staged[c][n].path
    <2>1. /\ pc[c] = "writing" /\ n \in DOMAIN staged[c] /\ NextWrite(c) = staged[c][n]
          /\ q \in Targets(patch[c]) /\ q \in Path
      <3>1. pc[c] = "writing" /\ n \in DOMAIN staged[c] /\ NextWrite(c) = staged[c][n]
        BY <1>0, <1>5 DEF TypeOK, WriteFails, Bookkeeping, Progress, NextWrite
      <3> QED
        BY <1>0, <3>1, StagedTouched, StagedPaths
    <2>2. /\ patch' = patch /\ staged' = staged /\ pc' = [pc EXCEPT ![c] = AfterFailure(c)]
          /\ strayed' = strayed \/ strayed' = Stray(q, Call)
      BY <1>5, <2>1 DEF WriteFails
    <2>3. /\ \A d \in Call : d # c => strayed'[d] = strayed[d]
          /\ strayed'[c] \subseteq {q}
      <3>1. \A d \in Call : d # c => Stray(q, Call)[d] = strayed[d]
        BY <1>0, <2>1, OthersUnstrayed DEF Working
      <3>2. strayed[c] = {} /\ Stray(q, Call)[c] \subseteq strayed[c] \cup {q}
        BY <1>0, <2>1, StrayMarks DEF Unstrayed
      <3> HIDE DEF q
      <3> QED
        BY <2>2, <3>1, <3>2
    <2>4. Separate'
      BY <1>0, <2>1, <2>2, StaySeparate DEF TypeOK, Working
    <2>5. ASSUME NEW d \in Call PROVE Own(d)'
      <3>1. CASE d # c
        BY <1>0, <2>2, <2>3, <3>1, UndisturbedFrame DEF TypeOK
      <3>2. CASE d = c
        <4>1. pc'[c] \in {"failed", "rollback"} /\ patch'[c] = patch[c] /\ staged'[c] = staged[c]
          BY <1>0, <2>2 DEF TypeOK, AfterFailure
        <4>2. Unstrayed(c)'
          BY <2>1, <2>3, <4>1 DEF Unstrayed
        <4>3. StagesEffects(c)'
          BY <1>0, <2>1, <4>1 DEF StagesEffects, Working, Sized
        <4> QED
          BY <3>2, <4>2, <4>3
      <3> QED
        BY <3>1, <3>2
    <2> QED
      BY <2>4, <2>5
  <1>6. ASSUME NEW c \in Call, RestoreFile(c) \/ RestoreFails(c)
        PROVE  Separate' /\ \A d \in Call : Own(d)'
    <2> DEFINE n == written[c]
               q == staged[c][n].path
    <2>1. /\ pc[c] = "rollback" /\ n \in DOMAIN staged[c] /\ LastWrite(c) = staged[c][n]
          /\ q \in Targets(patch[c]) /\ q \in Path
      <3>1. pc[c] = "rollback"
        <4>1. CASE RestoreFile(c)
          BY <4>1 DEF RestoreFile
        <4>2. CASE RestoreFails(c)
          BY <4>2 DEF RestoreFails
        <4> QED
          BY <1>6, <4>1, <4>2
      <3>2. n \in DOMAIN staged[c] /\ LastWrite(c) = staged[c][n]
        BY <1>0, <3>1 DEF TypeOK, Bookkeeping, Progress, LastWrite
      <3> QED
        BY <1>0, <3>1, <3>2, StagedTouched, StagedPaths
    <2>2. /\ patch' = patch /\ staged' = staged /\ pc' = [pc EXCEPT ![c] = AfterRestore(c)]
          /\ \/ strayed' = [Stray(q, Call \ {c}) EXCEPT ![c] = @ \ {q}]
             \/ strayed' = [Stray(q, Call \ {c}) EXCEPT ![c] = @ \cup {q}]
             \/ strayed' = [strayed EXCEPT ![c] = @ \cup {q}]
      <3>1. CASE RestoreFile(c)
        BY <2>1, <3>1 DEF RestoreFile
      <3>2. CASE RestoreFails(c)
        BY <2>1, <3>2 DEF RestoreFails
      <3> QED
        BY <1>6, <3>1, <3>2
    <2>3. /\ \A d \in Call : d # c => strayed'[d] = strayed[d]
          /\ strayed'[c] \subseteq strayed[c] \cup {q}
      <3>1. \A d \in Call : Stray(q, Call \ {c})[d] = strayed[d]
        BY <1>0, <2>1, OthersUnstrayed DEF Working
      <3>2. Stray(q, Call \ {c}) \in [Call -> SUBSET Path] /\ strayed \in [Call -> SUBSET Path]
        BY <1>0, <2>1, StrayTyped DEF TypeOK
      <3> HIDE DEF q
      <3> QED
        BY <2>2, <3>1, <3>2
    <2>4. Separate'
      BY <1>0, <2>1, <2>2, StaySeparate DEF TypeOK, Working
    <2>5. ASSUME NEW d \in Call PROVE Own(d)'
      <3>1. CASE d # c
        BY <1>0, <2>2, <2>3, <3>1, UndisturbedFrame DEF TypeOK
      <3>2. CASE d = c
        <4>1. pc'[c] \in {"failed", "rollback"} /\ patch'[c] = patch[c] /\ staged'[c] = staged[c]
          BY <1>0, <2>2 DEF TypeOK, AfterRestore
        <4>2. Unstrayed(c)'
          BY <1>0, <2>1, <2>3, <4>1 DEF Unstrayed
        <4>3. StagesEffects(c)'
          BY <1>0, <2>1, <4>1 DEF StagesEffects, Working, Sized
        <4> QED
          BY <3>2, <4>2, <4>3
      <3> QED
        BY <3>1, <3>2
    <2> QED
      BY <2>4, <2>5
  <1>7. ASSUME NEW p \in Path, NEW text \in Edited \cup {Absent}, Save(p, text)
        PROVE  Separate' /\ \A d \in Call : Own(d)'
    <2>1. /\ pc' = pc /\ patch' = patch /\ staged' = staged /\ strayed' = Stray(p, Call)
          /\ p \notin InFlight
      BY <1>7 DEF Save
    <2>2. \A d \in Call : strayed'[d] = strayed[d]
      BY <2>1, StagedTouched DEF Stray, InFlight, Touches
    <2> QED
      BY <1>0, <2>1, <2>2, StaySeparate, UndisturbedFrame
  <1>8. CASE UNCHANGED vars
    BY <1>0, <1>8, StaySeparate, UndisturbedFrame DEF vars
  <1> QED
    BY <1>1, <1>2, <1>3, <1>4, <1>5, <1>6, <1>7, <1>8 DEF Next, CallStep

-----------------------------------------------------------------------------
(* What the call that hides a file shows in its place.                     *)
LEMMA HiddenKnown ==
  ASSUME IInv, NEW c \in Call, NEW p \in Path, Hides(c, p)
  PROVE  /\ pc[c] \in Working /\ p \in Touches(c)
         /\ \E i \in DOMAIN staged[c] : staged[c][i].path = p
  BY StagedTouched DEF Hides, Hidden, Working, Touches

(* A staged file is seen as it was staged, whether it is hidden by now or  *)
(* nobody has touched it: only its own call can hide it.                   *)
LEMMA SeenStaged ==
  ASSUME RInv, alone, NEW c \in Call, pc[c] \in Working, NEW i \in DOMAIN staged[c]
  PROVE  Visible(staged[c][i].path) = staged[c][i].there
  <1> DEFINE p == staged[c][i].path
  <1>1. p \in Path /\ p \in Touches(c) /\ \A j \in DOMAIN staged[c] : staged[c][j].path = p => j = i
    BY StagedPaths, StagedTouched DEF RInv, IInv, Touches
  <1>2. ASSUME NEW d \in Call, Hides(d, p) PROVE d = c
    <2>1. p \in Touches(d)
      BY <1>1, <1>2, HiddenKnown DEF RInv
    <2> QED
      BY <1>1, <2>1 DEF RInv, Undisturbed, Separate
  <1>3. CASE Hides(c, p)
    <2>1. (CHOOSE k \in Call : Hides(k, p)) = c
      BY <1>2, <1>3
    <2>2. \E k \in DOMAIN staged[c] : Hidden(c, k) /\ staged[c][k].path = p
      BY <1>3 DEF Hides
    <2> DEFINE k == CHOOSE k \in DOMAIN staged[c] : Hidden(c, k) /\ staged[c][k].path = p
    <2>3. k \in DOMAIN staged[c] /\ staged[c][k].path = p
      BY <2>2
    <2>4. k = i
      BY <1>1, <2>3
    <2>5. Visible(p) = staged[c][k].there
      BY <1>3, <2>1 DEF Visible
    <2> QED
      BY <2>4, <2>5
  <1>4. CASE ~Hides(c, p)
    <2>1. Visible(p) = disk[p]
      BY <1>2, <1>4 DEF Visible
    <2>2. ~Hidden(c, i)
      BY <1>4 DEF Hides
    <2>3. /\ pc[c] = "staging" => written[c] = 0 /\ strayed[c] = {}
          /\ pc[c] \in {"writing", "rollback"} => ~(i <= written[c]) /\ p \notin strayed[c]
      BY <2>2 DEF RInv, IInv, Bookkeeping, Progress, Undisturbed, Unstrayed, Hidden
    <2>4. i \in Nat \ {0}
      BY DEF RInv, IInv, TypeOK
    <2> QED
      BY <2>1, <2>3, <2>4 DEF RInv, IInv, WriteFrontier, Working
  <1> QED
    BY <1>3, <1>4

(* From outside, what is staged by nobody is what is on disk.              *)
LEMMA SeenHolds == RInv /\ alone => Seen
  <1> SUFFICES ASSUME RInv, alone, NEW p \in Path,
                      \A c \in Call : ~StagedAt(c, p)
               PROVE  Visible(p) = disk[p]
    BY SeenStaged, StagedTouched DEF Seen, RInv
  <1>1. \A c \in Call : ~Hides(c, p)
    BY HiddenKnown DEF RInv, StagedAt
  <1> QED
    BY <1>1 DEF Visible

(* The same after a step.                                                  *)
LEMMA SeenNext == RInv' /\ alone' => Seen'
  BY SeenHolds, PTL

-----------------------------------------------------------------------------
(* A step of one call, seen by the files it does not touch.                *)
LEMMA TreeOutside ==
  ASSUME Seen, Seen', NEW c \in Call, patch' = patch,
         \A d \in Call \ {c} : pc'[d] = pc[d] /\ staged'[d] = staged[d],
         NEW p \in Path \ Targets(patch[c]), disk'[p] = disk[p]
  PROVE  Visible(p)' = Visible(p)
  <1>1. ~StagedAt(c, p) /\ ~StagedAt(c, p)'
    BY DEF Seen, StagedAt, Targets, Target
  <1>2. CASE \E d \in Call : StagedAt(d, p)
    <2>1. PICK d \in Call : StagedAt(d, p)
      BY <1>2
    <2>2. PICK i \in DOMAIN staged[d] : pc[d] \in Working /\ staged[d][i].path = p
      BY <2>1 DEF StagedAt
    <2>3. pc'[d] = pc[d] /\ staged'[d] = staged[d]
      BY <1>1, <2>1
    <2> QED
      BY <2>2, <2>3 DEF Seen, Working
  <1>3. CASE \A d \in Call : ~StagedAt(d, p)
    <2>1. \A d \in Call : ~StagedAt(d, p)'
      BY <1>1, <1>3 DEF StagedAt, Working
    <2> QED
      BY <1>3, <2>1 DEF Seen
  <1> QED
    BY <1>2, <1>3

(* by its own files while it stages and when it has ended,                 *)
Unwritten ==
  \A c \in Call : pc[c] \in {"staging", "writing"} /\ written[c] = 0 =>
    \A p \in Path \cap Targets(patch[c]) : Visible(p) = disk[p]

(* Nothing of a call is written until it has staged all.                   *)
LEMMA TreeStaging == RInv /\ alone => Unwritten
  <1> SUFFICES ASSUME RInv, alone, NEW c \in Call, pc[c] \in {"staging", "writing"}, written[c] = 0,
                      NEW p \in Path \cap Targets(patch[c])
               PROVE  Visible(p) = disk[p]
    BY DEF Unwritten
  <1> USE SeenHolds
  <1>1. CASE StagedAt(c, p)
    <2>1. PICK i \in DOMAIN staged[c] : staged[c][i].path = p
      BY <1>1 DEF StagedAt
    <2>2. strayed[c] = {} /\ ~(i <= written[c])
      BY DEF RInv, Undisturbed, Unstrayed, IInv, TypeOK
    <2> QED
      BY <2>1, <2>2 DEF Seen, RInv, IInv, WriteFrontier, Working
  <1>2. CASE ~StagedAt(c, p)
    <2>1. ASSUME NEW d \in Call PROVE ~StagedAt(d, p)
      BY <1>2 DEF Seen, StagedAt, RInv, Undisturbed, Separate, Touches, Working
    <2> QED
      BY <2>1 DEF Seen
  <1> QED
    BY <1>1, <1>2

(* The same after a step.                                                  *)
LEMMA TreeStagingNext == RInv' /\ alone' => Unwritten'
  BY TreeStaging, PTL

(* When a call has ended, its files are seen as they are on disk.          *)
LEMMA TreeEnded ==
  ASSUME RInv, alone, Seen, Seen', NEW c \in Call, pc[c] \in Working, patch' = patch,
         \A d \in Call \ {c} : pc'[d] = pc[d] /\ staged'[d] = staged[d],
         pc'[c] \notin Working, NEW p \in Path \cap Targets(patch[c])
  PROVE  Visible(p)' = disk'[p]
  <1>1. ASSUME NEW d \in Call PROVE ~StagedAt(d, p)'
    <2>1. CASE d = c
      BY <2>1 DEF StagedAt, Working
    <2>2. CASE d # c
      <3>1. p \notin Touches(d)
        BY <2>2 DEF RInv, Undisturbed, Separate, Touches
      <3>2. ~StagedAt(d, p)
        BY <3>1 DEF Seen, StagedAt, Touches
      <3> QED
        BY <2>2, <3>2 DEF StagedAt, Working
    <2> QED
      BY <2>1, <2>2
  <1> QED
    BY <1>1 DEF Seen

(* A call that writes or rolls back has staged its whole patch.            *)
LEMMA AllStaged ==
  ASSUME RInv, alone, NEW c \in Call, pc[c] \in {"writing", "rollback"}
  PROVE  /\ DOMAIN staged[c] = DOMAIN patch[c]
         /\ \A p \in Targets(patch[c]) : \E i \in DOMAIN staged[c] : staged[c][i].path = p
         /\ strayed[c] \subseteq Targets(patch[c])
  <1>1. staged[c] \in Seq(Change) /\ patch[c] \in Seq(FilePatches)
    BY PatchesTyped DEF RInv, IInv, TypeOK
  <1>2. DOMAIN staged[c] = DOMAIN patch[c]
    BY <1>1 DEF RInv, Undisturbed, StagesEffects
  <1>3. \A i \in DOMAIN staged[c] :
          staged[c][i].path = Target(patch[c], i) /\ staged[c][i].path \in Targets(patch[c])
    BY StagedTouched DEF RInv
  <1> QED
    BY <1>2, <1>3 DEF Targets, RInv, Undisturbed, Unstrayed

(* When it goes on, they are seen as before.                               *)
LEMMA TreeWorking ==
  ASSUME RInv, alone, Seen, Seen', NEW c \in Call, pc[c] \in {"writing", "rollback"},
         pc'[c] \in Working, staged'[c] = staged[c], NEW p \in Path \cap Targets(patch[c])
  PROVE  Visible(p)' = Visible(p)
  <1>1. PICK i \in DOMAIN staged[c] : staged[c][i].path = p
    BY AllStaged
  <1>2. pc[c] \in Working
    BY DEF Working
  <1>3. Visible(p) = staged[c][i].there
    BY <1>1, <1>2 DEF Seen
  <1>4. Visible(p)' = staged[c][i].there
    BY <1>1 DEF Seen, Working
  <1> QED
    BY <1>3, <1>4

-----------------------------------------------------------------------------
(* How the state of one call shows in outcome, unread and lost.            *)
LEMMA CallMapped ==
  ASSUME TypeOK, TypeOK', NEW c \in Call, pc[c] \in Working,
         \A d \in Call \ {c} : pc'[d] = pc[d] /\ strayed'[d] = strayed[d] /\ unread'[d] = unread[d]
  PROVE  /\ pc'[c] \in Working => Outcome' = Outcome /\ Unread' = Unread /\ Lost' = Lost
         /\ pc'[c] \notin Working =>
              /\ Outcome' = [Outcome EXCEPT ![c] = pc'[c]]
              /\ Unread' = [Unread EXCEPT ![c] = unread'[c]]
              /\ Lost' = [Lost EXCEPT ![c] = strayed'[c]]
         /\ Outcome[c] = "running" /\ Lost[c] = {} /\ Lost = [Lost EXCEPT ![c] = {}]
  BY DEF TypeOK, Outcome, Unread, Lost, Working

(* The files a call has staged are accepted by the tree seen from outside, *)
(* less the ones the call could not read.                                  *)
LEMMA StagedAccepted ==
  ASSUME RInv, alone, NEW c \in Call, pc[c] \in Working, NEW i \in DOMAIN staged[c],
         NEW files, staged[c][i].path \in files <=> staged[c][i].path \in unread[c]
  PROVE  /\ Addressable(patch[c], i)
         /\ FileEffect(patch[c][i], TreeWithout(files)[Target(patch[c], i)]) = staged[c][i].after
         /\ staged[c][i].after # Refused
  <1>1. Addressable(patch[c], i)
    BY DEF RInv, IInv, Bookkeeping, StagesPatch
  <1>2. Target(patch[c], i) = staged[c][i].path /\ staged[c][i].path \in Path
    BY StagedTouched, StagedPaths DEF RInv, IInv
  <1>3. Tree[staged[c][i].path] = staged[c][i].there
    BY <1>2, SeenStaged DEF Tree
  <1>4. staged[c][i].before =
          IF staged[c][i].path \in unread[c] THEN Absent ELSE staged[c][i].there
    BY DEF RInv, IInv, Bookkeeping, ReadsTold
  <1>5. TreeWithout(files)[Target(patch[c], i)] = staged[c][i].before
    BY <1>2, <1>3, <1>4 DEF TreeWithout
  <1> QED
    BY <1>1, <1>5 DEF RInv, Undisturbed, StagesEffects

(* What a call could not read are files it names, and they exist.          *)
LEMMA UnreadExists ==
  ASSUME RInv, alone, NEW c \in Call, pc[c] \in Working
  PROVE  unread[c] \in SUBSET {p \in Targets(patch[c]) : Tree[p] # Absent}
  <1> SUFFICES ASSUME NEW p \in unread[c] PROVE p \in Targets(patch[c]) /\ Tree[p] # Absent
    OBVIOUS
  <1>1. PICK i \in DOMAIN staged[c] : staged[c][i].path = p
    BY DEF RInv, IInv, Bookkeeping, ReadsTold
  <1>2. p \in Targets(patch[c]) /\ p \in Path
    BY <1>1, StagedTouched, StagedPaths DEF RInv, IInv
  <1>3. Tree[p] = staged[c][i].there
    BY <1>1, <1>2, SeenStaged DEF Tree
  <1> QED
    BY <1>1, <1>2, <1>3 DEF RInv, IInv, Bookkeeping, ReadsTold

-----------------------------------------------------------------------------
(* Each step of the engine is one of AtomicPatch or stutters.              *)
Both == RInv /\ RInv' /\ alone /\ alone'

(* What is seen before and after a step.                                   *)
LEMMA BothSeen == Both => Seen /\ Seen' /\ Unwritten /\ Unwritten' /\ TypeOK /\ TypeOK'
  BY SeenHolds, SeenNext, TreeStaging, TreeStagingNext DEF Both, RInv, IInv

(* A call that began has staged nothing.                                   *)
LEMMA BeginImplements ==
  ASSUME Both, NEW c \in Call, NEW p \in Patch, NEW m \in {"apply", "preview"}, Begin(c, p, m)
  PROVE  Atomic!Submit(c, p)
  <1>1. TypeOK /\ pc[c] = "idle" /\ staged[c] = <<>> /\ strayed[c] = {} /\ unread[c] = {}
    BY DEF Both, RInv, IInv, Bookkeeping, Progress, ReadsTold, Undisturbed, Unstrayed, Begin
  <1>2. /\ patch' = [patch EXCEPT ![c] = p] /\ staged' = staged /\ strayed' = strayed /\ disk' = disk
        /\ unread' = unread
        /\ pc' = [pc EXCEPT ![c] = IF Sized(p) THEN "staging" ELSE "refused"]
    BY DEF Begin
  <1>3. ASSUME NEW q \in Path PROVE Visible(q)' = Visible(q)
    <2>1. ASSUME NEW d \in Call, NEW i \in DOMAIN staged[d] PROVE pc'[d] = pc[d]
      BY <1>1, <1>2 DEF TypeOK
    <2>2. ASSUME NEW d \in Call PROVE StagedAt(d, q)' <=> StagedAt(d, q)
      BY <1>2, <2>1 DEF StagedAt, Working
    <2>3. CASE \E d \in Call : StagedAt(d, q)
      BY <1>2, <2>1, <2>3, BothSeen DEF Seen, StagedAt, Working
    <2>4. CASE \A d \in Call : ~StagedAt(d, q)
      BY <1>2, <2>2, <2>4, BothSeen DEF Seen
    <2> QED
      BY <2>3, <2>4
  <1>4. Tree' = Tree
    BY <1>3 DEF Tree
  <1>5. /\ Outcome[c] = "idle"
        /\ Outcome' = [Outcome EXCEPT ![c] = IF Sized(p) THEN "running" ELSE "refused"]
        /\ Unread' = Unread /\ Lost' = Lost
    BY <1>1, <1>2 DEF TypeOK, Outcome, Unread, Lost, Working
  <1> QED
    BY <1>2, <1>4, <1>5 DEF Atomic!Submit, Tree, Outcome, Unread, Lost

(* Staging is seen by nobody; the last file of a preview shows what the    *)
(* whole patch would do.                                                   *)
LEMMA StageImplements ==
  ASSUME Both, NEW c \in Call, NEW seen \in Content, StageFile(c, seen)
  PROVE  \/ \E files \in SUBSET {p \in Targets(patch[c]) : Tree[p] # Absent} : Atomic!Show(c, files)
         \/ UNCHANGED Atomic!vars
  <1> DEFINE i == Turn(c)
             t == Target(patch[c], i)
  <1>1. /\ TypeOK /\ Bookkeeping /\ TypeOK' /\ pc[c] = "staging" /\ pc[c] \in Working
        /\ Stageable(c, seen) /\ ReadGives(c, seen)
        /\ written[c] = 0 /\ strayed[c] = {} /\ Sized(patch[c])
    BY DEF StageFile, Both, RInv, IInv, Bookkeeping, Progress, Undisturbed, Unstrayed, StagesEffects, Working
  <1>r. /\ t \in Path /\ \A d \in Call : d # c => unread'[d] = unread[d]
        /\ \/ unread'[c] = unread[c] /\ seen = disk[t]
           \/ unread'[c] = unread[c] \cup {t} /\ seen = Absent /\ disk[t] # Absent
    BY <1>1, StagedChangeTyped, ReadTyped
  <1>2. /\ patch' = patch /\ strayed' = strayed /\ disk' = disk /\ written' = written
        /\ pc' = [pc EXCEPT ![c] = AfterStaging(c)]
        /\ \A d \in Call \ {c} : pc'[d] = pc[d] /\ staged'[d] = staged[d]
    BY <1>1 DEF StageFile, TypeOK
  <1>3. pc'[c] = AfterStaging(c) /\ pc'[c] \in {"staging", "writing", "previewed"}
    BY <1>1, <1>2 DEF TypeOK, AfterStaging
  <1>4. ASSUME NEW p \in Path PROVE Visible(p)' = Visible(p)
    <2>1. CASE p \notin Targets(patch[c])
      BY <1>2, <2>1, BothSeen, TreeOutside
    <2>2. CASE p \in Targets(patch[c])
      <3>1. Visible(p) = disk[p]
        BY <1>1, <2>2, BothSeen DEF Unwritten
      <3>2. CASE pc'[c] \in {"staging", "writing"}
        BY <1>1, <1>2, <2>2, <3>1, <3>2, BothSeen DEF Unwritten, Targets, Target
      <3>3. CASE pc'[c] = "previewed"
        BY <1>1, <1>2, <2>2, <3>1, <3>3, BothSeen, TreeEnded DEF Both, Working
      <3> QED
        BY <1>3, <3>2, <3>3
    <2> QED
      BY <2>1, <2>2
  <1>5. Tree' = Tree
    BY <1>4 DEF Tree
  <1>6. CASE pc'[c] \in Working
    <2>1. Outcome' = Outcome /\ Unread' = Unread /\ Lost' = Lost
      BY <1>1, <1>2, <1>r, <1>6, CallMapped
    <2> QED
      BY <1>2, <1>5, <2>1 DEF Atomic!vars, Tree, Outcome, Unread, Lost
  <1>7. CASE pc'[c] = "previewed"
    <2>1. /\ Outcome[c] = "running" /\ Outcome' = [Outcome EXCEPT ![c] = "previewed"]
          /\ Unread' = [Unread EXCEPT ![c] = unread'[c]] /\ Lost' = Lost
      <3>1. pc'[c] \notin Working
        BY <1>7 DEF Working
      <3>2. /\ Outcome[c] = "running" /\ Outcome' = [Outcome EXCEPT ![c] = pc'[c]]
            /\ Unread' = [Unread EXCEPT ![c] = unread'[c]]
            /\ Lost = [Lost EXCEPT ![c] = {}] /\ Lost' = [Lost EXCEPT ![c] = strayed'[c]]
        BY <1>1, <1>2, <1>r, <3>1, CallMapped
      <3>3. strayed'[c] = {}
        BY <1>1, <1>2
      <3> QED
        BY <1>7, <3>2, <3>3
    <2>0. /\ i \in DOMAIN patch[c] /\ i = Len(staged[c]) + 1
          /\ t \in Path \cap Targets(patch[c]) /\ Tree[t] = disk[t]
          /\ \A j \in DOMAIN staged[c] : staged[c][j].path # t
      <3>1. /\ i \in DOMAIN patch[c] /\ i = Len(staged[c]) + 1
            /\ \A j \in DOMAIN staged[c] : staged[c][j].path # t
        BY <1>1, StagedChangeTyped
      <3>2. t \in Path \cap Targets(patch[c])
        BY <1>1, <1>r, <3>1 DEF Stageable, Addressable, Targets
      <3>3. Tree[t] = disk[t]
        BY <1>1, <3>2, BothSeen DEF Unwritten, Tree
      <3> QED
        BY <3>1, <3>2, <3>3
    <2>2. Accepts(patch[c], TreeWithout(unread'[c]))
      <3>1. ~(i < Len(patch[c]))
        BY <1>3, <1>7 DEF AfterStaging
      <3>2. patch[c] \in Seq(FilePatches) /\ staged[c] \in Seq(Change)
        BY <1>1, PatchesTyped DEF TypeOK
      <3>3. \A k \in DOMAIN patch[c] : k \in DOMAIN staged[c] \/ k = i
        BY <2>0, <3>1, <3>2
      <3>4. TreeWithout(unread'[c])[t] = seen
        <4>1. t \notin unread[c]
          BY <1>1, <2>0 DEF Bookkeeping, ReadsTold
        <4> QED
          BY <1>r, <2>0, <4>1 DEF TreeWithout
      <3>5. Addressable(patch[c], i) /\ FileEffect(patch[c][i], TreeWithout(unread'[c])[t]) # Refused
        BY <1>1, <3>4 DEF Stageable
      <3>6. ASSUME NEW k \in DOMAIN staged[c]
            PROVE  /\ Addressable(patch[c], k)
                   /\ FileEffect(patch[c][k], TreeWithout(unread'[c])[Target(patch[c], k)]) # Refused
        <4>1. staged[c][k].path \in unread'[c] <=> staged[c][k].path \in unread[c]
          BY <1>r, <2>0
        <4> HIDE DEF i, t
        <4> QED
          BY <1>1, <4>1, StagedAccepted DEF Both
      <3> HIDE DEF i
      <3> QED
        BY <1>1, <3>3, <3>5, <3>6 DEF Accepts
    <2>3. unread'[c] \in SUBSET {p \in Targets(patch[c]) : Tree[p] # Absent}
      BY <1>1, <1>r, <2>0, UnreadExists DEF Both
    <2>4. Atomic!Show(c, unread'[c])
      BY <1>2, <1>5, <2>1, <2>2 DEF Atomic!Show, Atomic!Ends, Atomic!Without, TreeWithout, Tree, Outcome, Unread, Lost
    <2> QED
      BY <2>3, <2>4
  <1> QED
    BY <1>3, <1>6, <1>7 DEF Working

(* A file that cannot be staged means a patch that is not accepted.        *)
LEMMA RefuseImplements ==
  ASSUME Both, NEW c \in Call, NEW seen \in Content, RefuseFile(c, seen)
  PROVE  \E files \in SUBSET {p \in Targets(patch[c]) : Tree[p] # Absent} : Atomic!Refuse(c, files)
  <1> DEFINE i == Turn(c)
             t == Target(patch[c], i)
  <1>1. /\ TypeOK /\ Bookkeeping /\ TypeOK' /\ pc[c] = "staging" /\ pc[c] \in Working
        /\ ~Stageable(c, seen) /\ written[c] = 0 /\ strayed[c] = {}
    BY DEF RefuseFile, Both, RInv, IInv, Bookkeeping, Progress, Undisturbed, Unstrayed, Working
  <1>2. /\ patch' = patch /\ strayed' = strayed /\ disk' = disk /\ staged' = staged
        /\ pc' = [pc EXCEPT ![c] = "refused"]
    BY <1>1 DEF RefuseFile
  <1>3. pc'[c] = "refused" /\ pc'[c] \notin Working /\ \A d \in Call \ {c} : pc'[d] = pc[d]
    BY <1>1, <1>2 DEF TypeOK, Working
  <1>4. ASSUME NEW p \in Path PROVE Visible(p)' = Visible(p)
    <2>1. CASE p \notin Targets(patch[c])
      BY <1>2, <1>3, <2>1, BothSeen, TreeOutside
    <2>2. CASE p \in Targets(patch[c])
      <3>1. Visible(p) = disk[p]
        BY <1>1, <2>2, BothSeen DEF Unwritten
      <3>2. Visible(p)' = disk'[p]
        BY <1>1, <1>2, <1>3, <2>2, BothSeen, TreeEnded DEF Both
      <3> QED
        BY <1>2, <3>1, <3>2
    <2> QED
      BY <2>1, <2>2
  <1>5. Tree' = Tree
    BY <1>4 DEF Tree
  <1>i. i \in DOMAIN patch[c]
    <2>1. patch[c] \in Seq(FilePatches) /\ staged[c] \in Seq(Change)
      BY <1>1, PatchesTyped DEF TypeOK
    <2> QED
      BY <1>1, <2>1 DEF Turn, Bookkeeping, Progress
  <1>t. ASSUME Addressable(patch[c], i)
        PROVE  /\ t \in Path \cap Targets(patch[c]) /\ Tree[t] = disk[t] /\ t \notin unread[c]
               /\ \A d \in Call : d # c => unread'[d] = unread[d]
               /\ \/ unread'[c] = unread[c] /\ seen = disk[t]
                  \/ unread'[c] = unread[c] \cup {t} /\ seen = Absent /\ disk[t] # Absent
    <2>1. t \in Path \cap Targets(patch[c])
      BY <1>1, <1>i, <1>t, NextTargetTyped DEF Addressable, Targets
    <2>2. Tree[t] = disk[t]
      BY <1>1, <2>1, BothSeen DEF Unwritten, Tree
    <2>3. t \notin unread[c]
      <3>1. \A j \in DOMAIN staged[c] : staged[c][j].path # t
        BY <1>1, <1>t, FreshTarget
      <3> QED
        BY <1>1, <3>1 DEF Bookkeeping, ReadsTold
    <2>4. ReadGives(c, seen)
      BY <1>t DEF RefuseFile
    <2> QED
      BY <1>1, <2>1, <2>2, <2>3, <2>4, ReadTyped
  <1>u. ASSUME ~Addressable(patch[c], i) PROVE unread' = unread
    BY <1>u DEF RefuseFile
  <1>6. /\ Outcome[c] = "running" /\ Outcome' = [Outcome EXCEPT ![c] = "refused"]
        /\ Unread' = [Unread EXCEPT ![c] = unread'[c]] /\ Lost' = Lost
    <2>1. \A d \in Call \ {c} : unread'[d] = unread[d]
      BY <1>t, <1>u
    <2>2. /\ Outcome[c] = "running" /\ Outcome' = [Outcome EXCEPT ![c] = pc'[c]]
          /\ Unread' = [Unread EXCEPT ![c] = unread'[c]]
          /\ Lost = [Lost EXCEPT ![c] = {}] /\ Lost' = [Lost EXCEPT ![c] = strayed'[c]]
      BY <1>1, <1>2, <1>3, <2>1, CallMapped
    <2>3. strayed'[c] = {}
      BY <1>1, <1>2
    <2> QED
      BY <1>3, <2>2, <2>3
  <1>7. ~Accepts(patch[c], TreeWithout(unread'[c]))
    <2>2. CASE ~Addressable(patch[c], i)
      BY <1>i, <2>2 DEF Accepts
    <2>3. CASE Addressable(patch[c], i)
      <3>1. TreeWithout(unread'[c])[t] = seen
        BY <1>t, <2>3 DEF TreeWithout
      <3>2. FileEffect(patch[c][i], seen) = Refused
        BY <1>1, <2>3 DEF Stageable
      <3> QED
        BY <1>i, <3>1, <3>2 DEF Accepts
    <2> QED
      BY <2>2, <2>3
  <1>8. unread'[c] \in SUBSET {p \in Targets(patch[c]) : Tree[p] # Absent}
    <2>1. unread[c] \in SUBSET {p \in Targets(patch[c]) : Tree[p] # Absent}
      BY <1>1, UnreadExists DEF Both
    <2>2. CASE Addressable(patch[c], i)
      BY <1>t, <2>1, <2>2
    <2>3. CASE ~Addressable(patch[c], i)
      BY <1>u, <2>1, <2>3
    <2> QED
      BY <2>2, <2>3
  <1>9. Atomic!Refuse(c, unread'[c])
    BY <1>2, <1>5, <1>6, <1>7
       DEF Atomic!Refuse, Atomic!Ends, Atomic!Without, TreeWithout, Tree, Outcome, Unread, Lost
  <1> QED
    BY <1>8, <1>9

(* While a call goes on writing or restoring nothing is seen of it; when   *)
(* it fails, every file but the ones it lost is what it was staged from.   *)
LEMMA WorkingStutters ==
  ASSUME Both, NEW c \in Call, pc[c] \in {"writing", "rollback"}, pc'[c] \in Working,
         patch' = patch, staged' = staged,
         \A d \in Call \ {c} : pc'[d] = pc[d] /\ strayed'[d] = strayed[d], unread' = unread,
         \A p \in Path \ Targets(patch[c]) : disk'[p] = disk[p]
  PROVE  UNCHANGED Atomic!vars
  <1>1. ASSUME NEW p \in Path PROVE Visible(p)' = Visible(p)
    <2>1. CASE p \notin Targets(patch[c])
      BY <2>1, BothSeen, TreeOutside
    <2>2. CASE p \in Targets(patch[c])
      BY <2>2, BothSeen, TreeWorking DEF Both
    <2> QED
      BY <2>1, <2>2
  <1>2. Tree' = Tree
    BY <1>1 DEF Tree
  <1>3. Outcome' = Outcome /\ Unread' = Unread /\ Lost' = Lost
    BY CallMapped, BothSeen DEF Working
  <1> QED
    BY <1>2, <1>3 DEF Atomic!vars, Tree, Outcome, Unread, Lost

(* A call that fails lost the files that strayed, and no other.            *)
FailSeen(c) ==
  \E files \in SUBSET {p \in Targets(patch[c]) : Tree[p] # Absent} :
    \E gone \in SUBSET Targets(patch[c]) : Atomic!Fail(c, files, gone)

LEMMA FailureImplements ==
  ASSUME Both, NEW c \in Call, pc[c] \in {"writing", "rollback"}, pc'[c] = "failed",
         patch' = patch, staged' = staged,
         \A d \in Call \ {c} : pc'[d] = pc[d] /\ strayed'[d] = strayed[d], unread' = unread,
         \A p \in Path \ Targets(patch[c]) : disk'[p] = disk[p],
         strayed'[c] \subseteq Targets(patch[c]),
         \A i \in DOMAIN staged[c] :
           staged[c][i].path \in strayed'[c] \/ disk'[staged[c][i].path] = staged[c][i].there
  PROVE  FailSeen(c)
  <1>1. pc[c] \in Working /\ pc'[c] \notin Working
    BY DEF Working
  <1>2. ASSUME NEW p \in Path \ strayed'[c] PROVE Visible(p)' = Visible(p)
    <2>1. CASE p \notin Targets(patch[c])
      BY <2>1, BothSeen, TreeOutside
    <2>2. CASE p \in Targets(patch[c])
      <3>1. PICK i \in DOMAIN staged[c] : staged[c][i].path = p
        BY <2>2, AllStaged DEF Both
      <3>2. Visible(p) = staged[c][i].there
        BY <1>1, <3>1, BothSeen DEF Seen
      <3>3. Visible(p)' = disk'[p]
        BY <1>1, <2>2, BothSeen, TreeEnded DEF Both
      <3> QED
        BY <1>2, <3>1, <3>2, <3>3
    <2> QED
      BY <2>1, <2>2
  <1>3. Tree' = [p \in Path |-> IF p \in strayed'[c] THEN Tree'[p] ELSE Tree[p]]
    BY <1>2 DEF Tree
  <1>4. /\ Outcome[c] = "running" /\ Outcome' = [Outcome EXCEPT ![c] = "failed"]
        /\ Unread' = [Unread EXCEPT ![c] = unread[c]]
        /\ Lost' = [Lost EXCEPT ![c] = strayed'[c]]
    BY <1>1, CallMapped, BothSeen
  <1>5. unread[c] \in SUBSET {p \in Targets(patch[c]) : Tree[p] # Absent}
    BY <1>1, UnreadExists DEF Both
  <1>6. PICK files \in SUBSET {p \in Targets(patch[c]) : Tree[p] # Absent} : files = unread[c]
    BY <1>5
  <1>7. PICK gone \in SUBSET Targets(patch[c]) : gone = strayed'[c]
    OBVIOUS
  <1>8. Atomic!Fail(c, files, gone)
    BY <1>3, <1>4, <1>6, <1>7 DEF Atomic!Fail, Atomic!Ends, Tree, Outcome, Unread, Lost
  <1> QED
    BY <1>8 DEF FailSeen

(* The last write makes the tree what the patch asks for.                  *)
LEMMA WriteImplements ==
  ASSUME Both, NEW c \in Call, WriteFile(c)
  PROVE  \/ \E files \in SUBSET {p \in Targets(patch[c]) : Tree[p] # Absent} : Atomic!Commit(c, files)
         \/ UNCHANGED Atomic!vars
  <1> DEFINE n == written[c] + 1
             q == staged[c][n].path
  <1>1. IInv /\ TypeOK /\ pc[c] = "writing" /\ pc[c] \in Working /\ strayed[c] = {} /\ Separate
    BY DEF WriteFile, Both, RInv, IInv, Undisturbed, Unstrayed, Working
  <1>2. n \in DOMAIN staged[c] /\ NextWrite(c) = staged[c][n]
    BY <1>1 DEF TypeOK, IInv, Bookkeeping, Progress, NextWrite
  <1>3. q \in Path \cap Targets(patch[c])
    BY <1>1, <1>2, StagedTouched, StagedPaths DEF IInv
  <1>4. /\ disk' = [disk EXCEPT ![q] = staged[c][n].after]
        /\ strayed' = [Stray(q, Call \ {c}) EXCEPT ![c] = @ \ {q}]
        /\ pc' = [pc EXCEPT ![c] = AfterWrite(c)]
        /\ patch' = patch /\ staged' = staged /\ unread' = unread
    BY <1>2 DEF WriteFile
  <1>5. \A d \in Call : strayed'[d] = strayed[d]
    <2>1. \A d \in Call : Stray(q, Call \ {c})[d] = strayed[d]
      BY <1>1, <1>3, OthersUnstrayed
    <2>2. Stray(q, Call \ {c}) \in [Call -> SUBSET Path]
      BY <1>1, <1>3, StrayTyped
    <2> HIDE DEF q
    <2> QED
      BY <1>1, <1>4, <2>1, <2>2
  <1>6. /\ pc'[c] = AfterWrite(c) /\ \A d \in Call \ {c} : pc'[d] = pc[d]
        /\ disk'[q] = staged[c][n].after /\ \A p \in Path : p # q => disk'[p] = disk[p]
    BY <1>1, <1>3, <1>4 DEF TypeOK
  <1>7. CASE n < Len(staged[c])
    <2>1. pc'[c] \in Working
      BY <1>6, <1>7 DEF AfterWrite, Working
    <2> HIDE DEF q
    <2> QED
      BY <1>1, <1>3, <1>4, <1>5, <1>6, <2>1, WorkingStutters
  <1>8. CASE ~(n < Len(staged[c]))
    <2>1. pc'[c] = "applied" /\ pc'[c] \notin Working
      BY <1>6, <1>8 DEF AfterWrite, Working
    <2>2. /\ Outcome[c] = "running" /\ Outcome' = [Outcome EXCEPT ![c] = "applied"] /\ Lost' = Lost
          /\ Unread' = [Unread EXCEPT ![c] = unread[c]]
      <3>1. /\ Outcome[c] = "running" /\ Outcome' = [Outcome EXCEPT ![c] = pc'[c]]
            /\ Unread' = [Unread EXCEPT ![c] = unread[c]]
            /\ Lost = [Lost EXCEPT ![c] = {}] /\ Lost' = [Lost EXCEPT ![c] = strayed'[c]]
        BY <1>1, <1>4, <1>5, <1>6, <2>1, CallMapped, BothSeen
      <3>2. strayed'[c] = {}
        BY <1>1, <1>5
      <3> QED
        BY <2>1, <3>1, <3>2
    <2>3. DOMAIN staged[c] = DOMAIN patch[c] /\ Sized(patch[c])
      BY <1>1, AllStaged DEF Both, RInv, Undisturbed, StagesEffects
    <2>4. Accepts(patch[c], TreeWithout(unread[c]))
      BY <1>1, <2>3, StagedAccepted DEF Accepts, Both
    <2>5. \A i \in DOMAIN staged[c] : i <= n
      BY <1>1, <1>2, <1>8 DEF TypeOK
    <2>6. ASSUME NEW i \in DOMAIN staged[c] PROVE disk'[staged[c][i].path] = staged[c][i].after
      <3>1. CASE i = n
        BY <1>6, <3>1
      <3>2. CASE i # n
        <4>1. i <= written[c]
          BY <1>1, <2>5, <3>2 DEF TypeOK
        <4>2. disk[staged[c][i].path] = staged[c][i].after
          BY <1>1, <4>1 DEF IInv, WriteFrontier
        <4>3. staged[c][i].path # q /\ staged[c][i].path \in Path
          BY <1>1, <1>2, <3>2, StagedPaths DEF IInv
        <4> QED
          BY <1>6, <4>2, <4>3
      <3> QED
        BY <3>1, <3>2
    <2>7. ASSUME NEW p \in Path PROVE Visible(p)' = Patched(patch[c], TreeWithout(unread[c]))[p]
      <3>1. CASE p \notin Targets(patch[c])
        <4>1. Visible(p)' = Visible(p)
          BY <1>3, <1>4, <1>6, <3>1, BothSeen, TreeOutside
        <4>2. ~ \E i \in DOMAIN patch[c] : Target(patch[c], i) = p
          BY <3>1, PatchAssumption DEF Targets
        <4>3. p \notin unread[c]
          BY <1>1, <3>1, UnreadExists DEF Both
        <4> QED
          BY <4>1, <4>2, <4>3 DEF Patched, TreeWithout, Tree
      <3>2. CASE p \in Targets(patch[c])
        <4>1. Visible(p)' = disk'[p]
          BY <1>1, <1>4, <1>6, <2>1, <3>2, BothSeen, TreeEnded DEF Both
        <4>2. \E i \in DOMAIN patch[c] : Target(patch[c], i) = p
          BY <3>2 DEF Targets
        <4> DEFINE k == CHOOSE i \in DOMAIN patch[c] : Target(patch[c], i) = p
        <4>3. k \in DOMAIN patch[c] /\ Target(patch[c], k) = p
          BY <4>2
        <4>4. Patched(patch[c], TreeWithout(unread[c]))[p] = FileEffect(patch[c][k], TreeWithout(unread[c])[p])
          BY <4>2 DEF Patched
        <4> HIDE DEF k
        <4>5. FileEffect(patch[c][k], TreeWithout(unread[c])[p]) = staged[c][k].after
          BY <1>1, <2>3, <4>3, StagedAccepted DEF Both
        <4>6. staged[c][k].path = p
          BY <1>1, <2>3, <4>3, StagedTouched
        <4> QED
          BY <2>3, <2>6, <4>1, <4>3, <4>4, <4>5, <4>6
      <3> QED
        BY <3>1, <3>2
    <2>8. Tree' = Patched(patch[c], TreeWithout(unread[c]))
      BY <2>7 DEF Tree, Patched
    <2>9. unread[c] \in SUBSET {p \in Targets(patch[c]) : Tree[p] # Absent}
      BY <1>1, UnreadExists DEF Both
    <2>10. Atomic!Commit(c, unread[c])
      BY <1>4, <2>2, <2>4, <2>8
         DEF Atomic!Commit, Atomic!Ends, Atomic!Without, TreeWithout, Tree, Outcome, Unread, Lost
    <2> QED
      BY <2>9, <2>10
  <1> QED
    BY <1>7, <1>8

(* With nothing written yet a failing write ends the call, otherwise it is *)
(* seen when all is restored.                                              *)
LEMMA WriteFailsImplements ==
  ASSUME Both, NEW c \in Call, NEW damage \in Damage, WriteFails(c, damage)
  PROVE  FailSeen(c) \/ UNCHANGED Atomic!vars
  <1> DEFINE n == written[c] + 1
             q == staged[c][n].path
  <1>1. IInv /\ TypeOK /\ pc[c] = "writing" /\ pc[c] \in Working /\ strayed[c] = {} /\ Separate
    BY DEF WriteFails, Both, RInv, IInv, Undisturbed, Unstrayed, Working
  <1>2. n \in DOMAIN staged[c] /\ NextWrite(c) = staged[c][n]
    BY <1>1 DEF TypeOK, IInv, Bookkeeping, Progress, NextWrite
  <1>3. q \in Path \cap Targets(patch[c])
    BY <1>1, <1>2, StagedTouched, StagedPaths DEF IInv
  <1>4. /\ \/ disk' = disk /\ strayed' = strayed
           \/ disk' = [disk EXCEPT ![q] = <<>>] /\ strayed' = Stray(q, Call)
        /\ pc' = [pc EXCEPT ![c] = AfterFailure(c)]
        /\ patch' = patch /\ staged' = staged /\ unread' = unread
    BY <1>2 DEF WriteFails
  <1>5. \A d \in Call \ {c} : strayed'[d] = strayed[d]
    BY <1>1, <1>3, <1>4, OthersUnstrayed
  <1>6. /\ pc'[c] = AfterFailure(c) /\ \A d \in Call \ {c} : pc'[d] = pc[d]
        /\ \A p \in Path : p # q => disk'[p] = disk[p]
    BY <1>1, <1>3, <1>4 DEF TypeOK
  <1>7. /\ strayed'[c] \subseteq {q} /\ (q \in strayed'[c] \/ disk' = disk)
    BY <1>1, <1>2, <1>3, <1>4, StrayMarks
  <1>8. CASE written[c] = 0
    <2>1. pc'[c] = "failed"
      BY <1>6, <1>8 DEF AfterFailure
    <2>2. ASSUME NEW i \in DOMAIN staged[c]
          PROVE  staged[c][i].path \in strayed'[c] \/ disk'[staged[c][i].path] = staged[c][i].there
      <3>1. ~(i <= written[c])
        BY <1>1, <1>8 DEF TypeOK
      <3>2. disk[staged[c][i].path] = staged[c][i].there
        BY <1>1, <3>1 DEF IInv, WriteFrontier
      <3>3. staged[c][i].path \in Path
        BY <1>1, StagedPaths DEF IInv
      <3> QED
        BY <1>6, <1>7, <3>2, <3>3
    <2> HIDE DEF q
    <2> QED
      BY <1>1, <1>3, <1>4, <1>5, <1>6, <1>7, <2>1, <2>2, FailureImplements
  <1>9. CASE written[c] # 0
    <2>1. pc'[c] \in Working
      BY <1>6, <1>9 DEF AfterFailure, Working
    <2> HIDE DEF q
    <2> QED
      BY <1>1, <1>3, <1>4, <1>5, <1>6, <2>1, WorkingStutters
  <1> QED
    BY <1>8, <1>9

(* The last restore, or its failure, ends the call.                        *)
LEMMA RestoreImplements ==
  ASSUME Both, NEW c \in Call, RestoreFile(c) \/ RestoreFails(c)
  PROVE  FailSeen(c) \/ UNCHANGED Atomic!vars
  <1> DEFINE n == written[c]
             q == staged[c][n].path
  <1>1. IInv /\ TypeOK /\ pc[c] = "rollback" /\ pc[c] \in Working /\ Separate
    BY DEF RestoreFile, RestoreFails, Both, RInv, IInv, Undisturbed, Working
  <1>2. n \in DOMAIN staged[c] /\ LastWrite(c) = staged[c][n]
    BY <1>1 DEF TypeOK, IInv, Bookkeeping, Progress, LastWrite
  <1>3. q \in Path \cap Targets(patch[c])
    BY <1>1, <1>2, StagedTouched, StagedPaths DEF IInv
  <1>4. /\ \/ disk' = [disk EXCEPT ![q] = staged[c][n].before]
              /\ strayed' = [Stray(q, Call \ {c}) EXCEPT ![c] = IF q \in unread[c] THEN @ \cup {q} ELSE @ \ {q}]
           \/ disk' = disk /\ strayed' = [strayed EXCEPT ![c] = @ \cup {q}]
        /\ pc' = [pc EXCEPT ![c] = AfterRestore(c)]
        /\ patch' = patch /\ staged' = staged /\ unread' = unread
    <2>1. CASE RestoreFile(c)
      BY <1>2, <2>1 DEF RestoreFile
    <2>2. CASE RestoreFails(c)
      BY <1>2, <2>2 DEF RestoreFails
    <2> QED
      BY <2>1, <2>2
  <1>5. /\ \A d \in Call \ {c} : strayed'[d] = strayed[d]
        /\ strayed[c] \ {q} \subseteq strayed'[c] /\ strayed'[c] \subseteq strayed[c] \cup {q}
        /\ q \in strayed'[c] \/ disk'[q] = staged[c][n].there
    <2>1. \A d \in Call : Stray(q, Call \ {c})[d] = strayed[d]
      BY <1>1, <1>3, OthersUnstrayed
    <2>2. Stray(q, Call \ {c}) \in [Call -> SUBSET Path] /\ strayed \in [Call -> SUBSET Path]
      BY <1>1, <1>3, StrayTyped DEF TypeOK
    <2>3. q \in Path /\ disk \in [Path -> Content]
      BY <1>1, <1>3 DEF TypeOK
    <2>4. q \notin unread[c] => staged[c][n].before = staged[c][n].there
      BY <1>1, <1>2 DEF IInv, WriteFrontier
    <2> DEFINE was == staged[c][n].before
               held == staged[c][n].there
               others == Stray(q, Call \ {c})
    <2>5. \/ disk' = [disk EXCEPT ![q] = was] /\ strayed' = [others EXCEPT ![c] = @ \ {q}] /\ was = held
          \/ strayed' = [others EXCEPT ![c] = @ \cup {q}]
          \/ strayed' = [strayed EXCEPT ![c] = @ \cup {q}]
      <3>1. CASE q \in unread[c]
        BY ONLY <1>4, <3>1
      <3>2. CASE q \notin unread[c]
        BY ONLY <1>4, <2>4, <3>2
      <3> QED
        BY <3>1, <3>2
    <2> HIDE DEF q, was, held, others
    <2>6. \A d \in Call \ {c} : strayed'[d] = strayed[d]
      BY <2>1, <2>2, <2>5 DEF others
    <2>7. strayed[c] \ {q} \subseteq strayed'[c] /\ strayed'[c] \subseteq strayed[c] \cup {q}
      BY <2>1, <2>2, <2>5 DEF others
    <2>8. q \in strayed'[c] \/ disk'[q] = held
      BY <2>2, <2>3, <2>5 DEF others
    <2> QED
      BY <2>6, <2>7, <2>8 DEF held
  <1>6. /\ pc'[c] = AfterRestore(c) /\ \A d \in Call \ {c} : pc'[d] = pc[d]
        /\ \A p \in Path : p # q => disk'[p] = disk[p]
    BY <1>1, <1>3, <1>4 DEF TypeOK
  <1>7. CASE written[c] = 1
    <2>1. pc'[c] = "failed"
      BY <1>6, <1>7 DEF AfterRestore
    <2>2. ASSUME NEW i \in DOMAIN staged[c]
          PROVE  staged[c][i].path \in strayed'[c] \/ disk'[staged[c][i].path] = staged[c][i].there
      <3>1. CASE i = n
        BY <1>5, <3>1
      <3>2. CASE i # n
        <4>1. ~(i <= written[c])
          BY <1>1, <1>7, <3>2 DEF TypeOK
        <4>2. staged[c][i].path # q /\ staged[c][i].path \in Path
          BY <1>1, <1>2, <3>2, StagedPaths DEF IInv
        <4>3. staged[c][i].path \in strayed[c] \/ disk[staged[c][i].path] = staged[c][i].there
          BY <1>1, <4>1 DEF IInv, WriteFrontier
        <4> HIDE DEF q
        <4> QED
          BY <1>5, <1>6, <4>2, <4>3
      <3> QED
        BY <3>1, <3>2
    <2>3. strayed'[c] \subseteq Targets(patch[c])
      BY <1>1, <1>3, <1>5, AllStaged DEF Both
    <2> HIDE DEF q
    <2> QED
      BY <1>1, <1>3, <1>4, <1>5, <1>6, <2>1, <2>2, <2>3, FailureImplements
  <1>8. CASE written[c] # 1
    <2>1. pc'[c] \in Working
      BY <1>6, <1>8 DEF AfterRestore, Working
    <2> HIDE DEF q
    <2> QED
      BY <1>1, <1>3, <1>4, <1>5, <1>6, <2>1, WorkingStutters
  <1> QED
    BY <1>7, <1>8

(* The editor saves a file no call has to itself.                          *)
LEMMA SaveImplements ==
  ASSUME Both, NEW p \in Path, NEW text \in Edited \cup {Absent}, Save(p, text)
  PROVE  Atomic!Save(p, text)
  <1>1. /\ TypeOK /\ p \notin InFlight /\ disk' = [disk EXCEPT ![p] = text]
        /\ pc' = pc /\ patch' = patch /\ staged' = staged /\ unread' = unread
        /\ strayed' = Stray(p, Call)
    BY DEF Save, Both, RInv, IInv
  <1>2. \A c \in Call : strayed'[c] = strayed[c]
    BY <1>1, StagedTouched DEF Stray, InFlight, Touches, Both, RInv
  <1>3. \A q \in Path, c \in Call : StagedAt(c, q)' <=> StagedAt(c, q)
    BY <1>1 DEF StagedAt, Working
  <1>4. \A c \in Call : ~StagedAt(c, p)
    BY <1>1, BothSeen DEF Seen, StagedAt, InFlight, Touches
  <1>5. Visible(p)' = text
    BY <1>1, <1>3, <1>4, BothSeen DEF Seen, TypeOK
  <1>6. ASSUME NEW q \in Path \ {p} PROVE Visible(q)' = Visible(q)
    <2>1. CASE \E c \in Call : StagedAt(c, q)
      BY <1>1, <2>1, BothSeen DEF Seen, StagedAt, Working
    <2>2. CASE \A c \in Call : ~StagedAt(c, q)
      BY <1>1, <1>3, <2>2, BothSeen DEF Seen
    <2> QED
      BY <2>1, <2>2
  <1>7. Tree' = [Tree EXCEPT ![p] = text]
    BY <1>5, <1>6 DEF Tree
  <1>8. Outcome' = Outcome /\ Unread' = Unread /\ Lost' = Lost
    BY <1>1, <1>2 DEF Outcome, Unread, Lost, Working
  <1> QED
    BY <1>1, <1>7, <1>8 DEF Atomic!Save, Tree, Outcome, Unread, Lost

(* Every step maps to a step or a stutter,                                 *)
LEMMA NextImplements ==
  ASSUME RInv, RInv', [Next]_vars, alone
  PROVE  Atomic!Next \/ UNCHANGED Atomic!vars
  <1> alone'
    BY DEF Next, CallStep, Begin, StageFile, RefuseFile, WriteFile, WriteFails, RestoreFile, RestoreFails,
           Save, vars
  <1> Both
    BY DEF Both
  <1>1. ASSUME NEW c \in Call, NEW p \in Patch, NEW m \in {"apply", "preview"}, Begin(c, p, m)
        PROVE  Atomic!Next
    BY <1>1, BeginImplements DEF Atomic!Next
  <1>2. ASSUME NEW c \in Call, CallStep(c)
        PROVE  Atomic!Next \/ UNCHANGED Atomic!vars
    BY <1>2, StageImplements, RefuseImplements, WriteImplements, WriteFailsImplements, RestoreImplements
       DEF CallStep, Atomic!Next, FailSeen, Tree
  <1>3. ASSUME NEW p \in Path, NEW text \in Edited \cup {Absent}, Save(p, text)
        PROVE  Atomic!Next
    BY <1>3, SaveImplements DEF Atomic!Next
  <1>4. CASE UNCHANGED vars
    BY <1>4 DEF vars, Atomic!vars, Visible, Hides, Hidden
  <1> QED
    BY <1>1, <1>2, <1>3, <1>4 DEF Next

(* the initial states to initial states.                                   *)
LEMMA InitImplements == Init => Atomic!Init
  <1> SUFFICES ASSUME Init PROVE Atomic!Init
    OBVIOUS
  <1>1. \A p \in Path : Visible(p) = disk[p]
    BY DEF Init, Visible, Hides, Hidden
  <1> QED
    BY <1>1 DEF Init, Atomic!Init, Working

(* The invariant the mapping rests on.                                     *)
LEMMA RInvariance == Spec => []RInv
  <1>1. Init => RInv
    BY InitTypeOK DEF Init, RInv, IInv, Bookkeeping, StagesPatch, Progress, ReadsTold, WriteFrontier, Working,
       Undisturbed, Separate, Touches, Unstrayed, StagesEffects
  <1>2. RInv /\ [Next]_vars => RInv'
    BY NextTypeOK, NextBookkeeping, NextWriteFrontier, NextUndisturbed DEF RInv, IInv
  <1> QED
    BY <1>1, <1>2, PTL DEF Spec

(* patch.ts promises that a patch is applied as a whole or not at all: the *)
(* engine, await by await and with whatever fails, does to the files of a  *)
(* call that has them to itself what AtomicPatch does in one step.         *)
THEOREM EngineIsAtomic == Spec => ImplementsAtomicPatch
  <1>1. RInv /\ RInv' /\ [Next]_vars => [alone => Atomic!Next \/ UNCHANGED Atomic!vars]_vars
    BY NextImplements
  <1> QED
    BY InitImplements, RInvariance, <1>1, PTL DEF Spec, ImplementsAtomicPatch

-----------------------------------------------------------------------------
(* The life of a unified diff.                                             *)

(* Induction over the natural numbers and over sequences, in a form whose  *)
(* hypothesis is a set.                                                    *)
LEMMA Induction ==
  ASSUME NEW S, 0 \in S, \A n \in Nat : n \in S => n + 1 \in S
  PROVE  Nat \subseteq S
  <1> DEFINE T == {n \in Nat : n \notin S}
  <1>1. SUFFICES ASSUME T # {} PROVE FALSE
    OBVIOUS
  <1> HIDE DEF T
  <1>2. T \subseteq Nat
    BY DEF T
  <1>3. PICK m \in T : \A k \in T : ~ (<<k, m>> \in OpToRel(<, Nat))
    BY ONLY <1>1, <1>2, NatLessThanWellFounded, WFMin, Zenon
  <1>4. m \in Nat /\ m # 0 /\ m \notin S
    BY <1>3, <1>2 DEF T
  <1>5. m - 1 \in Nat /\ m - 1 < m
    BY <1>4
  <1>6. m - 1 \notin T
    BY <1>3, <1>4, <1>5, Zenon DEF OpToRel
  <1> QED
    BY <1>4, <1>5, <1>6 DEF T

(* Every sequence is in a set that holds the empty one and is closed under *)
(* Append.                                                                 *)
LEMMA SequenceInduction ==
  ASSUME NEW A, NEW T, <<>> \in T,
         \A s \in Seq(A), x \in A : s \in T => Append(s, x) \in T
  PROVE  Seq(A) \subseteq T
  <1> DEFINE S == {n \in Nat : \A s \in Seq(A) : Len(s) = n => s \in T}
  <1>1. 0 \in S
    BY EmptySeq
  <1>2. ASSUME NEW n \in Nat, n \in S
        PROVE  n + 1 \in S
    <2> SUFFICES ASSUME NEW s \in Seq(A), Len(s) = n + 1
                 PROVE  s \in T
      OBVIOUS
    <2>1. s # <<>>
      OBVIOUS
    <2>2. PICK t \in Seq(A), x \in A : s = Append(t, x)
      BY <2>1, SequenceEmptyOrAppend
    <2>3. Len(t) = n
      BY <2>2
    <2> QED
      BY <1>2, <2>2, <2>3
  <1> HIDE DEF S
  <1>3. Nat \subseteq S
    BY <1>1, <1>2, Induction
  <1> QED
    BY <1>3 DEF S

-----------------------------------------------------------------------------
(* What the elements of a sequence at some positions are.                  *)
LEMMA PickedTable ==
  ASSUME NEW s, Len(s) \in Nat, NEW S
  PROVE  \E g : /\ Picked(s, S) = g[Len(s)]
                /\ g[0] = <<>>
                /\ \A k \in 1..Len(s) :
                     g[k] = IF k \in S THEN Append(g[k - 1], s[k]) ELSE g[k - 1]
  <1> DEFINE Body(g, k) == IF k = 0 THEN <<>>
                           ELSE IF k \in S THEN Append(g[k - 1], s[k])
                           ELSE g[k - 1]
             T == {n \in Nat : \E g : g = [k \in 0..n |-> Body(g, k)]}
  <1>1. 0 \in T
    <2> DEFINE g == [k \in 0..0 |-> <<>>]
    <2>1. g = [k \in 0..0 |-> Body(g, k)]
      OBVIOUS
    <2> QED
      BY <2>1
  <1>2. ASSUME NEW n \in Nat, n \in T
        PROVE  n + 1 \in T
    <2>1. PICK g : g = [k \in 0..n |-> Body(g, k)]
      BY <1>2
    <2> DEFINE h == [k \in 0..n + 1 |-> IF k \in 0..n THEN g[k] ELSE Body(g, k)]
    <2>2. \A k \in 0..n + 1 : k # 0 => k - 1 \in 0..n /\ h[k - 1] = g[k - 1]
      OBVIOUS
    <2>3. \A k \in 0..n : g[k] = Body(g, k)
      BY <2>1
    <2>4. \A k \in 0..n + 1 : h[k] = Body(h, k)
      BY <2>2, <2>3
    <2>5. h = [k \in 0..n + 1 |-> h[k]]
      OBVIOUS
    <2>6. h = [k \in 0..n + 1 |-> Body(h, k)]
      BY <2>4, <2>5
    <2> HIDE DEF h
    <2> QED
      BY <2>6, SMTT(60)
  <1>3. Len(s) \in T
    <2> HIDE DEF T
    <2>1. Nat \subseteq T
      BY <1>1, <1>2, Induction
    <2> QED
      BY <2>1
  <1> DEFINE p == CHOOSE g : g = [k \in 0..Len(s) |-> Body(g, k)]
  <1>4. p = [k \in 0..Len(s) |-> Body(p, k)]
    BY <1>3
  <1>5. Picked(s, S) = p[Len(s)]
    BY DEF Picked
  <1> HIDE DEF p
  <1>6. \A k \in 0..Len(s) : p[k] = Body(p, k)
    BY <1>4
  <1> QED
    BY <1>5, <1>6

(* Nothing is picked from the empty sequence.                              *)
LEMMA PickedEmpty ==
  ASSUME NEW S
  PROVE  Picked(<<>>, S) = <<>>
  BY PickedTable

(* A sequence that grows by an element grows its picks by it if its        *)
(* position is picked, and otherwise leaves them as they are.              *)
LEMMA PickedAppend ==
  ASSUME NEW A, NEW s \in Seq(A), NEW x \in A, NEW S
  PROVE  /\ Len(s) + 1 \in S => Picked(Append(s, x), S) = Append(Picked(s, S), x)
         /\ Len(s) + 1 \notin S => Picked(Append(s, x), S) = Picked(s, S)
  <1> DEFINE t == Append(s, x)
  <1>1. /\ t \in Seq(A) /\ Len(t) = Len(s) + 1 /\ Len(s) \in Nat
        /\ \A k \in 1..Len(s) : t[k] = s[k]
        /\ t[Len(s) + 1] = x
    BY AppendProperties
  <1> HIDE DEF t
  <1>2. PICK g : /\ Picked(s, S) = g[Len(s)]
                 /\ g[0] = <<>>
                 /\ \A k \in 1..Len(s) :
                      g[k] = IF k \in S THEN Append(g[k - 1], s[k]) ELSE g[k - 1]
    BY <1>1, PickedTable
  <1>3. PICK h : /\ Picked(t, S) = h[Len(t)]
                 /\ h[0] = <<>>
                 /\ \A k \in 1..Len(t) :
                      h[k] = IF k \in S THEN Append(h[k - 1], t[k]) ELSE h[k - 1]
    BY <1>1, PickedTable
  <1> DEFINE T == {n \in Nat : n <= Len(s) => h[n] = g[n]}
  <1>4. 0 \in T
    BY <1>2, <1>3
  <1>5. ASSUME NEW n \in Nat, n \in T
        PROVE  n + 1 \in T
    <2> SUFFICES ASSUME n + 1 <= Len(s)
                 PROVE  h[n + 1] = g[n + 1]
      OBVIOUS
    <2>1. n + 1 \in 1..Len(s) /\ n + 1 \in 1..Len(t) /\ (n + 1) - 1 = n
      BY <1>1
    <2>2. h[n] = g[n] /\ t[n + 1] = s[n + 1]
      BY <1>5, <1>1, <2>1
    <2> QED
      BY <1>2, <1>3, <2>1, <2>2
  <1> HIDE DEF T
  <1>6. Len(s) \in T
    BY <1>1, <1>4, <1>5, Induction
  <1>7. h[Len(s)] = g[Len(s)]
    BY <1>1, <1>6 DEF T
  <1>8. h[Len(s) + 1] = IF Len(s) + 1 \in S THEN Append(h[Len(s)], x) ELSE h[Len(s)]
    <2>1. Len(s) + 1 \in 1..Len(t) /\ (Len(s) + 1) - 1 = Len(s)
      BY <1>1
    <2> QED
      BY <1>1, <1>3, <2>1
  <1> QED
    BY <1>1, <1>2, <1>3, <1>7, <1>8 DEF t

(* What is picked from a sequence are elements of it.                      *)
LEMMA PickedTyped ==
  ASSUME NEW A, NEW s \in Seq(A), NEW S
  PROVE  Picked(s, S) \in Seq(A)
  <1> DEFINE T == {t \in Seq(A) : Picked(t, S) \in Seq(A)}
  <1>1. <<>> \in T
    BY PickedEmpty, EmptySeq
  <1>2. ASSUME NEW t \in Seq(A), NEW x \in A, t \in T
        PROVE  Append(t, x) \in T
    <2>1. Append(t, x) \in Seq(A) /\ Append(Picked(t, S), x) \in Seq(A)
      BY <1>2, AppendProperties
    <2> QED
      BY <1>2, <2>1, PickedAppend
  <1> HIDE DEF T
  <1>3. Seq(A) \subseteq T
    BY <1>1, <1>2, SequenceInduction
  <1> QED
    BY <1>3 DEF T

(* Only the positions there are matter.                                    *)
LEMMA PickedSame ==
  ASSUME NEW A, NEW s \in Seq(A), NEW S, NEW R,
         \A k \in 1..Len(s) : k \in S <=> k \in R
  PROVE  Picked(s, S) = Picked(s, R)
  <1> DEFINE T == {t \in Seq(A) : (\A k \in 1..Len(t) : k \in S <=> k \in R)
                                    => Picked(t, S) = Picked(t, R)}
  <1>1. <<>> \in T
    BY PickedEmpty
  <1>2. ASSUME NEW t \in Seq(A), NEW x \in A, t \in T
        PROVE  Append(t, x) \in T
    <2> SUFFICES ASSUME \A k \in 1..Len(t) + 1 : k \in S <=> k \in R
                 PROVE  Picked(Append(t, x), S) = Picked(Append(t, x), R)
      BY AppendProperties
    <2>1. Picked(t, S) = Picked(t, R)
      BY <1>2, LenProperties
    <2>2. Len(t) + 1 \in S <=> Len(t) + 1 \in R
      BY LenProperties
    <2>3. /\ Len(t) + 1 \in S => Picked(Append(t, x), S) = Append(Picked(t, S), x)
          /\ Len(t) + 1 \notin S => Picked(Append(t, x), S) = Picked(t, S)
      BY PickedAppend
    <2>4. /\ Len(t) + 1 \in R => Picked(Append(t, x), R) = Append(Picked(t, R), x)
          /\ Len(t) + 1 \notin R => Picked(Append(t, x), R) = Picked(t, R)
      BY PickedAppend
    <2> QED
      BY <2>1, <2>2, <2>3, <2>4
  <1> HIDE DEF T
  <1>3. Seq(A) \subseteq T
    BY <1>1, <1>2, SequenceInduction
  <1> QED
    BY <1>3 DEF T

-----------------------------------------------------------------------------
(* The sides of an edit script.                                            *)
Kind == {"equal", "delete", "insert"}
Operation == [kind : Kind, line : Line]

(* Append after a concatenation.                                           *)
LEMMA SequenceAppend ==
  ASSUME NEW A, NEW s \in Seq(A), NEW t \in Seq(A), NEW x \in A
  PROVE  s \o Append(t, x) = Append(s \o t, x)
  BY AppendIsConcat, ConcatAssociative, ConcatProperties

(* An empty script has empty sides.                                        *)
LEMMA SideEmpty ==
  ASSUME NEW K
  PROVE  Side(<<>>, K) = <<>>
  <1>1. [i \in DOMAIN <<>> |-> <<>>[i].line] = <<>>
    OBVIOUS
  <1> QED
    BY <1>1, PickedEmpty DEF Side

(* One more operation adds its line to the sides of its kind only.         *)
LEMMA SideAppend ==
  ASSUME NEW ops \in Seq(Operation), NEW op \in Operation, NEW K
  PROVE  /\ op.kind \in K => Side(Append(ops, op), K) = Append(Side(ops, K), op.line)
         /\ op.kind \notin K => Side(Append(ops, op), K) = Side(ops, K)
  <1> DEFINE more == Append(ops, op)
             lines == [i \in DOMAIN ops |-> ops[i].line]
             all == [i \in DOMAIN more |-> more[i].line]
             S == {i \in DOMAIN ops : ops[i].kind \in K}
             R == {i \in DOMAIN more : more[i].kind \in K}
  <1>1. /\ more \in Seq(Operation) /\ Len(more) = Len(ops) + 1 /\ Len(ops) \in Nat
        /\ DOMAIN more = 1..Len(ops) + 1 /\ DOMAIN ops = 1..Len(ops)
        /\ \A k \in 1..Len(ops) : more[k] = ops[k]
        /\ more[Len(ops) + 1] = op
        /\ \A k \in 1..Len(ops) : ops[k] \in Operation
    BY AppendProperties, LenProperties
  <1> HIDE DEF more
  <1>2. lines \in Seq(Line) /\ Len(lines) = Len(ops)
    BY <1>1 DEF Operation
  <1>3. all = Append(lines, op.line)
    BY <1>1, <1>2
  <1>4. op.line \in Line
    BY DEF Operation
  <1>5. \A k \in 1..Len(ops) : k \in R <=> k \in S
    BY <1>1
  <1>6. Len(ops) + 1 \in R <=> op.kind \in K
    BY <1>1
  <1> HIDE DEF R, S, all, lines
  <1>7. Picked(lines, R) = Picked(lines, S)
    BY <1>2, <1>5, PickedSame
  <1>8. /\ op.kind \in K => Picked(all, R) = Append(Picked(lines, S), op.line)
        /\ op.kind \notin K => Picked(all, R) = Picked(lines, S)
    BY <1>2, <1>3, <1>4, <1>6, <1>7, PickedAppend
  <1> QED
    BY <1>8 DEF Side, R, S, all, lines, more

(* A side of a script is a text.                                           *)
LEMMA SideTyped ==
  ASSUME NEW ops \in Seq(Operation), NEW K
  PROVE  Side(ops, K) \in Seq(Line)
  <1>1. [i \in DOMAIN ops |-> ops[i].line] \in Seq(Line)
    <2>1. \A i \in 1..Len(ops) : ops[i] \in Operation
      BY ElementOfSeq
    <2>2. \A i \in 1..Len(ops) : ops[i].line \in Line
      BY <2>1 DEF Operation
    <2> QED
      BY <2>2, LenProperties
  <1> QED
    BY <1>1, PickedTyped DEF Side

(* The side of two scripts in a row is that of the first, then the         *)
(* second's.                                                               *)
LEMMA SideConcat ==
  ASSUME NEW ops \in Seq(Operation), NEW more \in Seq(Operation), NEW K
  PROVE  Side(ops \o more, K) = Side(ops, K) \o Side(more, K)
  <1> DEFINE T == {t \in Seq(Operation) : Side(ops \o t, K) = Side(ops, K) \o Side(t, K)}
  <1>1. <<>> \in T
    <2>1. Side(ops, K) \in Seq(Line)
      BY SideTyped
    <2> QED
      BY <2>1, SideEmpty, ConcatEmptySeq, EmptySeq
  <1>2. ASSUME NEW t \in Seq(Operation), NEW op \in Operation, t \in T
        PROVE  Append(t, op) \in T
    <2>1. Append(t, op) \in Seq(Operation)
      BY AppendProperties
    <2>2. ops \o t \in Seq(Operation)
      BY ConcatProperties
    <2>3. /\ op.kind \in K => Side(ops \o Append(t, op), K) = Append(Side(ops \o t, K), op.line)
          /\ op.kind \notin K => Side(ops \o Append(t, op), K) = Side(ops \o t, K)
      <3> DEFINE u == ops \o t
      <3>1. ops \o Append(t, op) = Append(u, op)
        BY SequenceAppend
      <3>2. u \in Seq(Operation)
        BY <2>2
      <3> HIDE DEF u
      <3>3. /\ op.kind \in K => Side(Append(u, op), K) = Append(Side(u, K), op.line)
            /\ op.kind \notin K => Side(Append(u, op), K) = Side(u, K)
        BY <3>2, SideAppend
      <3> QED
        BY <3>1, <3>3 DEF u
    <2>4. Side(ops, K) \in Seq(Line) /\ Side(t, K) \in Seq(Line) /\ op.line \in Line
      BY SideTyped DEF Operation
    <2>5. Side(ops, K) \o Append(Side(t, K), op.line) = Append(Side(ops, K) \o Side(t, K), op.line)
      BY <2>4, SequenceAppend
    <2> QED
      BY <1>2, <2>1, <2>3, <2>5, SideAppend
  <1> HIDE DEF T
  <1>3. Seq(Operation) \subseteq T
    BY <1>1, <1>2, SequenceInduction
  <1> QED
    BY <1>3 DEF T

(* The sides of a single operation.                                        *)
LEMMA SideOne ==
  ASSUME NEW op \in Operation, NEW K
  PROVE  Side(<<op>>, K) = IF op.kind \in K THEN <<op.line>> ELSE <<>>
  <1>1. <<>> \in Seq(Operation) /\ <<op>> = Append(<<>>, op)
    BY EmptySeq
  <1>2. Append(<<>>, op.line) = <<op.line>>
    OBVIOUS
  <1>3. Side(<<>>, K) = <<>>
    BY SideEmpty
  <1> QED
    BY <1>1, <1>2, <1>3, SideAppend

(* A text turned into operations of one kind is a script as long as the    *)
(* text.                                                                   *)
LEMMA OpsTyped ==
  ASSUME NEW kind \in Kind, NEW text \in Seq(Line)
  PROVE  Ops(kind, text) \in Seq(Operation) /\ Len(Ops(kind, text)) = Len(text)
  <1>1. \A i \in 1..Len(text) : Op(kind, text[i]) \in Operation
    BY DEF Op, Operation
  <1> QED
    BY <1>1, LenProperties DEF Ops

(* Operations of one kind spell their text on the sides of that kind.      *)
LEMMA SideOps ==
  ASSUME NEW kind \in Kind, NEW text \in Seq(Line), NEW K
  PROVE  Side(Ops(kind, text), K) = IF kind \in K THEN text ELSE <<>>
  <1> DEFINE T == {t \in Seq(Line) :
                     Side(Ops(kind, t), K) = IF kind \in K THEN t ELSE <<>>}
  <1>1. <<>> \in T
    <2>1. Ops(kind, <<>>) = <<>>
      BY DEF Ops
    <2> QED
      BY <2>1, SideEmpty
  <1>2. ASSUME NEW t \in Seq(Line), NEW x \in Line, t \in T
        PROVE  Append(t, x) \in T
    <2>1. Ops(kind, t) \in Seq(Operation) /\ Len(Ops(kind, t)) = Len(t) /\ Op(kind, x) \in Operation
      BY OpsTyped DEF Op, Operation
    <2>2. Ops(kind, Append(t, x)) = Append(Ops(kind, t), Op(kind, x))
      BY <2>1, AppendProperties, LenProperties DEF Ops
    <2>3. Op(kind, x).kind = kind /\ Op(kind, x).line = x
      BY DEF Op
    <2>4. Side(Ops(kind, Append(t, x)), K) =
            IF kind \in K THEN Append(Side(Ops(kind, t), K), x) ELSE Side(Ops(kind, t), K)
      BY <2>1, <2>2, <2>3, SideAppend
    <2> QED
      BY <1>2, <2>4, AppendProperties
  <1> HIDE DEF T
  <1>3. Seq(Line) \subseteq T
    BY <1>1, <1>2, SequenceInduction
  <1> QED
    BY <1>3 DEF T

-----------------------------------------------------------------------------
(* Greatest and least elements.                                            *)
LEMMA MaxIs ==
  ASSUME NEW S, S \subseteq Int, NEW x \in S, \A y \in S : x >= y
  PROVE  Max(S) = x
  <1>1. \A z \in S : (\A y \in S : z >= y) => z = x
    OBVIOUS
  <1> QED
    BY <1>1 DEF Max

(* A bounded set of numbers that is not empty has a greatest element,      *)
(* Max's.                                                                  *)
LEMMA BoundedMax ==
  ASSUME NEW S, S \subseteq Nat, S # {}, NEW m \in Nat, \A y \in S : y <= m
  PROVE  Max(S) \in S /\ \A y \in S : Max(S) >= y
  <1> DEFINE T == {n \in Nat : \A R \in SUBSET Nat :
                     (R # {} /\ \A y \in R : y <= n) => \E x \in R : \A y \in R : x >= y}
  <1>1. 0 \in T
    <2> SUFFICES ASSUME NEW R \in SUBSET Nat, R # {}, \A y \in R : y <= 0
                 PROVE  \E x \in R : \A y \in R : x >= y
      OBVIOUS
    <2>1. \A y \in R : y = 0
      OBVIOUS
    <2> QED
      BY <2>1
  <1>2. ASSUME NEW n \in Nat, n \in T
        PROVE  n + 1 \in T
    <2> SUFFICES ASSUME NEW R \in SUBSET Nat, R # {}, \A y \in R : y <= n + 1
                 PROVE  \E x \in R : \A y \in R : x >= y
      OBVIOUS
    <2>1. CASE n + 1 \in R
      BY <2>1
    <2>2. CASE n + 1 \notin R
      <3>1. \A y \in R : y <= n
        BY <2>2
      <3> QED
        BY <1>2, <3>1
    <2> QED
      BY <2>1, <2>2
  <1> HIDE DEF T
  <1>3. m \in T
    BY <1>1, <1>2, Induction
  <1>4. \E x \in S : \A y \in S : x >= y
    BY <1>3 DEF T
  <1> QED
    BY <1>4 DEF Max

(* The greater of two numbers.                                             *)
LEMMA MaxPair ==
  ASSUME NEW m \in Int, NEW n \in Int, NEW S, S = {m, n}
  PROVE  Max(S) = IF m >= n THEN m ELSE n
  <1>1. CASE m >= n
    BY <1>1, MaxIs
  <1>2. CASE ~(m >= n)
    BY <1>2, MaxIs
  <1> QED
    BY <1>1, <1>2

(* The lesser of two numbers.                                              *)
LEMMA MinPair ==
  ASSUME NEW m \in Int, NEW n \in Int, NEW S, S = {m, n}
  PROVE  Min(S) = IF m <= n THEN m ELSE n
  <1>1. PICK x \in {m, n} : x = (IF m <= n THEN m ELSE n) /\ \A y \in {m, n} : x <= y
    OBVIOUS
  <1>2. \A z \in {m, n} : (\A y \in {m, n} : z <= y) => z = x
    BY <1>1
  <1> QED
    BY <1>1, <1>2 DEF Min

-----------------------------------------------------------------------------
(* The walk of the table satisfies its recursion.                          *)
LEMMA WalkEquation ==
  ASSUME NEW a \in Seq(Line), NEW b \in Seq(Line),
         NEW i \in 1..Len(a) + 1, NEW j \in 1..Len(b) + 1
  PROVE  /\ i > Len(a) => Walk(a, b)[<<i, j>>] = Ops("insert", SubSeq(b, j, Len(b)))
         /\ (i <= Len(a) /\ j > Len(b)) =>
              Walk(a, b)[<<i, j>>] = Ops("delete", SubSeq(a, i, Len(a)))
         /\ (i <= Len(a) /\ j <= Len(b) /\ a[i] = b[j]) =>
              Walk(a, b)[<<i, j>>] = <<Op("equal", a[i])>> \o Walk(a, b)[<<i + 1, j + 1>>]
         /\ (/\ i <= Len(a) /\ j <= Len(b) /\ a[i] # b[j]
             /\ LcsTable(a, b)[<<i + 1, j>>] >= LcsTable(a, b)[<<i, j + 1>>]) =>
              Walk(a, b)[<<i, j>>] = <<Op("delete", a[i])>> \o Walk(a, b)[<<i + 1, j>>]
         /\ (/\ i <= Len(a) /\ j <= Len(b) /\ a[i] # b[j]
             /\ ~(LcsTable(a, b)[<<i + 1, j>>] >= LcsTable(a, b)[<<i, j + 1>>])) =>
              Walk(a, b)[<<i, j>>] = <<Op("insert", b[j])>> \o Walk(a, b)[<<i, j + 1>>]
  <1> DEFINE D == Cells(a, b)
             Left(c) == (Len(a) + 1 - c[1]) + (Len(b) + 1 - c[2])
             Body(g, c) ==
               IF c[1] > Len(a) THEN Ops("insert", SubSeq(b, c[2], Len(b)))
               ELSE IF c[2] > Len(b) THEN Ops("delete", SubSeq(a, c[1], Len(a)))
               ELSE IF a[c[1]] = b[c[2]]
                    THEN <<Op("equal", a[c[1]])>> \o g[<<c[1] + 1, c[2] + 1>>]
               ELSE IF PreferDelete(LcsTable(a, b), c[1], c[2])
                    THEN <<Op("delete", a[c[1]])>> \o g[<<c[1] + 1, c[2]>>]
               ELSE <<Op("insert", b[c[2]])>> \o g[<<c[1], c[2] + 1>>]
             Near(n) == {c \in D : Left(c) <= n}
             T == {n \in Nat : \E g : g = [c \in Near(n) |-> Body(g, c)]}
  <1>1. \A c \in D : /\ c[1] \in 1..Len(a) + 1 /\ c[2] \in 1..Len(b) + 1
                     /\ c = <<c[1], c[2]>> /\ Left(c) \in Nat
    BY DEF Cells
  <1>2. \A x \in 1..Len(a), y \in 1..Len(b) :
          /\ <<x + 1, y + 1>> \in D /\ Left(<<x + 1, y + 1>>) < Left(<<x, y>>)
          /\ <<x + 1, y>> \in D /\ Left(<<x + 1, y>>) < Left(<<x, y>>)
          /\ <<x, y + 1>> \in D /\ Left(<<x, y + 1>>) < Left(<<x, y>>)
    BY DEF Cells
  <1> HIDE DEF D, Left
  <1>3. \A g, h : \A c \in D :
          (\A d \in D : Left(d) < Left(c) => g[d] = h[d]) => Body(g, c) = Body(h, c)
    <2> SUFFICES ASSUME NEW c \in D, NEW g, NEW h,
                        \A d \in D : Left(d) < Left(c) => g[d] = h[d]
                 PROVE  Body(g, c) = Body(h, c)
      BY ZenonT(60)
    <2>1. CASE c[1] > Len(a) \/ c[2] > Len(b)
      BY <1>1, <2>1
    <2>2. CASE c[1] <= Len(a) /\ c[2] <= Len(b)
      <3> DEFINE x == c[1]
                 y == c[2]
      <3>1. x \in 1..Len(a) /\ y \in 1..Len(b) /\ c = <<x, y>>
        BY <1>1, <2>2
      <3> HIDE DEF x, y
      <3>2. /\ g[<<x + 1, y + 1>>] = h[<<x + 1, y + 1>>]
            /\ g[<<x + 1, y>>] = h[<<x + 1, y>>]
            /\ g[<<x, y + 1>>] = h[<<x, y + 1>>]
        BY <1>2, <3>1
      <3> QED
        BY <3>2 DEF x, y
    <2> QED
      BY <1>1, <2>1, <2>2
  <1> HIDE DEF Body
  <1>4. 0 \in T
    <2> DEFINE g == [c \in Near(0) |-> Body(<<>>, c)]
    <2>1. \A c \in Near(0) : \A d \in D : ~(Left(d) < Left(c))
      BY <1>1
    <2>2. \A c \in Near(0) : g[c] = Body(g, c)
      BY <1>3, <2>1
    <2>3. g = [c \in Near(0) |-> Body(g, c)]
      BY <2>2
    <2> HIDE DEF g
    <2> QED
      BY <2>3
  <1>5. ASSUME NEW n \in Nat, n \in T
        PROVE  n + 1 \in T
    <2>1. PICK g : g = [c \in Near(n) |-> Body(g, c)]
      BY <1>5
    <2> DEFINE h == [c \in Near(n + 1) |-> IF c \in Near(n) THEN g[c] ELSE Body(g, c)]
    <2>2. \A c \in Near(n + 1) : \A d \in D : Left(d) < Left(c) => g[d] = h[d]
      BY <1>1
    <2>3. \A c \in Near(n + 1) : h[c] = Body(g, c)
      BY <2>1
    <2>4. \A c \in Near(n + 1) : h[c] = Body(h, c)
      BY <1>3, <2>2, <2>3, ZenonT(60)
    <2>5. h = [c \in Near(n + 1) |-> Body(h, c)]
      BY <2>4
    <2> HIDE DEF h, Near
    <2> QED
      BY <2>5
  <1> HIDE DEF T
  <1>6. Nat \subseteq T
    BY <1>4, <1>5, Induction
  <1>7. Len(a) + Len(b) \in T /\ Near(Len(a) + Len(b)) = D
    BY <1>1, <1>6 DEF Left
  <1> DEFINE w == CHOOSE g : g = [c \in D |-> Body(g, c)]
  <1>8. w = [c \in D |-> Body(w, c)]
    BY <1>7 DEF T
  <1>9. Walk(a, b) = w
    BY DEF Walk, Body, D
  <1> HIDE DEF w
  <1>10. <<i, j>> \in D /\ <<i, j>>[1] = i /\ <<i, j>>[2] = j
    BY DEF D, Cells
  <1>11. w[<<i, j>>] = Body(w, <<i, j>>)
    BY <1>8, <1>10
  <1>12. PreferDelete(LcsTable(a, b), i, j) <=>
           LcsTable(a, b)[<<i + 1, j>>] >= LcsTable(a, b)[<<i, j + 1>>]
    BY DEF PreferDelete
  <1> DEFINE prefers == PreferDelete(LcsTable(a, b), i, j)
  <1>13. w[<<i, j>>] =
           IF i > Len(a) THEN Ops("insert", SubSeq(b, j, Len(b)))
           ELSE IF j > Len(b) THEN Ops("delete", SubSeq(a, i, Len(a)))
           ELSE IF a[i] = b[j] THEN <<Op("equal", a[i])>> \o w[<<i + 1, j + 1>>]
           ELSE IF prefers THEN <<Op("delete", a[i])>> \o w[<<i + 1, j>>]
           ELSE <<Op("insert", b[j])>> \o w[<<i, j + 1>>]
    BY <1>10, <1>11 DEF Body
  <1> QED
    BY <1>9, <1>12, <1>13, SMTT(60)

(* The table of longest common subsequences satisfies its recursion.       *)
LEMMA TableEquation ==
  ASSUME NEW a \in Seq(Line), NEW b \in Seq(Line),
         NEW i \in 1..Len(a) + 1, NEW j \in 1..Len(b) + 1
  PROVE  /\ (i > Len(a) \/ j > Len(b)) => LcsTable(a, b)[<<i, j>>] = 0
         /\ (i <= Len(a) /\ j <= Len(b) /\ a[i] = b[j]) =>
              LcsTable(a, b)[<<i, j>>] = LcsTable(a, b)[<<i + 1, j + 1>>] + 1
         /\ (/\ i <= Len(a) /\ j <= Len(b) /\ a[i] # b[j]
             /\ LcsTable(a, b)[<<i + 1, j>>] \in Nat /\ LcsTable(a, b)[<<i, j + 1>>] \in Nat) =>
              LcsTable(a, b)[<<i, j>>] =
                IF LcsTable(a, b)[<<i + 1, j>>] >= LcsTable(a, b)[<<i, j + 1>>]
                THEN LcsTable(a, b)[<<i + 1, j>>] ELSE LcsTable(a, b)[<<i, j + 1>>]
  <1> DEFINE D == Cells(a, b)
             Left(c) == (Len(a) + 1 - c[1]) + (Len(b) + 1 - c[2])
             Body(g, c) ==
               IF c[1] > Len(a) \/ c[2] > Len(b) THEN 0
               ELSE IF a[c[1]] = b[c[2]] THEN g[<<c[1] + 1, c[2] + 1>>] + 1
               ELSE Max({g[<<c[1] + 1, c[2]>>], g[<<c[1], c[2] + 1>>]})
             Near(n) == {c \in D : Left(c) <= n}
             T == {n \in Nat : \E g : g = [c \in Near(n) |-> Body(g, c)]}
  <1>1. \A c \in D : /\ c[1] \in 1..Len(a) + 1 /\ c[2] \in 1..Len(b) + 1
                     /\ c = <<c[1], c[2]>> /\ Left(c) \in Nat
    BY DEF Cells
  <1>2. \A x \in 1..Len(a), y \in 1..Len(b) :
          /\ <<x + 1, y + 1>> \in D /\ Left(<<x + 1, y + 1>>) < Left(<<x, y>>)
          /\ <<x + 1, y>> \in D /\ Left(<<x + 1, y>>) < Left(<<x, y>>)
          /\ <<x, y + 1>> \in D /\ Left(<<x, y + 1>>) < Left(<<x, y>>)
    BY DEF Cells
  <1> HIDE DEF D, Left
  <1>3. \A g, h : \A c \in D :
          (\A d \in D : Left(d) < Left(c) => g[d] = h[d]) => Body(g, c) = Body(h, c)
    <2> SUFFICES ASSUME NEW c \in D, NEW g, NEW h,
                        \A d \in D : Left(d) < Left(c) => g[d] = h[d]
                 PROVE  Body(g, c) = Body(h, c)
      BY ZenonT(60)
    <2>1. CASE c[1] > Len(a) \/ c[2] > Len(b)
      BY <1>1, <2>1
    <2>2. CASE c[1] <= Len(a) /\ c[2] <= Len(b)
      <3> DEFINE x == c[1]
                 y == c[2]
      <3>1. x \in 1..Len(a) /\ y \in 1..Len(b) /\ c = <<x, y>>
        BY <1>1, <2>2
      <3> HIDE DEF x, y
      <3>2. /\ g[<<x + 1, y + 1>>] = h[<<x + 1, y + 1>>]
            /\ g[<<x + 1, y>>] = h[<<x + 1, y>>]
            /\ g[<<x, y + 1>>] = h[<<x, y + 1>>]
        BY <1>2, <3>1
      <3> QED
        BY <3>2 DEF x, y
    <2> QED
      BY <1>1, <2>1, <2>2
  <1> HIDE DEF Body
  <1>4. 0 \in T
    <2> DEFINE g == [c \in Near(0) |-> Body(<<>>, c)]
    <2>1. \A c \in Near(0) : \A d \in D : ~(Left(d) < Left(c))
      BY <1>1
    <2>2. \A c \in Near(0) : g[c] = Body(g, c)
      BY <1>3, <2>1
    <2>3. g = [c \in Near(0) |-> Body(g, c)]
      BY <2>2
    <2> HIDE DEF g
    <2> QED
      BY <2>3
  <1>5. ASSUME NEW n \in Nat, n \in T
        PROVE  n + 1 \in T
    <2>1. PICK g : g = [c \in Near(n) |-> Body(g, c)]
      BY <1>5
    <2> DEFINE h == [c \in Near(n + 1) |-> IF c \in Near(n) THEN g[c] ELSE Body(g, c)]
    <2>2. \A c \in Near(n + 1) : \A d \in D : Left(d) < Left(c) => g[d] = h[d]
      BY <1>1
    <2>3. \A c \in Near(n + 1) : h[c] = Body(g, c)
      BY <2>1
    <2>4. \A c \in Near(n + 1) : h[c] = Body(h, c)
      BY <1>3, <2>2, <2>3, ZenonT(60)
    <2>5. h = [c \in Near(n + 1) |-> Body(h, c)]
      BY <2>4
    <2> HIDE DEF h, Near
    <2> QED
      BY <2>5
  <1> HIDE DEF T
  <1>6. Nat \subseteq T
    BY <1>4, <1>5, Induction
  <1>7. Len(a) + Len(b) \in T /\ Near(Len(a) + Len(b)) = D
    BY <1>1, <1>6 DEF Left
  <1> DEFINE w == CHOOSE g : g = [c \in D |-> Body(g, c)]
  <1>8. w = [c \in D |-> Body(w, c)]
    BY <1>7 DEF T
  <1>9. LcsTable(a, b) = w
    BY DEF LcsTable, Body, D
  <1> HIDE DEF w
  <1>10. <<i, j>> \in D /\ <<i, j>>[1] = i /\ <<i, j>>[2] = j
    BY DEF D, Cells
  <1>11. w[<<i, j>>] = Body(w, <<i, j>>)
    BY <1>8, <1>10
  <1> DEFINE S == {w[<<i + 1, j>>], w[<<i, j + 1>>]}
  <1>12. /\ (i > Len(a) \/ j > Len(b)) => w[<<i, j>>] = 0
         /\ (i <= Len(a) /\ j <= Len(b) /\ a[i] = b[j]) => w[<<i, j>>] = w[<<i + 1, j + 1>>] + 1
         /\ (i <= Len(a) /\ j <= Len(b) /\ a[i] # b[j]) =>
              w[<<i, j>>] = Max(S)
    BY <1>10, <1>11 DEF Body
  <1>13. w[<<i + 1, j>>] \in Nat /\ w[<<i, j + 1>>] \in Nat =>
           Max(S) = IF w[<<i + 1, j>>] >= w[<<i, j + 1>>] THEN w[<<i + 1, j>>] ELSE w[<<i, j + 1>>]
    <2> DEFINE m == w[<<i + 1, j>>]
               n == w[<<i, j + 1>>]
    <2> HIDE DEF m, n
    <2>1. m \in Nat /\ n \in Nat => Max({m, n}) = IF m >= n THEN m ELSE n
      BY MaxPair
    <2> QED
      BY <2>1 DEF m, n
  <1> QED
    BY <1>9, <1>12, <1>13

-----------------------------------------------------------------------------
(* What the walk of the table spells from each cell on.                    *)
LEMMA SideCons ==
  ASSUME NEW kind \in Kind, NEW line \in Line, NEW ops \in Seq(Operation), NEW K
  PROVE  /\ <<Op(kind, line)>> \o ops \in Seq(Operation)
         /\ kind \in K => Side(<<Op(kind, line)>> \o ops, K) = <<line>> \o Side(ops, K)
         /\ kind \notin K => Side(<<Op(kind, line)>> \o ops, K) = Side(ops, K)
  <1> DEFINE op == Op(kind, line)
  <1>1. op \in Operation /\ op.kind = kind /\ op.line = line
    BY DEF Op, Operation
  <1> HIDE DEF op
  <1>2. <<op>> \in Seq(Operation)
    BY <1>1
  <1>3. Side(<<op>> \o ops, K) = Side(<<op>>, K) \o Side(ops, K)
    BY <1>2, SideConcat
  <1>4. Side(ops, K) \in Seq(Line)
    BY SideTyped
  <1>5. <<>> \o Side(ops, K) = Side(ops, K)
    BY <1>4, ConcatEmptySeq
  <1>6. <<op>> \o ops \in Seq(Operation)
    BY <1>2, ConcatProperties
  <1>7. Side(<<op>>, K) = IF kind \in K THEN <<line>> ELSE <<>>
    BY <1>1, SideOne
  <1> QED
    BY <1>3, <1>5, <1>6, <1>7 DEF op

Unchanged == {"equal"}
Old == {"equal", "delete"}
New == {"equal", "insert"}

(* A stretch of a text, its length and its lines.                          *)
LEMMA SubSequence ==
  ASSUME NEW s \in Seq(Line), NEW m \in 1..Len(s) + 1, NEW n \in 0..Len(s)
  PROVE  /\ SubSeq(s, m, n) \in Seq(Line)
         /\ Len(SubSeq(s, m, n)) = IF m <= n THEN n - m + 1 ELSE 0
         /\ \A i \in 1..n - m + 1 : SubSeq(s, m, n)[i] = s[m + i - 1]
  <1>1. \A i \in m..n : s[i] \in Line
    BY ElementOfSeq
  <1> QED
    BY <1>1, SubSeqProperties

(* A script spells two texts and keeps count lines.                        *)
Spells(ops, count, s, t) ==
  /\ ops \in Seq(Operation)
  /\ Side(ops, Old) = s
  /\ Side(ops, New) = t
  /\ count \in Nat
  /\ Len(Side(ops, Unchanged)) = count

(* An operation put in front of a script spells its line in front of the   *)
(* texts.                                                                  *)
LEMMA SpellsCons ==
  ASSUME NEW ops, NEW count, NEW s, NEW t, Spells(ops, count, s, t), NEW line \in Line
  PROVE  /\ Spells(<<Op("equal", line)>> \o ops, count + 1, <<line>> \o s, <<line>> \o t)
         /\ Spells(<<Op("delete", line)>> \o ops, count, <<line>> \o s, t)
         /\ Spells(<<Op("insert", line)>> \o ops, count, s, <<line>> \o t)
  <1>1. ops \in Seq(Operation)
    BY DEF Spells
  <1>2. \A K : \A kind \in Kind :
          /\ <<Op(kind, line)>> \o ops \in Seq(Operation)
          /\ kind \in K => Side(<<Op(kind, line)>> \o ops, K) = <<line>> \o Side(ops, K)
          /\ kind \notin K => Side(<<Op(kind, line)>> \o ops, K) = Side(ops, K)
    BY ONLY <1>1, SideCons, line \in Line
  <1>3. /\ "equal" \in Old /\ "equal" \in New /\ "equal" \in Unchanged
        /\ "delete" \in Old /\ "delete" \notin New /\ "delete" \notin Unchanged
        /\ "insert" \notin Old /\ "insert" \in New /\ "insert" \notin Unchanged
        /\ "equal" \in Kind /\ "delete" \in Kind /\ "insert" \in Kind
    BY DEF Old, New, Unchanged, Kind
  <1>4. Len(<<line>> \o Side(ops, Unchanged)) = Len(Side(ops, Unchanged)) + 1
    <2>1. Side(ops, Unchanged) \in Seq(Line) /\ <<line>> \in Seq(Line)
      BY <1>1, SideTyped
    <2>2. Len(<<line>>) = 1 /\ Len(Side(ops, Unchanged)) \in Nat
      BY <2>1, LenProperties
    <2> QED
      BY <2>1, <2>2, ConcatProperties
  <1>5. Spells(<<Op("equal", line)>> \o ops, count + 1, <<line>> \o s, <<line>> \o t)
    <2>1. /\ <<Op("equal", line)>> \o ops \in Seq(Operation)
          /\ Side(<<Op("equal", line)>> \o ops, Old) = <<line>> \o Side(ops, Old)
          /\ Side(<<Op("equal", line)>> \o ops, New) = <<line>> \o Side(ops, New)
          /\ Side(<<Op("equal", line)>> \o ops, Unchanged) = <<line>> \o Side(ops, Unchanged)
      BY <1>2, <1>3
    <2>2. count + 1 \in Nat /\ Len(Side(ops, Unchanged)) + 1 = count + 1
      BY DEF Spells
    <2> QED
      BY <1>4, <2>1, <2>2 DEF Spells
  <1>6. Spells(<<Op("delete", line)>> \o ops, count, <<line>> \o s, t)
    BY <1>2, <1>3 DEF Spells
  <1>7. Spells(<<Op("insert", line)>> \o ops, count, s, <<line>> \o t)
    BY <1>2, <1>3 DEF Spells
  <1> QED
    BY <1>5, <1>6, <1>7

(* Scripts of one kind of operation only.                                  *)
LEMMA SpellsOps ==
  ASSUME NEW text \in Seq(Line)
  PROVE  Spells(Ops("insert", text), 0, <<>>, text) /\ Spells(Ops("delete", text), 0, text, <<>>)
         /\ Spells(Ops("equal", text), Len(text), text, text)
  <1>1. \A K : \A kind \in Kind :
          Ops(kind, text) \in Seq(Operation)
          /\ Side(Ops(kind, text), K) = IF kind \in K THEN text ELSE <<>>
    BY OpsTyped, SideOps
  <1>2. Len(text) \in Nat /\ Len(<<>>) = 0
    BY LenProperties
  <1> QED
    BY <1>1, <1>2 DEF Spells, Old, New, Unchanged, Kind

(* Exactness and minimality, cell by cell from the corner of the table.    *)
LEMMA WalkSpells ==
  ASSUME NEW a \in Seq(Line), NEW b \in Seq(Line), NEW i \in 1..Len(a) + 1, NEW j \in 1..Len(b) + 1
  PROVE  Spells(Walk(a, b)[<<i, j>>], LcsTable(a, b)[<<i, j>>],
                SubSeq(a, i, Len(a)), SubSeq(b, j, Len(b)))
  <1> DEFINE W(x, y) == Walk(a, b)[<<x, y>>]
             C(x, y) == LcsTable(a, b)[<<x, y>>]
             P(x, y) == Spells(W(x, y), C(x, y), SubSeq(a, x, Len(a)), SubSeq(b, y, Len(b)))
             T == {n \in Nat : \A x \in 1..Len(a) + 1, y \in 1..Len(b) + 1 :
                     (Len(a) + 1 - x) + (Len(b) + 1 - y) <= n => P(x, y)}
  <1>1. Len(a) \in Nat /\ Len(b) \in Nat
    BY LenProperties
  <1>2. ASSUME NEW x \in 1..Len(a) + 1, NEW y \in 1..Len(b) + 1, x > Len(a)
        PROVE  P(x, y)
    <2>1. W(x, y) = Ops("insert", SubSeq(b, y, Len(b)))
      BY <1>2, WalkEquation, ZenonT(60)
    <2>2. SubSeq(b, y, Len(b)) \in Seq(Line)
      BY <1>1, SubSequence
    <2>3. SubSeq(a, x, Len(a)) = <<>>
      BY <1>1, <1>2, SubSeqEmpty
    <2>4. C(x, y) = 0
      BY <1>2, TableEquation, ZenonT(60)
    <2> HIDE DEF W, C
    <2> QED
      BY <2>1, <2>2, <2>3, <2>4, SpellsOps
  <1>3. ASSUME NEW x \in 1..Len(a), NEW y \in 1..Len(b) + 1, y > Len(b)
        PROVE  P(x, y)
    <2>0. x \in 1..Len(a) + 1 /\ x <= Len(a)
      BY <1>1
    <2>1. W(x, y) = Ops("delete", SubSeq(a, x, Len(a)))
      BY <1>3, <2>0, WalkEquation, ZenonT(60)
    <2>2. SubSeq(a, x, Len(a)) \in Seq(Line)
      BY <1>1, <2>0, SubSequence
    <2>3. SubSeq(b, y, Len(b)) = <<>>
      BY <1>1, <1>3, SubSeqEmpty
    <2>4. C(x, y) = 0
      BY <1>3, <2>0, TableEquation, ZenonT(60)
    <2> HIDE DEF W, C
    <2> QED
      BY <2>1, <2>2, <2>3, <2>4, SpellsOps
  <1>4. ASSUME NEW x \in 1..Len(a), NEW y \in 1..Len(b),
               P(x + 1, y + 1), P(x + 1, y), P(x, y + 1)
        PROVE  P(x, y)
    <2>1. /\ SubSeq(a, x, Len(a)) = <<a[x]>> \o SubSeq(a, x + 1, Len(a))
          /\ SubSeq(b, y, Len(b)) = <<b[y]>> \o SubSeq(b, y + 1, Len(b))
      <3>1. Len(a) \in x..Len(a) /\ Len(b) \in y..Len(b)
        BY <1>1
      <3> QED
        BY <3>1, SubSeqRecursiveFirst
    <2>2. /\ x \in 1..Len(a) + 1 /\ x <= Len(a)
          /\ y \in 1..Len(b) + 1 /\ y <= Len(b)
      BY <1>1
    <2>3. a[x] \in Line /\ b[y] \in Line
      BY ElementOfSeq
    <2>4. C(x + 1, y) \in Nat /\ C(x, y + 1) \in Nat
      BY <1>4 DEF Spells
    <2>5. /\ a[x] = b[y] => C(x, y) = C(x + 1, y + 1) + 1
          /\ a[x] # b[y] => C(x, y) = IF C(x + 1, y) >= C(x, y + 1) THEN C(x + 1, y) ELSE C(x, y + 1)
      BY <2>2, <2>4, TableEquation, SMTT(60)
    <2>6. /\ a[x] = b[y] => W(x, y) = <<Op("equal", a[x])>> \o W(x + 1, y + 1)
          /\ (a[x] # b[y] /\ C(x + 1, y) >= C(x, y + 1)) => W(x, y) = <<Op("delete", a[x])>> \o W(x + 1, y)
          /\ (a[x] # b[y] /\ ~(C(x + 1, y) >= C(x, y + 1))) => W(x, y) = <<Op("insert", b[y])>> \o W(x, y + 1)
      BY <2>2, WalkEquation, ZenonT(60)
    <2> HIDE DEF W, C
    <2>7. CASE a[x] = b[y]
      <3>1. Spells(<<Op("equal", a[x])>> \o W(x + 1, y + 1), C(x + 1, y + 1) + 1,
                   <<a[x]>> \o SubSeq(a, x + 1, Len(a)), <<a[x]>> \o SubSeq(b, y + 1, Len(b)))
        BY <1>4, <2>3, SpellsCons
      <3> QED
        BY <2>1, <2>5, <2>6, <2>7, <3>1
    <2>8. CASE a[x] # b[y] /\ C(x + 1, y) >= C(x, y + 1)
      <3>1. Spells(<<Op("delete", a[x])>> \o W(x + 1, y), C(x + 1, y),
                   <<a[x]>> \o SubSeq(a, x + 1, Len(a)), SubSeq(b, y, Len(b)))
        BY <1>4, <2>3, SpellsCons
      <3> QED
        BY <2>1, <2>5, <2>6, <2>8, <3>1
    <2>9. CASE a[x] # b[y] /\ ~(C(x + 1, y) >= C(x, y + 1))
      <3>1. Spells(<<Op("insert", b[y])>> \o W(x, y + 1), C(x, y + 1),
                   SubSeq(a, x, Len(a)), <<b[y]>> \o SubSeq(b, y + 1, Len(b)))
        BY <1>4, <2>3, SpellsCons
      <3> QED
        BY <2>1, <2>5, <2>6, <2>9, <3>1
    <2> QED
      BY <2>7, <2>8, <2>9
  <1> HIDE DEF P
  <1>5. 0 \in T
    <2> SUFFICES ASSUME NEW x \in 1..Len(a) + 1, NEW y \in 1..Len(b) + 1,
                        (Len(a) + 1 - x) + (Len(b) + 1 - y) <= 0
                 PROVE  P(x, y)
      OBVIOUS
    <2>1. x > Len(a)
      BY <1>1
    <2> QED
      BY <1>2, <2>1
  <1>6. ASSUME NEW n \in Nat, n \in T
        PROVE  n + 1 \in T
    <2> SUFFICES ASSUME NEW x \in 1..Len(a) + 1, NEW y \in 1..Len(b) + 1,
                        (Len(a) + 1 - x) + (Len(b) + 1 - y) <= n + 1
                 PROVE  P(x, y)
      OBVIOUS
    <2>1. CASE x > Len(a)
      BY <1>2, <2>1
    <2>2. CASE x <= Len(a) /\ y > Len(b)
      <3>1. x \in 1..Len(a)
        BY <1>1, <2>2
      <3> QED
        BY <1>3, <2>2, <3>1
    <2>3. CASE x <= Len(a) /\ y <= Len(b)
      <3>1. /\ x \in 1..Len(a) /\ x + 1 \in 1..Len(a) + 1
            /\ y \in 1..Len(b) /\ y + 1 \in 1..Len(b) + 1
        BY <1>1, <2>3
      <3>2. /\ (Len(a) + 1 - (x + 1)) + (Len(b) + 1 - (y + 1)) <= n
            /\ (Len(a) + 1 - (x + 1)) + (Len(b) + 1 - y) <= n
            /\ (Len(a) + 1 - x) + (Len(b) + 1 - (y + 1)) <= n
        BY <1>1
      <3>3. P(x + 1, y + 1) /\ P(x + 1, y) /\ P(x, y + 1)
        BY <1>6, <3>1, <3>2
      <3> QED
        BY <1>4, <3>1, <3>3
    <2> QED
      BY <1>1, <2>1, <2>2, <2>3
  <1> HIDE DEF T
  <1>7. Nat \subseteq T
    BY <1>5, <1>6, Induction
  <1>8. (Len(a) + 1 - i) + (Len(b) + 1 - j) \in T
    BY <1>1, <1>7
  <1>9. P(i, j)
    BY <1>1, <1>8 DEF T
  <1> QED
    BY <1>9 DEF P

-----------------------------------------------------------------------------
(* The common head and tail that diffLines trims.                          *)
LEMMA HeadAndTail ==
  ASSUME NEW a \in Seq(Line), NEW b \in Seq(Line)
  PROVE  LET h == CommonHead(a, b)
             t == CommonTail(a, b)
         IN /\ h \in Nat /\ t \in Nat
            /\ h + t <= Len(a) /\ h + t <= Len(b)
            /\ \A k \in 1..h : a[k] = b[k]
            /\ \A k \in 1..t : a[Len(a) + 1 - k] = b[Len(b) + 1 - k]
  <1> DEFINE m == Min({Len(a), Len(b)})
             h == CommonHead(a, b)
             t == CommonTail(a, b)
             H == {n \in 0..m : \A k \in 1..n : a[k] = b[k]}
             T == {n \in 0..m - h : \A k \in 1..n : a[Len(a) + 1 - k] = b[Len(b) + 1 - k]}
  <1>1. Len(a) \in Nat /\ Len(b) \in Nat
    BY LenProperties
  <1>2. m \in Nat /\ m <= Len(a) /\ m <= Len(b)
    BY <1>1, MinPair
  <1> HIDE DEF m
  <1>3. 0 \in H /\ H \subseteq Nat /\ \A n \in H : n <= m
    BY <1>2
  <1>4. h = Max(H)
    BY DEF CommonHead, m
  <1> HIDE DEF h, H
  <1>5. h \in H
    BY <1>2, <1>3, <1>4, BoundedMax
  <1>6. h \in 0..m /\ \A k \in 1..h : a[k] = b[k]
    BY <1>5 DEF H
  <1>7. m - h \in Nat
    BY <1>2, <1>6
  <1>8. 0 \in T /\ T \subseteq Nat /\ \A n \in T : n <= m - h
    BY <1>7
  <1>9. t = Max(T)
    BY DEF CommonTail, m, h
  <1> HIDE DEF t, T
  <1>10. t \in T
    BY <1>7, <1>8, <1>9, BoundedMax
  <1>11. t \in 0..m - h /\ \A k \in 1..t : a[Len(a) + 1 - k] = b[Len(b) + 1 - k]
    BY <1>10 DEF T
  <1> QED
    BY <1>1, <1>2, <1>6, <1>11 DEF h, t

(* Two scripts in a row spell the texts in a row.                          *)
LEMMA SpellsConcat ==
  ASSUME NEW ops, NEW m, NEW s, NEW t, Spells(ops, m, s, t),
         NEW more, NEW n, NEW u, NEW v, Spells(more, n, u, v)
  PROVE  Spells(ops \o more, m + n, s \o u, t \o v)
  <1>1. ops \in Seq(Operation) /\ more \in Seq(Operation) /\ m \in Nat /\ n \in Nat
    BY DEF Spells
  <1>2. \A K : Side(ops \o more, K) = Side(ops, K) \o Side(more, K)
    BY <1>1, SideConcat
  <1>3. Side(ops, Unchanged) \in Seq(Line) /\ Side(more, Unchanged) \in Seq(Line)
    BY <1>1, SideTyped
  <1>4. Len(Side(ops \o more, Unchanged)) = m + n
    <2>1. Len(Side(ops, Unchanged) \o Side(more, Unchanged))
            = Len(Side(ops, Unchanged)) + Len(Side(more, Unchanged))
      BY <1>3, ConcatProperties
    <2>2. Len(Side(ops, Unchanged)) = m /\ Len(Side(more, Unchanged)) = n
      BY DEF Spells
    <2> QED
      BY <1>2, <2>1, <2>2
  <1>5. ops \o more \in Seq(Operation)
    BY <1>1, ConcatProperties
  <1>6. Side(ops \o more, Old) = s \o u /\ Side(ops \o more, New) = t \o v
    BY <1>2 DEF Spells
  <1> QED
    BY <1>1, <1>4, <1>5, <1>6 DEF Spells

(* The common head, what is left of each text, and the common tail.        *)
LEMMA DiffSplit ==
  ASSUME NEW a \in Seq(Line), NEW b \in Seq(Line)
  PROVE  LET h == CommonHead(a, b)
             t == CommonTail(a, b)
             p == SubSeq(a, h + 1, Len(a) - t)
             q == SubSeq(b, h + 1, Len(b) - t)
             first == SubSeq(a, 1, h)
             last == SubSeq(b, Len(b) - t + 1, Len(b))
         IN /\ first \in Seq(Line) /\ last \in Seq(Line) /\ p \in Seq(Line) /\ q \in Seq(Line)
            /\ Len(first) = h /\ Len(last) = t
            /\ a = first \o p \o last
            /\ b = first \o q \o last
  <1> DEFINE h == CommonHead(a, b)
             t == CommonTail(a, b)
             p == SubSeq(a, h + 1, Len(a) - t)
             q == SubSeq(b, h + 1, Len(b) - t)
             first == SubSeq(a, 1, h)
             last == SubSeq(b, Len(b) - t + 1, Len(b))
  <1>1. /\ h \in Nat /\ t \in Nat
        /\ h + t <= Len(a) /\ h + t <= Len(b)
        /\ \A k \in 1..h : a[k] = b[k]
        /\ \A k \in 1..t : a[Len(a) + 1 - k] = b[Len(b) + 1 - k]
    BY HeadAndTail
  <1>2. Len(a) \in Nat /\ Len(b) \in Nat 
    BY LenProperties
  <1> HIDE DEF h, t
  <1>4. /\ first \in Seq(Line) /\ Len(first) = h /\ \A k \in 1..h : first[k] = a[k]
        /\ last \in Seq(Line) /\ Len(last) = t /\ \A k \in 1..t : last[k] = b[Len(b) - t + k]
        /\ p \in Seq(Line) /\ q \in Seq(Line)
    <2>1. /\ 1 \in 1..Len(a) + 1 /\ h \in 0..Len(a)
          /\ Len(b) - t + 1 \in 1..Len(b) + 1 /\ Len(b) \in 0..Len(b)
          /\ h + 1 \in 1..Len(a) + 1 /\ Len(a) - t \in 0..Len(a)
          /\ h + 1 \in 1..Len(b) + 1 /\ Len(b) - t \in 0..Len(b)
      BY <1>1, <1>2
    <2>2. /\ first \in Seq(Line)
          /\ Len(first) = IF 1 <= h THEN h - 1 + 1 ELSE 0
          /\ \A k \in 1..h - 1 + 1 : first[k] = a[1 + k - 1]
      BY <2>1, SubSequence
    <2>3. /\ last \in Seq(Line)
          /\ Len(last) = IF Len(b) - t + 1 <= Len(b) THEN Len(b) - (Len(b) - t + 1) + 1 ELSE 0
          /\ \A k \in 1..Len(b) - (Len(b) - t + 1) + 1 : last[k] = b[(Len(b) - t + 1) + k - 1]
      BY <2>1, SubSequence
    <2>4. p \in Seq(Line) /\ q \in Seq(Line)
      BY <2>1, SubSequence
    <2> HIDE DEF first, last, p, q
    <2>5. Len(first) = h /\ \A k \in 1..h : first[k] = a[k]
      <3>1. h - 1 + 1 = h /\ \A k \in 1..h : 1 + k - 1 = k
        BY <1>1
      <3> QED
        BY <1>1, <2>2, <3>1
    <2>6. Len(last) = t /\ \A k \in 1..t : last[k] = b[Len(b) - t + k]
      <3>1. Len(b) - (Len(b) - t + 1) + 1 = t /\ \A k \in 1..t : (Len(b) - t + 1) + k - 1 = Len(b) - t + k
        BY <1>1, <1>2
      <3> QED
        BY <1>1, <1>2, <2>3, <3>1
    <2> QED
      BY <2>2, <2>3, <2>4, <2>5, <2>6
  <1>5. first = SubSeq(b, 1, h)
    <2> DEFINE other == SubSeq(b, 1, h)
    <2>1. 1 \in 1..Len(b) + 1 /\ h \in 0..Len(b)
      BY <1>1, <1>2
    <2>2. /\ other \in Seq(Line)
          /\ Len(other) = IF 1 <= h THEN h - 1 + 1 ELSE 0
          /\ \A k \in 1..h - 1 + 1 : other[k] = b[1 + k - 1]
      BY <2>1, SubSequence
    <2> HIDE DEF first, other
    <2>3. Len(other) = h
      BY <1>1, <2>2
    <2>4. ASSUME NEW k \in 1..h
          PROVE  other[k] = first[k]
      <3>1. h - 1 + 1 = h /\ 1 + k - 1 = k
        BY <1>1
      <3>2. other[k] = b[k]
        BY <2>2, <3>1
      <3> QED
        BY <1>1, <1>4, <3>2
    <2> QED
      BY <1>4, <2>2, <2>3, <2>4, SeqEqual DEF other
  <1>6. last = SubSeq(a, Len(a) - t + 1, Len(a))
    <2> DEFINE other == SubSeq(a, Len(a) - t + 1, Len(a))
    <2>1. Len(a) - t + 1 \in 1..Len(a) + 1 /\ Len(a) \in 0..Len(a)
      BY <1>1, <1>2
    <2>2. /\ other \in Seq(Line)
          /\ Len(other) = IF Len(a) - t + 1 <= Len(a) THEN Len(a) - (Len(a) - t + 1) + 1 ELSE 0
          /\ \A k \in 1..Len(a) - (Len(a) - t + 1) + 1 : other[k] = a[(Len(a) - t + 1) + k - 1]
      BY <2>1, SubSequence
    <2> HIDE DEF last, other
    <2>3. Len(other) = t /\ \A k \in 1..t : other[k] = a[Len(a) - t + k]
      <3>1. Len(a) - (Len(a) - t + 1) + 1 = t /\ \A k \in 1..t : (Len(a) - t + 1) + k - 1 = Len(a) - t + k
        BY <1>1, <1>2
      <3> QED
        BY <1>1, <1>2, <2>2, <3>1
    <2>4. \A k \in 1..t : a[Len(a) - t + k] = b[Len(b) - t + k]
      <3> SUFFICES ASSUME NEW k \in 1..t PROVE a[Len(a) - t + k] = b[Len(b) - t + k]
        OBVIOUS
      <3>1. t + 1 - k \in 1..t
        BY <1>1
      <3>2. Len(a) + 1 - (t + 1 - k) = Len(a) - t + k /\ Len(b) + 1 - (t + 1 - k) = Len(b) - t + k
        BY <1>1, <1>2
      <3> QED
        BY <1>1, <3>1, <3>2
    <2>5. \A k \in 1..t : other[k] = last[k]
      BY <1>4, <2>3, <2>4
    <2> QED
      BY <1>4, <2>2, <2>3, <2>5, SeqEqual, ZenonT(60) DEF other
  <1>7. a = first \o p \o last
    <2>1. /\ h + 1 \in 1..Len(a) + 1 /\ h \in 0..Len(a) /\ Len(a) - t \in h..Len(a)
          /\ 1 \in 1..Len(a) + 1 /\ h \in 1 - 1..Len(a)
          /\ Len(a) - t \in 1 - 1..Len(a) /\ Len(a) \in Len(a) - t..Len(a)
      BY <1>1, <1>2
    <2>2. first \o p = SubSeq(a, 1, Len(a) - t)
      BY <2>1, ConcatAdjacentSubSeq
    <2>3. SubSeq(a, 1, Len(a) - t) \o SubSeq(a, Len(a) - t + 1, Len(a)) = SubSeq(a, 1, Len(a))
      BY <2>1, ConcatAdjacentSubSeq
    <2>4. SubSeq(a, 1, Len(a)) = a
      BY SubSeqFull
    <2> HIDE DEF first, p, last
    <2> QED
      BY <1>6, <2>2, <2>3, <2>4
  <1>8. b = first \o q \o last
    <2>1. /\ h + 1 \in 1..Len(b) + 1 /\ h \in 0..Len(b) /\ Len(b) - t \in h..Len(b)
          /\ 1 \in 1..Len(b) + 1 /\ h \in 1 - 1..Len(b)
          /\ Len(b) - t \in 1 - 1..Len(b) /\ Len(b) \in Len(b) - t..Len(b)
      BY <1>1, <1>2
    <2>2. SubSeq(b, 1, h) \o q = SubSeq(b, 1, Len(b) - t)
      BY <2>1, ConcatAdjacentSubSeq
    <2>3. SubSeq(b, 1, Len(b) - t) \o SubSeq(b, Len(b) - t + 1, Len(b)) = SubSeq(b, 1, Len(b))
      BY <2>1, ConcatAdjacentSubSeq
    <2>4. SubSeq(b, 1, Len(b)) = b
      BY SubSeqFull
    <2> HIDE DEF first, q
    <2> QED
      BY <1>5, <2>2, <2>3, <2>4
  <1> HIDE DEF first, last, p, q
  <1> QED
    BY <1>4, <1>7, <1>8 DEF h, t, first, last, p, q

(* What diffLines keeps: the common head and tail and the longest common   *)
(* subsequence of what is left.                                            *)
KeptLines(a, b) ==
  LET h == CommonHead(a, b)
      t == CommonTail(a, b)
  IN h + LcsTable(SubSeq(a, h + 1, Len(a) - t), SubSeq(b, h + 1, Len(b) - t))[<<1, 1>>] + t

(* Below the size guard diffLines spells both texts, keeping the common    *)
(* prefix and suffix and what the table counts between them.               *)
LEMMA DiffSpells ==
  ASSUME NEW a \in Seq(Line), NEW b \in Seq(Line), Len(a) <= LcsGuard, Len(b) <= LcsGuard
  PROVE  Spells(DiffLines(a, b), KeptLines(a, b), a, b)
  <1> DEFINE h == CommonHead(a, b)
             t == CommonTail(a, b)
             p == SubSeq(a, h + 1, Len(a) - t)
             q == SubSeq(b, h + 1, Len(b) - t)
             first == SubSeq(a, 1, h)
             last == SubSeq(b, Len(b) - t + 1, Len(b))
             cell == LcsTable(p, q)[<<1, 1>>]
  <1>1. DiffLines(a, b) = Ops("equal", first) \o Script(p, q) \o Ops("equal", last)
    <2>1. Len(a) \in Nat /\ Len(b) \in Nat /\ LcsGuard \in Nat
      BY LenProperties, LineAssumption
    <2> QED
      BY <2>1 DEF DiffLines
  <1>2. /\ first \in Seq(Line) /\ last \in Seq(Line) /\ p \in Seq(Line) /\ q \in Seq(Line)
        /\ Len(first) = h /\ Len(last) = t
        /\ a = first \o p \o last
        /\ b = first \o q \o last
    BY DiffSplit
  <1> HIDE DEF first, last, p, q, h, t
  <1>3. Spells(Script(p, q), cell, p, q)
    <2>1. Len(p) \in Nat /\ Len(q) \in Nat
      BY <1>2, LenProperties
    <2>2. 1 \in 1..Len(p) + 1 /\ 1 \in 1..Len(q) + 1
      BY <2>1
    <2>3. Spells(Walk(p, q)[<<1, 1>>], cell, SubSeq(p, 1, Len(p)), SubSeq(q, 1, Len(q)))
      BY <1>2, <2>2, WalkSpells
    <2>4. SubSeq(p, 1, Len(p)) = p /\ SubSeq(q, 1, Len(q)) = q
      BY <1>2, SubSeqFull
    <2> QED
      BY <2>3, <2>4 DEF Script
  <1>4. Spells(Ops("equal", first), h, first, first) /\ Spells(Ops("equal", last), t, last, last)
    BY <1>2, SpellsOps
  <1>5. Spells(Ops("equal", first) \o Script(p, q), h + cell, first \o p, first \o q)
    BY <1>3, <1>4, SpellsConcat
  <1>6. Spells(Ops("equal", first) \o Script(p, q) \o Ops("equal", last), h + cell + t,
                first \o p \o last, first \o q \o last)
    BY <1>4, <1>5, SpellsConcat
  <1>7. KeptLines(a, b) = h + cell + t
    BY DEF KeptLines, h, t, p, q
  <1> QED
    BY <1>1, <1>2, <1>6, <1>7

(* Above the size guard diffLines replaces the whole text.                 *)
LEMMA ReplacementSpells ==
  ASSUME NEW a \in Seq(Line), NEW b \in Seq(Line), ~(Len(a) <= LcsGuard /\ Len(b) <= LcsGuard)
  PROVE  Spells(DiffLines(a, b), 0, a, b)
  <1>1. Len(a) \in Nat /\ Len(b) \in Nat /\ LcsGuard \in Nat
    BY LenProperties, LineAssumption
  <1>2. DiffLines(a, b) = Ops("delete", a) \o Ops("insert", b)
    BY <1>1 DEF DiffLines
  <1>3. Spells(Ops("delete", a), 0, a, <<>>) /\ Spells(Ops("insert", b), 0, <<>>, b)
    BY SpellsOps
  <1>4. Spells(Ops("delete", a) \o Ops("insert", b), 0 + 0, a \o <<>>, <<>> \o b)
    BY <1>3, SpellsConcat
  <1>5. a \o <<>> = a /\ <<>> \o b = b
    BY ConcatEmptySeq
  <1> QED
    BY <1>2, <1>4, <1>5

(* The script spells both texts, whatever their size.                      *)
LEMMA DiffExact ==
  ASSUME NEW a \in Seq(Line), NEW b \in Seq(Line)
  PROVE  /\ DiffLines(a, b) \in Seq(Operation)
         /\ OldSide(DiffLines(a, b)) = a
         /\ NewSide(DiffLines(a, b)) = b
  BY DiffSpells, ReplacementSpells DEF Spells, OldSide, NewSide, Old, New

-----------------------------------------------------------------------------
(* Subsequences, from either end.                                          *)
LEMMA ConsInduction ==
  ASSUME NEW A, NEW T, <<>> \in T,
         \A s \in Seq(A), x \in A : s \in T => <<x>> \o s \in T
  PROVE  Seq(A) \subseteq T
  <1> DEFINE S == {n \in Nat : \A s \in Seq(A) : Len(s) = n => s \in T}
  <1>1. 0 \in S
    BY EmptySeq
  <1>2. ASSUME NEW n \in Nat, n \in S
        PROVE  n + 1 \in S
    <2> SUFFICES ASSUME NEW s \in Seq(A), Len(s) = n + 1
                 PROVE  s \in T
      OBVIOUS
    <2>1. s # <<>>
      OBVIOUS
    <2>2. /\ Head(s) \in A /\ Tail(s) \in Seq(A) /\ Len(Tail(s)) = Len(s) - 1
          /\ s = <<Head(s)>> \o Tail(s)
      BY <2>1, HeadTailProperties
    <2> DEFINE t == Tail(s)
    <2>3. t \in Seq(A) /\ Len(t) = n
      BY <2>2
    <2> HIDE DEF t
    <2>4. t \in T
      BY <1>2, <2>3
    <2> QED
      BY <2>2, <2>4 DEF t
  <1> HIDE DEF S
  <1>3. Nat \subseteq S
    BY <1>1, <1>2, Induction
  <1> QED
    BY <1>3 DEF S

(* Sequences that begin alike and are equal are equal from then on.        *)
LEMMA ConsEqual ==
  ASSUME NEW A, NEW s \in Seq(A), NEW t \in Seq(A), NEW x \in A, NEW y \in A,
         <<x>> \o s = <<y>> \o t
  PROVE  x = y /\ s = t
  <1>1. <<x>> \in Seq(A) /\ <<y>> \in Seq(A) /\ Len(<<x>>) = 1 /\ Len(<<y>>) = 1
        /\ Len(s) \in Nat /\ Len(t) \in Nat
    BY LenProperties
  <1>2. /\ Len(<<x>> \o s) = 1 + Len(s)
        /\ \A i \in 1..1 + Len(s) : (<<x>> \o s)[i] = IF i <= 1 THEN <<x>>[i] ELSE s[i - 1]
    BY <1>1, ConcatProperties
  <1>3. /\ Len(<<y>> \o t) = 1 + Len(t)
        /\ \A i \in 1..1 + Len(t) : (<<y>> \o t)[i] = IF i <= 1 THEN <<y>>[i] ELSE t[i - 1]
    BY <1>1, ConcatProperties
  <1>4. Len(s) = Len(t)
    BY <1>1, <1>2, <1>3
  <1>5. x = y
    <2>1. 1 \in 1..1 + Len(s) /\ 1 \in 1..1 + Len(t)
      BY <1>1
    <2> QED
      BY <1>2, <1>3, <2>1
  <1>6. ASSUME NEW i \in 1..Len(s)
        PROVE  s[i] = t[i]
    <2>1. i + 1 \in 1..1 + Len(s) /\ i + 1 \in 1..1 + Len(t) /\ ~(i + 1 <= 1) /\ (i + 1) - 1 = i
      BY <1>1, <1>4
    <2>2. (<<x>> \o s)[i + 1] = s[i]
      BY <1>2, <2>1
    <2>3. (<<y>> \o t)[i + 1] = t[i]
      BY <1>3, <2>1
    <2> QED
      BY <2>2, <2>3
  <1> QED
    BY <1>4, <1>5, <1>6, SeqEqual

(* Sequences that are equal end alike and are equal up to then.            *)
LEMMA AppendEqual ==
  ASSUME NEW A, NEW s \in Seq(A), NEW t \in Seq(A), NEW x \in A, NEW y \in A,
         Append(s, x) = Append(t, y)
  PROVE  x = y /\ s = t
  <1>1. /\ Len(Append(s, x)) = Len(s) + 1 /\ Len(Append(t, y)) = Len(t) + 1
        /\ \A i \in 1..Len(s) : Append(s, x)[i] = s[i]
        /\ \A i \in 1..Len(t) : Append(t, y)[i] = t[i]
        /\ Append(s, x)[Len(s) + 1] = x /\ Append(t, y)[Len(t) + 1] = y
        /\ Len(s) \in Nat /\ Len(t) \in Nat
    BY AppendProperties, LenProperties
  <1>2. Len(s) = Len(t)
    BY <1>1
  <1>3. x = y /\ \A i \in 1..Len(s) : s[i] = t[i]
    BY <1>1, <1>2
  <1> QED
    BY <1>2, <1>3, SeqEqual

(* What is picked from a sequence with an element put in front of it.      *)
LEMMA PickedCons ==
  ASSUME NEW A, NEW x \in A, NEW s \in Seq(A), NEW S, NEW Q,
         \A k \in 1..Len(s) : k \in Q <=> k + 1 \in S
  PROVE  /\ 1 \in S => Picked(<<x>> \o s, S) = <<x>> \o Picked(s, Q)
         /\ 1 \notin S => Picked(<<x>> \o s, S) = Picked(s, Q)
  <1> DEFINE R(t) == {k \in 1..Len(t) : k + 1 \in S}
             e == IF 1 \in S THEN <<x>> ELSE <<>>
             T == {t \in Seq(A) : Picked(<<x>> \o t, S) = e \o Picked(t, R(t))}
  <1>1. e \in Seq(A)
    OBVIOUS
  <1>2. <<>> \in T
    <2>1. Picked(<<>>, S) = <<>> /\ Picked(<<>>, R(<<>>)) = <<>>
      BY PickedEmpty
    <2>2. <<>> \in Seq(A) /\ Append(<<>>, x) = <<x>> /\ <<x>> \o <<>> = <<x>> /\ Len(<<>>) + 1 = 1
      BY EmptySeq
    <2>3. Picked(<<x>>, S) = e
      <3>1. /\ Len(<<>>) + 1 \in S => Picked(Append(<<>>, x), S) = Append(Picked(<<>>, S), x)
            /\ Len(<<>>) + 1 \notin S => Picked(Append(<<>>, x), S) = Picked(<<>>, S)
        BY <2>2, PickedAppend
      <3> QED
        BY <2>1, <2>2, <3>1
    <2>4. e \o <<>> = e
      BY <1>1, ConcatEmptySeq
    <2> QED
      BY <2>1, <2>2, <2>3, <2>4
  <1>3. ASSUME NEW t \in Seq(A), NEW y \in A, t \in T
        PROVE  Append(t, y) \in T
    <2> DEFINE u == <<x>> \o t
    <2>1. <<x>> \in Seq(A) /\ Len(<<x>>) = 1 /\ Len(t) \in Nat
      BY LenProperties
    <2>2. u \in Seq(A) /\ Len(u) = Len(t) + 1
      BY <2>1, ConcatProperties
    <2>3. <<x>> \o Append(t, y) = Append(u, y)
      BY <2>1, SequenceAppend
    <2>4. Append(t, y) \in Seq(A) /\ Len(Append(t, y)) = Len(t) + 1
      BY AppendProperties
    <2> HIDE DEF u
    <2>5. /\ Len(u) + 1 \in S => Picked(Append(u, y), S) = Append(Picked(u, S), y)
          /\ Len(u) + 1 \notin S => Picked(Append(u, y), S) = Picked(u, S)
      BY <2>2, PickedAppend
    <2> DEFINE P == R(Append(t, y))
    <2>6. Len(t) + 1 \in P <=> Len(u) + 1 \in S
      BY <2>1, <2>2, <2>4
    <2>7. \A k \in 1..Len(t) : k \in P <=> k \in R(t)
      BY <2>1, <2>4
    <2>8. Picked(t, P) = Picked(t, R(t))
      <3> HIDE DEF P, R
      <3> QED
        BY <2>7, PickedSame
    <2>9. /\ Len(t) + 1 \in P => Picked(Append(t, y), P) = Append(Picked(t, P), y)
          /\ Len(t) + 1 \notin P => Picked(Append(t, y), P) = Picked(t, P)
      <3> HIDE DEF P
      <3> QED
        BY PickedAppend
    <2>10. Picked(t, R(t)) \in Seq(A)
      BY PickedTyped
    <2>11. e \o Append(Picked(t, R(t)), y) = Append(e \o Picked(t, R(t)), y)
      BY <1>1, <2>10, SequenceAppend
    <2>12. Picked(u, S) = e \o Picked(t, R(t))
      BY <1>3 DEF u
    <2> HIDE DEF e, R, P
    <2>13. Picked(Append(u, y), S) = e \o Picked(Append(t, y), P)
      BY <2>5, <2>6, <2>8, <2>9, <2>11, <2>12
    <2> QED
      BY <2>3, <2>4, <2>13 DEF P
  <1> HIDE DEF T
  <1>4. Seq(A) \subseteq T
    BY <1>2, <1>3, SequenceInduction
  <1>5. Picked(<<x>> \o s, S) = e \o Picked(s, R(s))
    BY <1>4 DEF T
  <1>6. \A k \in 1..Len(s) : k \in R(s) <=> k \in Q
    OBVIOUS
  <1> HIDE DEF R
  <1>7. Picked(s, R(s)) = Picked(s, Q)
    BY <1>6, PickedSame
  <1>8. Picked(s, Q) \in Seq(A) /\ <<>> \o Picked(s, Q) = Picked(s, Q)
    <2>1. Picked(s, Q) \in Seq(A)
      BY PickedTyped
    <2> QED
      BY <2>1, ConcatEmptySeq
  <1> QED
    BY <1>5, <1>7, <1>8

(* The subsequences of a text are texts.                                   *)
LEMMA SubsequencesTyped ==
  ASSUME NEW t \in Seq(Line), NEW s \in Subsequences(t)
  PROVE  s \in Seq(Line)
  BY PickedTyped DEF Subsequences

(* The empty text has one subsequence.                                     *)
LEMMA SubsequencesOfNone ==
  Subsequences(<<>>) = {<<>>}
  <1>1. \A S : Picked(<<>>, S) = <<>>
    BY PickedEmpty
  <1>2. {} \in SUBSET DOMAIN <<>>
    OBVIOUS
  <1>3. ASSUME NEW s \in Subsequences(<<>>)
        PROVE  s = <<>>
    <2>1. PICK S : s = Picked(<<>>, S)
      BY DEF Subsequences
    <2> QED
      BY <1>1, <2>1
  <1>4. <<>> \in Subsequences(<<>>)
    <2>1. Picked(<<>>, {}) \in Subsequences(<<>>)
      BY <1>2 DEF Subsequences
    <2> QED
      BY <1>1, <2>1
  <1> QED
    BY <1>3, <1>4

(* The empty text is a subsequence of every text.                          *)
LEMMA NoneIsSubsequence ==
  ASSUME NEW t \in Seq(Line)
  PROVE  <<>> \in Subsequences(t)
  <1> DEFINE T == {u \in Seq(Line) : Picked(u, {}) = <<>>}
  <1>1. <<>> \in T
    BY PickedEmpty
  <1>2. ASSUME NEW u \in Seq(Line), NEW x \in Line, u \in T
        PROVE  Append(u, x) \in T
    BY <1>2, PickedAppend, AppendProperties
  <1> HIDE DEF T
  <1>3. Seq(Line) \subseteq T
    BY <1>1, <1>2, SequenceInduction
  <1>4. Picked(t, {}) = <<>>
    BY <1>3 DEF T
  <1> QED
    BY <1>4 DEF Subsequences

(* A subsequence of a longer text leaves the new line out or takes it.     *)
LEMMA SubsequencesAppend ==
  ASSUME NEW t \in Seq(Line), NEW x \in Line
  PROVE  /\ \A s \in Subsequences(t) : /\ s \in Subsequences(Append(t, x))
                                       /\ Append(s, x) \in Subsequences(Append(t, x))
         /\ \A s \in Subsequences(Append(t, x)) :
              \/ s \in Subsequences(t)
              \/ \E r \in Subsequences(t) : s = Append(r, x)
  <1>1. /\ Append(t, x) \in Seq(Line)
        /\ Len(Append(t, x)) = Len(t) + 1 /\ Len(t) \in Nat
        /\ DOMAIN t = 1..Len(t) /\ DOMAIN Append(t, x) = 1..Len(t) + 1
    BY AppendProperties, LenProperties
  <1>2. ASSUME NEW S \in SUBSET DOMAIN t
        PROVE  /\ Picked(t, S) \in Subsequences(Append(t, x))
               /\ Append(Picked(t, S), x) \in Subsequences(Append(t, x))
    <2> DEFINE R == S \cup {Len(t) + 1}
    <2>1. /\ S \in SUBSET DOMAIN Append(t, x) /\ R \in SUBSET DOMAIN Append(t, x)
          /\ Len(t) + 1 \notin S /\ Len(t) + 1 \in R
          /\ \A k \in 1..Len(t) : k \in R <=> k \in S
      BY <1>1
    <2> HIDE DEF R
    <2>2. Picked(Append(t, x), S) = Picked(t, S)
      BY <2>1, PickedAppend
    <2>3. Picked(Append(t, x), R) = Append(Picked(t, R), x)
      BY <2>1, PickedAppend
    <2>4. Picked(t, R) = Picked(t, S)
      BY <2>1, PickedSame
    <2> QED
      BY <2>1, <2>2, <2>3, <2>4 DEF Subsequences
  <1>3. ASSUME NEW S \in SUBSET DOMAIN Append(t, x)
        PROVE  \/ Picked(Append(t, x), S) \in Subsequences(t)
               \/ \E r \in Subsequences(t) : Picked(Append(t, x), S) = Append(r, x)
    <2> DEFINE R == S \cap (1..Len(t))
    <2>1. R \in SUBSET DOMAIN t /\ \A k \in 1..Len(t) : k \in S <=> k \in R
      BY <1>1
    <2> HIDE DEF R
    <2>2. Picked(t, S) = Picked(t, R)
      BY <2>1, PickedSame
    <2>3. Picked(t, R) \in Subsequences(t)
      BY <2>1 DEF Subsequences
    <2>4. /\ Len(t) + 1 \in S => Picked(Append(t, x), S) = Append(Picked(t, S), x)
          /\ Len(t) + 1 \notin S => Picked(Append(t, x), S) = Picked(t, S)
      BY PickedAppend
    <2> QED
      BY <2>2, <2>3, <2>4
  <1> QED
    BY <1>2, <1>3 DEF Subsequences

(* With a line put in front of a text, its subsequences are those it had,  *)
(* with the line in front of them or without it.                           *)
LEMMA SubsequencesCons ==
  ASSUME NEW t \in Seq(Line), NEW x \in Line
  PROVE  /\ \A s \in Subsequences(t) : /\ s \in Subsequences(<<x>> \o t)
                                       /\ <<x>> \o s \in Subsequences(<<x>> \o t)
         /\ \A s \in Subsequences(<<x>> \o t) :
              \/ s \in Subsequences(t)
              \/ \E r \in Subsequences(t) : s = <<x>> \o r
  <1> DEFINE u == <<x>> \o t
  <1>1. <<x>> \in Seq(Line) /\ Len(<<x>>) = 1 /\ Len(t) \in Nat /\ DOMAIN t = 1..Len(t)
    BY LenProperties
  <1>2. u \in Seq(Line) /\ Len(u) = 1 + Len(t)
    BY <1>1, ConcatProperties
  <1>3. DOMAIN u = 1..1 + Len(t)
    BY <1>2, LenProperties
  <1>4. ASSUME NEW S, NEW Q, \A k \in 1..Len(t) : k \in Q <=> k + 1 \in S
        PROVE  /\ 1 \in S => Picked(u, S) = <<x>> \o Picked(t, Q)
               /\ 1 \notin S => Picked(u, S) = Picked(t, Q)
    BY <1>4, PickedCons
  <1> HIDE DEF u
  <1>6. ASSUME NEW S \in SUBSET DOMAIN t
        PROVE  Picked(t, S) \in Subsequences(u) /\ <<x>> \o Picked(t, S) \in Subsequences(u)
    <2> DEFINE Q == {k + 1 : k \in S}
               R == Q \cup {1}
    <2>1. /\ Q \in SUBSET DOMAIN u /\ R \in SUBSET DOMAIN u
          /\ 1 \notin Q /\ 1 \in R
          /\ \A k \in 1..Len(t) : k \in S <=> k + 1 \in Q
          /\ \A k \in 1..Len(t) : k \in S <=> k + 1 \in R
      BY <1>1, <1>3
    <2> HIDE DEF Q, R
    <2>2. Picked(u, Q) = Picked(t, S)
      BY <1>4, <2>1
    <2>3. Picked(u, R) = <<x>> \o Picked(t, S)
      BY <1>4, <2>1
    <2> QED
      BY <2>1, <2>2, <2>3 DEF Subsequences
  <1>7. ASSUME NEW S \in SUBSET DOMAIN u
        PROVE  \/ Picked(u, S) \in Subsequences(t)
               \/ \E r \in Subsequences(t) : Picked(u, S) = <<x>> \o r
    <2> DEFINE Q == {k \in 1..Len(t) : k + 1 \in S}
    <2>1. Q \in SUBSET DOMAIN t /\ \A k \in 1..Len(t) : k \in Q <=> k + 1 \in S
      BY <1>1
    <2> HIDE DEF Q
    <2>2. Picked(t, Q) \in Subsequences(t)
      BY <2>1 DEF Subsequences
    <2> QED
      BY <1>4, <2>1, <2>2
  <1> QED
    BY <1>6, <1>7 DEF Subsequences, u

(* A subsequence without its first or last line is one still.              *)
LEMMA SubsequenceWithoutFirst ==
  ASSUME NEW t \in Seq(Line), NEW y \in Line, NEW r \in Seq(Line), <<y>> \o r \in Subsequences(t)
  PROVE  r \in Subsequences(t)
  <1> DEFINE T == {u \in Seq(Line) : <<y>> \o r \in Subsequences(u) => r \in Subsequences(u)}
  <1>1. <<>> \in T
    <2>1. <<y>> \in Seq(Line) /\ Len(<<y>>) = 1 /\ Len(r) \in Nat
      BY LenProperties
    <2>2. Len(<<y>> \o r) = 1 + Len(r)
      BY <2>1, ConcatProperties
    <2>3. <<y>> \o r # <<>>
      BY <2>1, <2>2
    <2> QED
      BY <2>3, SubsequencesOfNone, EmptySeq
  <1>2. ASSUME NEW u \in Seq(Line), NEW x \in Line, u \in T
        PROVE  <<x>> \o u \in T
    <2>1. <<x>> \in Seq(Line)
      OBVIOUS
    <2>2. <<x>> \o u \in Seq(Line)
      BY <2>1, ConcatProperties
    <2> SUFFICES ASSUME <<y>> \o r \in Subsequences(<<x>> \o u)
                 PROVE  r \in Subsequences(<<x>> \o u)
      BY <2>2
    <2>3. CASE <<y>> \o r \in Subsequences(u)
      BY <1>2, <2>3, SubsequencesCons
    <2>4. CASE \E q \in Subsequences(u) : <<y>> \o r = <<x>> \o q
      <3>1. PICK q \in Subsequences(u) : <<y>> \o r = <<x>> \o q
        BY <2>4
      <3>2. q \in Seq(Line)
        BY SubsequencesTyped
      <3>3. r = q
        BY <3>1, <3>2, ConsEqual
      <3> QED
        BY <3>3, SubsequencesCons
    <2> QED
      BY <2>3, <2>4, SubsequencesCons
  <1> HIDE DEF T
  <1>3. Seq(Line) \subseteq T
    BY <1>1, <1>2, ConsInduction
  <1> QED
    BY <1>3 DEF T

(* A subsequence without its last line is a subsequence.                   *)
LEMMA SubsequenceWithoutLast ==
  ASSUME NEW t \in Seq(Line), NEW y \in Line, NEW r \in Seq(Line), Append(r, y) \in Subsequences(t)
  PROVE  r \in Subsequences(t)
  <1> DEFINE T == {u \in Seq(Line) : Append(r, y) \in Subsequences(u) => r \in Subsequences(u)}
  <1>1. <<>> \in T
    <2>1. Len(Append(r, y)) = Len(r) + 1 /\ Len(r) \in Nat
      BY AppendProperties, LenProperties
    <2>2. Append(r, y) # <<>>
      BY <2>1
    <2> QED
      BY <2>2, SubsequencesOfNone, EmptySeq
  <1>2. ASSUME NEW u \in Seq(Line), NEW x \in Line, u \in T
        PROVE  Append(u, x) \in T
    <2>1. Append(u, x) \in Seq(Line)
      BY AppendProperties
    <2> SUFFICES ASSUME Append(r, y) \in Subsequences(Append(u, x))
                 PROVE  r \in Subsequences(Append(u, x))
      BY <2>1
    <2>2. CASE Append(r, y) \in Subsequences(u)
      BY <1>2, <2>2, SubsequencesAppend
    <2>3. CASE \E q \in Subsequences(u) : Append(r, y) = Append(q, x)
      <3>1. PICK q \in Subsequences(u) : Append(r, y) = Append(q, x)
        BY <2>3
      <3>2. q \in Seq(Line)
        BY SubsequencesTyped
      <3>3. r = q
        BY <3>1, <3>2, AppendEqual
      <3> QED
        BY <3>3, SubsequencesAppend
    <2> QED
      BY <2>2, <2>3, SubsequencesAppend
  <1> HIDE DEF T
  <1>3. Seq(Line) \subseteq T
    BY <1>1, <1>2, SequenceInduction
  <1> QED
    BY <1>3 DEF T

-----------------------------------------------------------------------------
(* n is the length of the longest common subsequences of two texts.        *)
Longest(a, b, n) ==
  /\ n \in Nat
  /\ \E s \in Subsequences(a) \cap Subsequences(b) : Len(s) = n
  /\ \A s \in Subsequences(a) \cap Subsequences(b) : Len(s) <= n

(* A length that is reached and never exceeded is LongestCommon's.         *)
LEMMA LongestIsTheLength ==
  ASSUME NEW a \in Seq(Line), NEW b \in Seq(Line), NEW n, Longest(a, b, n)
  PROVE  LongestCommon(a, b) = n
  <1> DEFINE S == {Len(s) : s \in Subsequences(a) \cap Subsequences(b)}
  <1>1. \A s \in Subsequences(a) : Len(s) \in Nat
    BY SubsequencesTyped, LenProperties
  <1>2. S \subseteq Int /\ n \in S /\ \A y \in S : n >= y
    BY <1>1 DEF Longest
  <1>3. LongestCommon(a, b) = Max(S)
    BY DEF LongestCommon
  <1> HIDE DEF S
  <1> QED
    BY <1>2, <1>3, MaxIs

(* An empty text has nothing in common with another one.                   *)
LEMMA LongestOfNone ==
  ASSUME NEW a \in Seq(Line), NEW b \in Seq(Line), a = <<>> \/ b = <<>>
  PROVE  Longest(a, b, 0)
  <1>1. <<>> \in Subsequences(a) /\ <<>> \in Subsequences(b) /\ Len(<<>>) = 0
    BY NoneIsSubsequence
  <1>2. \A s \in Subsequences(a) \cap Subsequences(b) : s = <<>>
    BY SubsequencesOfNone
  <1> QED
    BY <1>1, <1>2 DEF Longest

(* A line both texts begin with adds one to what they have in common.      *)
LEMMA LongestConsEqual ==
  ASSUME NEW a \in Seq(Line), NEW b \in Seq(Line), NEW n, Longest(a, b, n), NEW x \in Line
  PROVE  Longest(<<x>> \o a, <<x>> \o b, n + 1)
  <1> DEFINE c == <<x>> \o a
             d == <<x>> \o b
  <1>0. n \in Nat
    BY DEF Longest
  <1>1. \A s \in Seq(Line), y \in Line : Len(<<y>> \o s) = Len(s) + 1 /\ Len(s) \in Nat
    <2> SUFFICES ASSUME NEW s \in Seq(Line), NEW y \in Line
                 PROVE  Len(<<y>> \o s) = Len(s) + 1 /\ Len(s) \in Nat
      OBVIOUS
    <2>1. <<y>> \in Seq(Line) /\ Len(<<y>>) = 1 /\ Len(s) \in Nat
      BY LenProperties
    <2> QED
      BY <2>1, ConcatProperties
  <1>2. \E s \in Subsequences(c) \cap Subsequences(d) : Len(s) = n + 1
    <2>1. PICK s \in Subsequences(a) \cap Subsequences(b) : Len(s) = n
      BY DEF Longest
    <2>2. <<x>> \o s \in Subsequences(c) \cap Subsequences(d)
      BY SubsequencesCons
    <2>3. Len(<<x>> \o s) = n + 1
      BY <1>1, <2>1, SubsequencesTyped
    <2> QED
      BY <2>2, <2>3
  <1>3. ASSUME NEW s \in Subsequences(c) \cap Subsequences(d)
        PROVE  Len(s) <= n + 1
    <2>1. c \in Seq(Line)
      <3>1. <<x>> \in Seq(Line)
        OBVIOUS
      <3> QED
        BY <3>1, ConcatProperties
    <2>2. s \in Seq(Line)
      <3> HIDE DEF c
      <3> QED
        BY <2>1, SubsequencesTyped
    <2>3. CASE s = <<>>
      BY <1>0, <2>3
    <2>4. CASE s # <<>>
      <3> DEFINE y == Head(s)
                 r == Tail(s)
      <3>1. y \in Line /\ r \in Seq(Line)
        BY <2>2, <2>4, HeadTailProperties
      <3>2. s = <<y>> \o r
        BY <2>2, <2>4
      <3> HIDE DEF y, r
      <3>3. r \in Subsequences(a)
        <4>1. CASE s \in Subsequences(a)
          BY <3>1, <3>2, <4>1, SubsequenceWithoutFirst
        <4>2. CASE \E q \in Subsequences(a) : s = <<x>> \o q
          BY <3>1, <3>2, <4>2, SubsequencesTyped, ConsEqual
        <4> QED
          BY <4>1, <4>2, SubsequencesCons
      <3>4. r \in Subsequences(b)
        <4>1. CASE s \in Subsequences(b)
          BY <3>1, <3>2, <4>1, SubsequenceWithoutFirst
        <4>2. CASE \E q \in Subsequences(b) : s = <<x>> \o q
          BY <3>1, <3>2, <4>2, SubsequencesTyped, ConsEqual
        <4> QED
          BY <4>1, <4>2, SubsequencesCons
      <3>5. Len(r) <= n
        BY <3>3, <3>4 DEF Longest
      <3>6. Len(s) = Len(r) + 1 /\ Len(r) \in Nat
        BY <1>1, <3>1, <3>2
      <3> QED
        BY <1>0, <3>5, <3>6
    <2> QED
      BY <2>3, <2>4
  <1>4. n + 1 \in Nat
    BY <1>0
  <1> HIDE DEF c, d
  <1>5. Longest(c, d, n + 1)
    BY <1>2, <1>3, <1>4 DEF Longest
  <1> QED
    BY <1>5 DEF c, d

(* A line both texts end with adds one to what they have in common.        *)
LEMMA LongestAppendEqual ==
  ASSUME NEW a \in Seq(Line), NEW b \in Seq(Line), NEW n, Longest(a, b, n), NEW x \in Line
  PROVE  Longest(Append(a, x), Append(b, x), n + 1)
  <1> DEFINE c == Append(a, x)
             d == Append(b, x)
  <1>0. n \in Nat
    BY DEF Longest
  <1>1. \A s \in Seq(Line), y \in Line : Len(Append(s, y)) = Len(s) + 1 /\ Len(s) \in Nat
    BY AppendProperties, LenProperties
  <1>2. \E s \in Subsequences(c) \cap Subsequences(d) : Len(s) = n + 1
    <2>1. PICK s \in Subsequences(a) \cap Subsequences(b) : Len(s) = n
      BY DEF Longest
    <2>2. Append(s, x) \in Subsequences(c) \cap Subsequences(d)
      BY SubsequencesAppend
    <2>3. Len(Append(s, x)) = n + 1
      BY <1>1, <2>1, SubsequencesTyped
    <2> QED
      BY <2>2, <2>3
  <1>3. ASSUME NEW s \in Subsequences(c) \cap Subsequences(d)
        PROVE  Len(s) <= n + 1
    <2>1. c \in Seq(Line)
      BY AppendProperties
    <2>2. s \in Seq(Line)
      <3> HIDE DEF c
      <3> QED
        BY <2>1, SubsequencesTyped
    <2>3. CASE s = <<>>
      BY <1>0, <2>3
    <2>4. CASE s # <<>>
      <3>1. PICK r \in Seq(Line), y \in Line : s = Append(r, y)
        BY <2>2, <2>4, SequenceEmptyOrAppend
      <3>2. r \in Subsequences(a)
        <4>1. CASE s \in Subsequences(a)
          BY <3>1, <4>1, SubsequenceWithoutLast
        <4>2. CASE \E q \in Subsequences(a) : s = Append(q, x)
          <5>1. PICK q \in Subsequences(a) : s = Append(q, x)
            BY <4>2
          <5>2. q \in Seq(Line) /\ Append(r, y) = Append(q, x)
            BY <3>1, <5>1, SubsequencesTyped
          <5>3. r = q
            BY <5>2, AppendEqual
          <5> QED
            BY <5>3
        <4> QED
          BY <4>1, <4>2, SubsequencesAppend
      <3>3. r \in Subsequences(b)
        <4>1. CASE s \in Subsequences(b)
          BY <3>1, <4>1, SubsequenceWithoutLast
        <4>2. CASE \E q \in Subsequences(b) : s = Append(q, x)
          <5>1. PICK q \in Subsequences(b) : s = Append(q, x)
            BY <4>2
          <5>2. q \in Seq(Line) /\ Append(r, y) = Append(q, x)
            BY <3>1, <5>1, SubsequencesTyped
          <5>3. r = q
            BY <5>2, AppendEqual
          <5> QED
            BY <5>3
        <4> QED
          BY <4>1, <4>2, SubsequencesAppend
      <3>4. Len(r) <= n
        BY <3>2, <3>3 DEF Longest
      <3>5. Len(s) = Len(r) + 1 /\ Len(r) \in Nat
        BY <1>1, <3>1
      <3> QED
        BY <1>0, <3>4, <3>5
    <2> QED
      BY <2>3, <2>4
  <1>4. n + 1 \in Nat
    BY <1>0
  <1> HIDE DEF c, d
  <1>5. Longest(c, d, n + 1)
    BY <1>2, <1>3, <1>4 DEF Longest
  <1> QED
    BY <1>5 DEF c, d

(* Texts that begin differently have in common what they do when the first *)
(* line of one of them is dropped, of the better one.                      *)
LEMMA LongestConsDifferent ==
  ASSUME NEW a \in Seq(Line), NEW b \in Seq(Line), NEW x \in Line, NEW y \in Line, x # y,
         NEW m, Longest(a, <<y>> \o b, m), NEW n, Longest(<<x>> \o a, b, n)
  PROVE  Longest(<<x>> \o a, <<y>> \o b, IF m >= n THEN m ELSE n)
  <1> DEFINE c == <<x>> \o a
             d == <<y>> \o b
             top == IF m >= n THEN m ELSE n
  <1>1. m \in Nat /\ n \in Nat
    BY DEF Longest
  <1>2. top \in Nat
    BY <1>1
  <1>3. Subsequences(a) \subseteq Subsequences(c) /\ Subsequences(b) \subseteq Subsequences(d)
    BY SubsequencesCons
  <1>4. \E s \in Subsequences(c) \cap Subsequences(d) : Len(s) = top
    BY <1>3 DEF Longest
  <1>5. ASSUME NEW s \in Subsequences(c) \cap Subsequences(d)
        PROVE  Len(s) <= top
    <2>0. \A s1 \in Subsequences(a) : Len(s1) \in Nat
      BY SubsequencesTyped, LenProperties
    <2>1. CASE s \in Subsequences(a)
      <3>1. Len(s) <= m
        BY <2>1 DEF Longest
      <3> QED
        BY <1>1, <2>0, <2>1, <3>1
    <2>2. CASE s \in Subsequences(b)
      <3>1. Len(s) <= n
        BY <2>2 DEF Longest
      <3>2. Len(s) \in Nat
        BY <2>2, SubsequencesTyped, LenProperties
      <3> QED
        BY <1>1, <3>1, <3>2
    <2>3. CASE (\E q \in Subsequences(a) : s = <<x>> \o q) /\ (\E q \in Subsequences(b) : s = <<y>> \o q)
      BY <2>3, SubsequencesTyped, ConsEqual
    <2> QED
      BY <2>1, <2>2, <2>3, SubsequencesCons
  <1> HIDE DEF c, d, top
  <1>6. Longest(c, d, top)
    BY <1>2, <1>4, <1>5 DEF Longest
  <1> QED
    BY <1>6 DEF c, d, top

-----------------------------------------------------------------------------
(* The table holds the lengths of the longest common subsequences.         *)
LEMMA TableIsLongest ==
  ASSUME NEW a \in Seq(Line), NEW b \in Seq(Line), NEW i \in 1..Len(a) + 1, NEW j \in 1..Len(b) + 1
  PROVE  Longest(SubSeq(a, i, Len(a)), SubSeq(b, j, Len(b)), LcsTable(a, b)[<<i, j>>])
  <1> DEFINE C(x, y) == LcsTable(a, b)[<<x, y>>]
             P(x, y) == Longest(SubSeq(a, x, Len(a)), SubSeq(b, y, Len(b)), C(x, y))
             T == {n \in Nat : \A x \in 1..Len(a) + 1, y \in 1..Len(b) + 1 :
                     (Len(a) + 1 - x) + (Len(b) + 1 - y) <= n => P(x, y)}
  <1>1. Len(a) \in Nat /\ Len(b) \in Nat
    BY LenProperties
  <1>2. ASSUME NEW x \in 1..Len(a) + 1, NEW y \in 1..Len(b) + 1
        PROVE  SubSeq(a, x, Len(a)) \in Seq(Line) /\ SubSeq(b, y, Len(b)) \in Seq(Line)
    BY <1>1, SubSequence
  <1>3. ASSUME NEW x \in 1..Len(a) + 1, NEW y \in 1..Len(b) + 1, x > Len(a) \/ y > Len(b)
        PROVE  P(x, y)
    <2>1. SubSeq(a, x, Len(a)) = <<>> \/ SubSeq(b, y, Len(b)) = <<>>
      BY <1>1, <1>3, SubSeqEmpty
    <2>2. C(x, y) = 0
      BY <1>3, TableEquation
    <2> HIDE DEF C
    <2> QED
      BY <1>2, <2>1, <2>2, LongestOfNone
  <1>4. ASSUME NEW x \in 1..Len(a), NEW y \in 1..Len(b),
               P(x + 1, y + 1), P(x + 1, y), P(x, y + 1)
        PROVE  P(x, y)
    <2> DEFINE u == SubSeq(a, x + 1, Len(a))
               v == SubSeq(b, y + 1, Len(b))
    <2>1. SubSeq(a, x, Len(a)) = <<a[x]>> \o u /\ SubSeq(b, y, Len(b)) = <<b[y]>> \o v
      <3>1. Len(a) \in x..Len(a) /\ Len(b) \in y..Len(b)
        BY <1>1
      <3> QED
        BY <3>1, SubSeqRecursiveFirst
    <2>2. /\ x \in 1..Len(a) + 1 /\ x <= Len(a) /\ x + 1 \in 1..Len(a) + 1
          /\ y \in 1..Len(b) + 1 /\ y <= Len(b) /\ y + 1 \in 1..Len(b) + 1
      BY <1>1
    <2>3. a[x] \in Line /\ b[y] \in Line
      BY ElementOfSeq
    <2>4. u \in Seq(Line) /\ v \in Seq(Line)
      BY <1>2, <2>2
    <2>5. C(x + 1, y) \in Nat /\ C(x, y + 1) \in Nat
      BY <1>4 DEF Longest
    <2>6. /\ a[x] = b[y] => C(x, y) = C(x + 1, y + 1) + 1
          /\ a[x] # b[y] => C(x, y) = IF C(x + 1, y) >= C(x, y + 1) THEN C(x + 1, y) ELSE C(x, y + 1)
      <3>1. a[x] = b[y] => C(x, y) = C(x + 1, y + 1) + 1
        BY <2>2, TableEquation, ZenonT(60)
      <3>2. a[x] # b[y] => C(x, y) = IF C(x + 1, y) >= C(x, y + 1) THEN C(x + 1, y) ELSE C(x, y + 1)
        BY <2>2, <2>5, TableEquation, ZenonT(60)
      <3> QED
        BY <3>1, <3>2
    <2> HIDE DEF C, u, v
    <2>7. CASE a[x] = b[y]
      <3>1. Longest(u, v, C(x + 1, y + 1))
        BY <1>4 DEF u, v
      <3>2. Longest(<<a[x]>> \o u, <<a[x]>> \o v, C(x + 1, y + 1) + 1)
        BY <2>3, <2>4, <3>1, LongestConsEqual
      <3> QED
        BY <2>1, <2>6, <2>7, <3>2
    <2>8. CASE a[x] # b[y]
      <3>1. Longest(u, <<b[y]>> \o v, C(x + 1, y)) /\ Longest(<<a[x]>> \o u, v, C(x, y + 1))
        BY <1>4, <2>1 DEF u, v
      <3>2. Longest(<<a[x]>> \o u, <<b[y]>> \o v,
                    IF C(x + 1, y) >= C(x, y + 1) THEN C(x + 1, y) ELSE C(x, y + 1))
        BY <2>3, <2>4, <2>8, <3>1, LongestConsDifferent
      <3> QED
        BY <2>1, <2>6, <2>8, <3>2
    <2> QED
      BY <2>7, <2>8
  <1> HIDE DEF P
  <1>5. 0 \in T
    <2> SUFFICES ASSUME NEW x \in 1..Len(a) + 1, NEW y \in 1..Len(b) + 1,
                        (Len(a) + 1 - x) + (Len(b) + 1 - y) <= 0
                 PROVE  P(x, y)
      OBVIOUS
    <2>1. x > Len(a)
      BY <1>1
    <2> QED
      BY <1>3, <2>1
  <1>6. ASSUME NEW n \in Nat, n \in T
        PROVE  n + 1 \in T
    <2> SUFFICES ASSUME NEW x \in 1..Len(a) + 1, NEW y \in 1..Len(b) + 1,
                        (Len(a) + 1 - x) + (Len(b) + 1 - y) <= n + 1
                 PROVE  P(x, y)
      OBVIOUS
    <2>1. CASE x > Len(a) \/ y > Len(b)
      BY <1>3, <2>1
    <2>2. CASE x <= Len(a) /\ y <= Len(b)
      <3>1. /\ x \in 1..Len(a) /\ x + 1 \in 1..Len(a) + 1
            /\ y \in 1..Len(b) /\ y + 1 \in 1..Len(b) + 1
        BY <1>1, <2>2
      <3>2. /\ (Len(a) + 1 - (x + 1)) + (Len(b) + 1 - (y + 1)) <= n
            /\ (Len(a) + 1 - (x + 1)) + (Len(b) + 1 - y) <= n
            /\ (Len(a) + 1 - x) + (Len(b) + 1 - (y + 1)) <= n
        BY <1>1
      <3>3. P(x + 1, y + 1) /\ P(x + 1, y) /\ P(x, y + 1)
        BY <1>6, <3>1, <3>2
      <3> QED
        BY <1>4, <3>1, <3>3
    <2> QED
      BY <1>1, <2>1, <2>2
  <1> HIDE DEF T
  <1>7. Nat \subseteq T
    BY <1>5, <1>6, Induction
  <1>8. (Len(a) + 1 - i) + (Len(b) + 1 - j) \in T
    BY <1>1, <1>7
  <1>9. P(i, j)
    BY <1>1, <1>8 DEF T
  <1> QED
    BY <1>9 DEF P

(* A common head or tail adds its length.                                  *)
LEMMA LongestWithHead ==
  ASSUME NEW u \in Seq(Line), NEW p \in Seq(Line), NEW q \in Seq(Line), NEW n, Longest(p, q, n)
  PROVE  Longest(u \o p, u \o q, Len(u) + n)
  <1> DEFINE T == {w \in Seq(Line) : Longest(w \o p, w \o q, Len(w) + n)}
  <1>0. n \in Nat
    BY DEF Longest
  <1>1. <<>> \in T
    <2>1. <<>> \o p = p /\ <<>> \o q = q /\ Len(<<>>) + n = n /\ <<>> \in Seq(Line)
      BY <1>0, ConcatEmptySeq, EmptySeq
    <2> QED
      BY <2>1
  <1>2. ASSUME NEW w \in Seq(Line), NEW x \in Line, w \in T
        PROVE  <<x>> \o w \in T
    <2>1. <<x>> \in Seq(Line) /\ Len(<<x>>) = 1 /\ Len(w) \in Nat
      BY LenProperties
    <2>2. w \o p \in Seq(Line) /\ w \o q \in Seq(Line) /\ <<x>> \o w \in Seq(Line)
          /\ Len(<<x>> \o w) = 1 + Len(w)
      BY <2>1, ConcatProperties
    <2>3. /\ <<x>> \o (w \o p) = (<<x>> \o w) \o p
          /\ <<x>> \o (w \o q) = (<<x>> \o w) \o q
      <3> DEFINE e == <<x>>
      <3> HIDE DEF e
      <3>1. e \in Seq(Line)
        BY <2>1 DEF e
      <3>2. (e \o w) \o p = e \o (w \o p)
        BY <3>1, ConcatAssociative, SMTT(60)
      <3>3. (e \o w) \o q = e \o (w \o q)
        BY <3>1, ConcatAssociative
      <3> QED
        BY <3>2, <3>3 DEF e
    <2>4. Longest(<<x>> \o (w \o p), <<x>> \o (w \o q), (Len(w) + n) + 1)
      BY <1>2, <2>2, LongestConsEqual
    <2>5. (Len(w) + n) + 1 = Len(<<x>> \o w) + n
      BY <1>0, <2>1, <2>2
    <2> QED
      BY <2>2, <2>3, <2>4, <2>5
  <1> HIDE DEF T
  <1>3. Seq(Line) \subseteq T
    BY <1>1, <1>2, ConsInduction
  <1> QED
    BY <1>3 DEF T

(* A suffix both texts end with adds its length to what they have in       *)
(* common.                                                                 *)
LEMMA LongestWithTail ==
  ASSUME NEW u \in Seq(Line), NEW p \in Seq(Line), NEW q \in Seq(Line), NEW n, Longest(p, q, n)
  PROVE  Longest(p \o u, q \o u, n + Len(u))
  <1> DEFINE T == {w \in Seq(Line) : Longest(p \o w, q \o w, n + Len(w))}
  <1>0. n \in Nat
    BY DEF Longest
  <1>1. <<>> \in T
    <2>1. p \o <<>> = p /\ q \o <<>> = q /\ n + Len(<<>>) = n /\ <<>> \in Seq(Line)
      BY <1>0, ConcatEmptySeq, EmptySeq
    <2> QED
      BY <2>1
  <1>2. ASSUME NEW w \in Seq(Line), NEW x \in Line, w \in T
        PROVE  Append(w, x) \in T
    <2>1. p \o w \in Seq(Line) /\ q \o w \in Seq(Line)
      BY ConcatProperties
    <2>2. p \o Append(w, x) = Append(p \o w, x) /\ q \o Append(w, x) = Append(q \o w, x)
      BY SequenceAppend, SMTT(60)
    <2>3. Append(w, x) \in Seq(Line) /\ Len(Append(w, x)) = Len(w) + 1 /\ Len(w) \in Nat
      BY AppendProperties, LenProperties
    <2>4. Longest(Append(p \o w, x), Append(q \o w, x), (n + Len(w)) + 1)
      BY <1>2, <2>1, LongestAppendEqual
    <2>5. (n + Len(w)) + 1 = n + Len(Append(w, x))
      BY <1>0, <2>3
    <2> QED
      BY <2>2, <2>3, <2>4, <2>5
  <1> HIDE DEF T
  <1>3. Seq(Line) \subseteq T
    BY <1>1, <1>2, SequenceInduction
  <1> QED
    BY <1>3 DEF T

(* Trimming the common head and tail keeps a longest common subsequence.   *)
LEMMA KeptIsLongest ==
  ASSUME NEW a \in Seq(Line), NEW b \in Seq(Line)
  PROVE  Longest(a, b, KeptLines(a, b))
  <1> DEFINE h == CommonHead(a, b)
             t == CommonTail(a, b)
             p == SubSeq(a, h + 1, Len(a) - t)
             q == SubSeq(b, h + 1, Len(b) - t)
             first == SubSeq(a, 1, h)
             last == SubSeq(b, Len(b) - t + 1, Len(b))
             cell == LcsTable(p, q)[<<1, 1>>]
  <1>1. /\ first \in Seq(Line) /\ last \in Seq(Line) /\ p \in Seq(Line) /\ q \in Seq(Line)
        /\ Len(first) = h /\ Len(last) = t
        /\ a = first \o p \o last
        /\ b = first \o q \o last
    BY DiffSplit
  <1>2. KeptLines(a, b) = h + cell + t
    BY DEF KeptLines
  <1> HIDE DEF first, last, p, q, h, t
  <1>3. Longest(p, q, cell)
    <2>1. Len(p) \in Nat /\ Len(q) \in Nat
      BY <1>1, LenProperties
    <2>2. 1 \in 1..Len(p) + 1 /\ 1 \in 1..Len(q) + 1
      BY <2>1
    <2>3. Longest(SubSeq(p, 1, Len(p)), SubSeq(q, 1, Len(q)), cell)
      BY <1>1, <2>2, TableIsLongest
    <2>4. SubSeq(p, 1, Len(p)) = p /\ SubSeq(q, 1, Len(q)) = q
      BY <1>1, SubSeqFull
    <2> QED
      BY <2>3, <2>4
  <1>4. Longest(first \o p, first \o q, h + cell)
    BY <1>1, <1>3, LongestWithHead
  <1>5. first \o p \in Seq(Line) /\ first \o q \in Seq(Line)
    BY <1>1, ConcatProperties
  <1>6. Longest(first \o p \o last, first \o q \o last, h + cell + t)
    BY <1>1, <1>4, <1>5, LongestWithTail
  <1> QED
    BY <1>1, <1>2, <1>6

(* Below the size guard the script keeps as many lines as the longest      *)
(* common subsequence: trimming does not spoil what the table counts.      *)
LEMMA DiffMinimal ==
  ASSUME NEW a \in Seq(Line), NEW b \in Seq(Line), Len(a) <= LcsGuard, Len(b) <= LcsGuard
  PROVE  Len(Side(DiffLines(a, b), {"equal"})) = LongestCommon(a, b)
  <1>1. Len(Side(DiffLines(a, b), Unchanged)) = KeptLines(a, b)
    BY DiffSpells DEF Spells
  <1>2. LongestCommon(a, b) = KeptLines(a, b)
    BY KeptIsLongest, LongestIsTheLength
  <1> QED
    BY <1>1, <1>2 DEF Unchanged

-----------------------------------------------------------------------------
(* Folding a sequence of n elements from the left: F[<<x, k>>] is what the *)
(* k-th element makes of x.                                                *)
LEMMA LastOf ==
  ASSUME NEW n \in Nat, NEW S \in SUBSET (1..n), S # {}
  PROVE  /\ Max(S) \in S /\ Max(S) \in 1..n
         /\ \A y \in S : y <= Max(S)
         /\ S \ {Max(S)} \in SUBSET (1..n)
         /\ \A m \in Nat : S \in SUBSET (1..m + 1) => S \ {Max(S)} \in SUBSET (1..m)
  <1>1. S \subseteq Nat /\ \A y \in S : y <= n
    OBVIOUS
  <1>2. Max(S) \in S /\ \A y \in S : Max(S) >= y
    BY <1>1, BoundedMax
  <1> DEFINE top == Max(S)
  <1> HIDE DEF top
  <1>3. top \in S /\ \A y \in S : top >= y
    BY <1>2 DEF top
  <1>4. /\ top \in S /\ top \in 1..n
        /\ \A y \in S : y <= top
        /\ S \ {top} \in SUBSET (1..n)
        /\ \A m \in Nat : S \in SUBSET (1..m + 1) => S \ {top} \in SUBSET (1..m)
    BY <1>3
  <1> QED
    BY <1>4 DEF top

IsFold(g, State, start, F, n) ==
  /\ g \in [SUBSET (1..n) -> State]
  /\ \A S \in SUBSET (1..n) :
       /\ S = {} => g[S] = start
       /\ S # {} => g[S] = F[<<g[S \ {Max(S)}], Max(S)>>]

(* The recursion behind a fold over positions has a solution.              *)
LEMMA FoldExists ==
  ASSUME NEW State, NEW start \in State, NEW n \in Nat, NEW F \in [State \X (1..n) -> State]
  PROVE  \E g : IsFold(g, State, start, F, n)
  <1> DEFINE T == {m \in Nat : m <= n => \E g : IsFold(g, State, start, F, m)}
  <1>1. 0 \in T
    <2> DEFINE g == [S \in SUBSET (1..0) |-> start]
    <2>1. g \in [SUBSET (1..0) -> State] /\ \A S \in SUBSET (1..0) : S = {} /\ g[S] = start
      OBVIOUS
    <2> HIDE DEF g
    <2>2. IsFold(g, State, start, F, 0)
      BY <2>1 DEF IsFold
    <2> QED
      BY <2>2
  <1>2. ASSUME NEW m \in Nat, m \in T, m + 1 <= n
        PROVE  \E h : IsFold(h, State, start, F, m + 1)
    <2>1. PICK g : IsFold(g, State, start, F, m)
      BY <1>2
    <2>2. ASSUME NEW S \in SUBSET (1..m + 1), S # {}
          PROVE  S \ {Max(S)} \in SUBSET (1..m) /\ Max(S) \in 1..n
      <3>1. S \in SUBSET (1..n)
        BY <1>2
      <3> QED
        BY <2>2, <3>1, LastOf
    <2> DEFINE h == [S \in SUBSET (1..m + 1) |->
                       IF S = {} THEN start ELSE F[<<g[S \ {Max(S)}], Max(S)>>]]
    <2>3. \A S \in SUBSET (1..m) : S \in SUBSET (1..m + 1)
      OBVIOUS
    <2>4. \A S \in SUBSET (1..m) : h[S] = g[S]
      BY <2>1, <2>3 DEF IsFold
    <2>5. ASSUME NEW S \in SUBSET (1..m + 1), S # {}
          PROVE  /\ h[S] = F[<<h[S \ {Max(S)}], Max(S)>>]
                 /\ h[S] \in State
      <3>1. S \ {Max(S)} \in SUBSET (1..m) /\ Max(S) \in 1..n
        BY <2>2, <2>5
      <3>2. g[S \ {Max(S)}] \in State
        BY <2>1, <3>1 DEF IsFold
      <3>3. <<g[S \ {Max(S)}], Max(S)>> \in State \X (1..n)
        BY <3>1, <3>2
      <3>4. h[S] = F[<<g[S \ {Max(S)}], Max(S)>>]
        BY <2>5
      <3> QED
        BY <2>4, <3>1, <3>3, <3>4
    <2>6. {} \in SUBSET (1..m + 1) /\ h[{}] = start
      OBVIOUS
    <2>7. h = [S \in SUBSET (1..m + 1) |-> h[S]]
      OBVIOUS
    <2> HIDE DEF h
    <2>8. IsFold(h, State, start, F, m + 1)
      BY <2>5, <2>6, <2>7 DEF IsFold
    <2> QED
      BY <2>8
  <1>3. \A m \in Nat : m \in T => m + 1 \in T
    BY <1>2
  <1> HIDE DEF T
  <1>4. n \in T
    BY <1>1, <1>3, Induction
  <1> QED
    BY <1>4 DEF T

(* The sets of positions a fold over a sequence goes through.              *)
LEMMA PrefixSets ==
  ASSUME NEW n \in Nat, NEW k \in 1..n
  PROVE  /\ 1..k \in SUBSET (1..n) /\ 1..k # {} /\ 1..k - 1 \in SUBSET (1..n)
         /\ Max(1..k) = k /\ (1..k) \ {k} = 1..k - 1
  <1>1. 1..k \subseteq Int /\ k \in 1..k /\ \A y \in 1..k : k >= y
    OBVIOUS
  <1>2. Max(1..k) = k
    BY <1>1, MaxIs
  <1> QED
    BY <1>2

-----------------------------------------------------------------------------
(* Hunks, and how far a diff has been applied.                             *)
HunkLine == [mark : {" ", "-", "+"}, text : Line]
Hunk == [oldStart : Nat, oldLines : Nat, newStart : Nat, newLines : Nat, lines : Seq(HunkLine)]
Applying == [ok : BOOLEAN, out : Seq(Line), cursor : Nat]

(* One line of a hunk leads from a state of applyUnifiedDiff to another.   *)
LEMMA ApplyLineTyped ==
  ASSUME NEW text \in Seq(Line), NEW acc \in Applying, NEW line \in HunkLine
  PROVE  ApplyLine(text, acc, line) \in Applying
  <1>1. /\ acc.ok \in BOOLEAN /\ acc.out \in Seq(Line) /\ acc.cursor \in Nat
        /\ line.text \in Line
    BY DEF Applying, HunkLine
  <1>2. Append(acc.out, line.text) \in Seq(Line) /\ acc.cursor + 1 \in Nat
    BY <1>1, AppendProperties
  <1> DEFINE more == Append(acc.out, line.text)
  <1> HIDE DEF more
  <1>3. /\ [acc EXCEPT !.out = more] \in Applying
        /\ [acc EXCEPT !.ok = FALSE] \in Applying
        /\ [acc EXCEPT !.cursor = @ + 1, !.out = more] \in Applying
        /\ [acc EXCEPT !.cursor = @ + 1, !.out = @] \in Applying
    BY <1>1, <1>2 DEF Applying, more
  <1> QED
    BY <1>3 DEF ApplyLine, more

(* Applying the lines of a hunk, as the states it goes through.            *)
LEMMA LinesTable ==
  ASSUME NEW text \in Seq(Line), NEW start \in Applying, NEW lines \in Seq(HunkLine)
  PROVE  \E g : /\ ApplyLines(text, start, lines) = g[Len(lines)]
                /\ g[0] = start
                /\ \A k \in 1..Len(lines) :
                     /\ g[k - 1].ok => g[k] = ApplyLine(text, g[k - 1], lines[k])
                     /\ ~g[k - 1].ok => g[k] = g[k - 1]
  <1> DEFINE n == Len(lines)
             Step(acc, line) == IF acc.ok THEN ApplyLine(text, acc, line) ELSE acc
             F == [c \in Applying \X (1..n) |-> Step(c[1], lines[c[2]])]
             w == CHOOSE g : g = [S \in SUBSET (1..n) |->
                                    IF S = {} THEN start ELSE Step(g[S \ {Max(S)}], lines[Max(S)])]
  <1>1. n \in Nat /\ DOMAIN lines = 1..n /\ \A k \in 1..n : lines[k] \in HunkLine
    BY LenProperties, ElementOfSeq
  <1>2. ApplyLines(text, start, lines) = w[1..n]
    BY <1>1 DEF ApplyLines, FoldLeft, MapThenFoldSet
  <1> HIDE DEF n
  <1>3. F \in [Applying \X (1..n) -> Applying]
    <2>1. \A acc \in Applying, k \in 1..n : Step(acc, lines[k]) \in Applying
      BY <1>1, ApplyLineTyped
    <2> HIDE DEF Step
    <2> QED
      BY <2>1
  <1>4. PICK g : IsFold(g, Applying, start, F, n)
    <2> HIDE DEF F, w
    <2> QED
      BY <1>1, <1>3, FoldExists
  <1>5. ASSUME NEW S \in SUBSET (1..n), S # {}
        PROVE  F[<<g[S \ {Max(S)}], Max(S)>>] = Step(g[S \ {Max(S)}], lines[Max(S)])
    <2>1. S \ {Max(S)} \in SUBSET (1..n) /\ Max(S) \in 1..n
      BY <1>1, <1>5, LastOf
    <2>2. g[S \ {Max(S)}] \in Applying
      BY <1>4, <2>1 DEF IsFold
    <2> HIDE DEF Step
    <2> QED
      BY <2>1, <2>2
  <1> HIDE DEF Step
  <1>6. g = [S \in SUBSET (1..n) |->
               IF S = {} THEN start ELSE Step(g[S \ {Max(S)}], lines[Max(S)])]
    <2> HIDE DEF F, w
    <2> QED
      BY <1>4, <1>5 DEF IsFold
  <1>7. w = [S \in SUBSET (1..n) |->
               IF S = {} THEN start ELSE Step(w[S \ {Max(S)}], lines[Max(S)])]
    BY <1>6
  <1> HIDE DEF w, F
  <1>8. ASSUME NEW k \in 1..n
        PROVE  w[1..k] = Step(w[1..k - 1], lines[k])
    <2>1. /\ 1..k \in SUBSET (1..n) /\ 1..k # {}
          /\ Max(1..k) = k /\ (1..k) \ {k} = 1..k - 1
      BY <1>1, PrefixSets
    <2>2. w[1..k] = Step(w[(1..k) \ {Max(1..k)}], lines[Max(1..k)])
      BY <1>7, <2>1
    <2> QED
      BY <2>1, <2>2
  <1>9. w[1..0] = start
    <2>1. 1..0 = {} /\ {} \in SUBSET (1..n)
      OBVIOUS
    <2> QED
      BY <1>7, <2>1
  <1> DEFINE p == [k \in 0..n |-> w[1..k]]
  <1>10. /\ p[n] = w[1..n] /\ p[0] = start
         /\ \A k \in 1..n : p[k] = Step(p[k - 1], lines[k])
    <2>1. n \in 0..n /\ 0 \in 0..n /\ \A k \in 1..n : k \in 0..n /\ k - 1 \in 0..n
      BY <1>1
    <2> QED
      BY <1>8, <1>9, <2>1
  <1> HIDE DEF p
  <1> QED
    BY <1>2, <1>10 DEF Step, n

(* The lines of a hunk lead to a state of applyUnifiedDiff.                *)
LEMMA ApplyLinesTyped ==
  ASSUME NEW text \in Seq(Line), NEW start \in Applying, NEW lines \in Seq(HunkLine)
  PROVE  ApplyLines(text, start, lines) \in Applying
  <1>1. PICK g : /\ ApplyLines(text, start, lines) = g[Len(lines)]
                 /\ g[0] = start
                 /\ \A k \in 1..Len(lines) :
                      /\ g[k - 1].ok => g[k] = ApplyLine(text, g[k - 1], lines[k])
                      /\ ~g[k - 1].ok => g[k] = g[k - 1]
    BY LinesTable
  <1>2. Len(lines) \in Nat /\ \A k \in 1..Len(lines) : lines[k] \in HunkLine
    BY LenProperties, ElementOfSeq
  <1> DEFINE T == {n \in Nat : n <= Len(lines) => g[n] \in Applying}
  <1>3. 0 \in T
    BY <1>1
  <1>4. ASSUME NEW n \in Nat, n \in T
        PROVE  n + 1 \in T
    <2> SUFFICES ASSUME n + 1 <= Len(lines)
                 PROVE  g[n + 1] \in Applying
      OBVIOUS
    <2>1. n + 1 \in 1..Len(lines) /\ (n + 1) - 1 = n /\ n <= Len(lines)
      BY <1>2
    <2>2. g[n] \in Applying
      BY <1>4, <2>1
    <2>3. /\ g[n].ok => g[n + 1] = ApplyLine(text, g[n], lines[n + 1])
          /\ ~g[n].ok => g[n + 1] = g[n]
      BY <1>1, <2>1
    <2>4. ApplyLine(text, g[n], lines[n + 1]) \in Applying
      BY <1>2, <2>1, <2>2, ApplyLineTyped
    <2> QED
      BY <2>2, <2>3, <2>4
  <1> HIDE DEF T
  <1>5. Len(lines) \in T
    BY <1>2, <1>3, <1>4, Induction
  <1> QED
    BY <1>1, <1>2, <1>5 DEF T

(* No line changes nothing.                                                *)
LEMMA ApplyLinesEmpty ==
  ASSUME NEW text \in Seq(Line), NEW start \in Applying
  PROVE  ApplyLines(text, start, <<>>) = start
  <1> DEFINE none == <<>>
  <1>1. none \in Seq(HunkLine) /\ Len(none) = 0
    BY EmptySeq
  <1> HIDE DEF none
  <1>2. PICK g : /\ ApplyLines(text, start, none) = g[Len(none)]
                 /\ g[0] = start
                 /\ \A k \in 1..Len(none) :
                      /\ g[k - 1].ok => g[k] = ApplyLine(text, g[k - 1], none[k])
                      /\ ~g[k - 1].ok => g[k] = g[k - 1]
    BY <1>1, LinesTable, ZenonT(60)
  <1> QED
    BY <1>1, <1>2 DEF none

(* One more line is applied where the others led, unless one was refused.  *)
LEMMA ApplyLinesAppend ==
  ASSUME NEW text \in Seq(Line), NEW start \in Applying,
         NEW lines \in Seq(HunkLine), NEW line \in HunkLine,
         NEW acc, acc = ApplyLines(text, start, lines)
  PROVE  /\ acc.ok => ApplyLines(text, start, Append(lines, line)) = ApplyLine(text, acc, line)
         /\ ~acc.ok => ApplyLines(text, start, Append(lines, line)) = acc
  <1> DEFINE more == Append(lines, line)
  <1>1. /\ more \in Seq(HunkLine) /\ Len(more) = Len(lines) + 1 /\ Len(lines) \in Nat
        /\ \A k \in 1..Len(lines) : more[k] = lines[k]
        /\ more[Len(lines) + 1] = line
    BY AppendProperties, LenProperties
  <1> HIDE DEF more
  <1>2. PICK g : /\ ApplyLines(text, start, lines) = g[Len(lines)]
                 /\ g[0] = start
                 /\ \A k \in 1..Len(lines) :
                      /\ g[k - 1].ok => g[k] = ApplyLine(text, g[k - 1], lines[k])
                      /\ ~g[k - 1].ok => g[k] = g[k - 1]
    BY LinesTable
  <1>3. PICK h : /\ ApplyLines(text, start, more) = h[Len(more)]
                 /\ h[0] = start
                 /\ \A k \in 1..Len(more) :
                      /\ h[k - 1].ok => h[k] = ApplyLine(text, h[k - 1], more[k])
                      /\ ~h[k - 1].ok => h[k] = h[k - 1]
    BY <1>1, LinesTable
  <1> DEFINE T == {n \in Nat : n <= Len(lines) => h[n] = g[n]}
  <1>4. 0 \in T
    BY <1>2, <1>3
  <1>5. ASSUME NEW n \in Nat, n \in T
        PROVE  n + 1 \in T
    <2> SUFFICES ASSUME n + 1 <= Len(lines)
                 PROVE  h[n + 1] = g[n + 1]
      OBVIOUS
    <2>1. n + 1 \in 1..Len(lines) /\ n + 1 \in 1..Len(more) /\ (n + 1) - 1 = n
      BY <1>1
    <2>2. h[n] = g[n] /\ more[n + 1] = lines[n + 1]
      BY <1>5, <1>1, <2>1
    <2>3. /\ g[n].ok => g[n + 1] = ApplyLine(text, g[n], lines[n + 1])
          /\ ~g[n].ok => g[n + 1] = g[n]
      BY <1>2, <2>1
    <2>4. /\ h[n].ok => h[n + 1] = ApplyLine(text, h[n], more[n + 1])
          /\ ~h[n].ok => h[n + 1] = h[n]
      BY <1>3, <2>1
    <2> QED
      BY <2>2, <2>3, <2>4
  <1> HIDE DEF T
  <1>6. Len(lines) \in T
    BY <1>1, <1>4, <1>5, Induction
  <1>7. h[Len(lines)] = acc
    BY <1>1, <1>2, <1>6 DEF T
  <1>8. Len(lines) + 1 \in 1..Len(more) /\ (Len(lines) + 1) - 1 = Len(lines)
    BY <1>1
  <1>9. /\ acc.ok => h[Len(lines) + 1] = ApplyLine(text, acc, line)
        /\ ~acc.ok => h[Len(lines) + 1] = acc
    BY <1>1, <1>3, <1>7, <1>8
  <1> QED
    BY <1>1, <1>3, <1>9 DEF more

-----------------------------------------------------------------------------
(* The lines of a hunk with some marks.                                    *)
Carries(lines, marks) ==
  Picked([i \in DOMAIN lines |-> lines[i].text], {i \in DOMAIN lines : lines[i].mark \in marks})

OldMarks == {" ", "-"}
NewMarks == {" ", "+"}

(* No lines carry an empty text.                                           *)
LEMMA CarriesEmpty ==
  ASSUME NEW marks
  PROVE  Carries(<<>>, marks) = <<>>
  <1>1. [i \in DOMAIN <<>> |-> <<>>[i].text] = <<>>
    OBVIOUS
  <1> QED
    BY <1>1, PickedEmpty DEF Carries

(* What the lines with some markers carry is a text.                       *)
LEMMA CarriesTyped ==
  ASSUME NEW lines \in Seq(HunkLine), NEW marks
  PROVE  Carries(lines, marks) \in Seq(Line)
  <1>1. [i \in DOMAIN lines |-> lines[i].text] \in Seq(Line)
    <2>1. \A i \in 1..Len(lines) : lines[i] \in HunkLine
      BY ElementOfSeq
    <2>2. \A i \in 1..Len(lines) : lines[i].text \in Line
      BY <2>1 DEF HunkLine
    <2> QED
      BY <2>2, LenProperties
  <1> QED
    BY <1>1, PickedTyped DEF Carries

(* One more line is carried if its marker is one of those asked for.       *)
LEMMA CarriesAppend ==
  ASSUME NEW lines \in Seq(HunkLine), NEW line \in HunkLine, NEW marks
  PROVE  /\ line.mark \in marks =>
              Carries(Append(lines, line), marks) = Append(Carries(lines, marks), line.text)
         /\ line.mark \notin marks => Carries(Append(lines, line), marks) = Carries(lines, marks)
  <1> DEFINE more == Append(lines, line)
             texts == [i \in DOMAIN lines |-> lines[i].text]
             all == [i \in DOMAIN more |-> more[i].text]
             S == {i \in DOMAIN lines : lines[i].mark \in marks}
             R == {i \in DOMAIN more : more[i].mark \in marks}
  <1>1. /\ more \in Seq(HunkLine) /\ Len(more) = Len(lines) + 1 /\ Len(lines) \in Nat
        /\ DOMAIN more = 1..Len(lines) + 1 /\ DOMAIN lines = 1..Len(lines)
        /\ \A k \in 1..Len(lines) : more[k] = lines[k]
        /\ more[Len(lines) + 1] = line
        /\ \A k \in 1..Len(lines) : lines[k] \in HunkLine
    BY AppendProperties, LenProperties
  <1> HIDE DEF more
  <1>2. texts \in Seq(Line) /\ Len(texts) = Len(lines)
    <2>1. \A k \in 1..Len(lines) : lines[k].text \in Line
      BY <1>1 DEF HunkLine
    <2> QED
      BY <1>1, <2>1
  <1>3. all = Append(texts, line.text)
    BY <1>1, <1>2
  <1>4. line.text \in Line
    BY DEF HunkLine
  <1>5. \A k \in 1..Len(lines) : k \in R <=> k \in S
    BY <1>1
  <1>6. Len(lines) + 1 \in R <=> line.mark \in marks
    BY <1>1
  <1> HIDE DEF R, S, all, texts
  <1>7. Picked(texts, R) = Picked(texts, S)
    BY <1>2, <1>5, PickedSame
  <1>8. /\ line.mark \in marks => Picked(all, R) = Append(Picked(texts, S), line.text)
        /\ line.mark \notin marks => Picked(all, R) = Picked(texts, S)
    BY <1>2, <1>3, <1>4, <1>6, <1>7, PickedAppend
  <1> QED
    BY <1>8 DEF Carries, R, S, all, texts, more

-----------------------------------------------------------------------------
(* Applying the lines of a hunk.  If they went in, the text held every line*)
(* they show or remove, from the cursor on, and what they show or add came *)
(* out; and if the text holds those lines, they go in.                     *)
LinesTaken(text, start, end, lines) ==
  /\ end.cursor = start.cursor + Len(Carries(lines, OldMarks))
  /\ end.cursor <= Len(text)
  /\ \A k \in 1..Len(Carries(lines, OldMarks)) :
       text[start.cursor + k] = Carries(lines, OldMarks)[k]
  /\ end.out = start.out \o Carries(lines, NewMarks)

(* A line that is taken was found at the cursor, or is an added one; a     *)
(* line that is refused was to be found there and was not.                 *)
LEMMA LineTaken ==
  ASSUME NEW text \in Seq(Line), NEW start \in Applying, NEW acc \in Applying,
         NEW lines \in Seq(HunkLine), NEW line \in HunkLine,
         acc.ok, LinesTaken(text, start, acc, lines),
         NEW end, end = ApplyLine(text, acc, line)
  PROVE  /\ end.ok => LinesTaken(text, start, end, Append(lines, line))
         /\ ~end.ok => /\ line.mark \in OldMarks
                       /\ \/ acc.cursor + 1 > Len(text)
                          \/ text[acc.cursor + 1] # line.text
  <1> DEFINE more == Append(lines, line)
             old == Carries(lines, OldMarks)
             new == Carries(lines, NewMarks)
  <1>1. /\ acc.cursor \in Nat /\ acc.out \in Seq(Line) /\ acc.ok \in BOOLEAN
        /\ start.cursor \in Nat /\ start.out \in Seq(Line)
        /\ line.mark \in {" ", "-", "+"} /\ line.text \in Line
        /\ Len(text) \in Nat
    BY LenProperties DEF Applying, HunkLine
  <1>2. old \in Seq(Line) /\ new \in Seq(Line) /\ Len(old) \in Nat
    BY CarriesTyped, LenProperties
  <1> HIDE DEF old, new
  <1>3. /\ line.mark \in OldMarks => Carries(more, OldMarks) = Append(old, line.text)
        /\ line.mark \notin OldMarks => Carries(more, OldMarks) = old
        /\ line.mark \in NewMarks => Carries(more, NewMarks) = Append(new, line.text)
        /\ line.mark \notin NewMarks => Carries(more, NewMarks) = new
    BY CarriesAppend DEF old, new
  <1>4. acc.cursor = start.cursor + Len(old) /\ acc.cursor <= Len(text)
    BY DEF LinesTaken, old
  <1>5. \A k \in 1..Len(old) : text[start.cursor + k] = old[k]
    BY DEF LinesTaken, old
  <1>6. acc.out = start.out \o new
    BY DEF LinesTaken, new
  <1> DEFINE x == line.text
             out == start.out
             c == acc.cursor
             d == start.cursor
             m == Len(old)
             size == Len(text)
  <1>11. /\ x \in Line /\ out \in Seq(Line) /\ x = line.text /\ out = start.out
         /\ c \in Nat /\ d \in Nat /\ m \in Nat /\ size \in Nat
         /\ c = acc.cursor /\ d = start.cursor /\ m = Len(old) /\ size = Len(text)
    BY <1>1, <1>2
  <1> HIDE DEF x, out, c, d, m, size
  <1>14. /\ c = d + m => c + 1 = d + (m + 1)
         /\ c >= size => c + 1 > size
         /\ ~(c >= size) => c + 1 <= size
    BY ONLY <1>11, SMTT(60)
  <1>12. /\ Append(old, x) \in Seq(Line) /\ Len(Append(old, x)) = Len(old) + 1
         /\ \A k \in 1..Len(old) : Append(old, x)[k] = old[k]
         /\ Append(old, x)[Len(old) + 1] = x
    BY <1>2, <1>11, AppendProperties
  <1>13. out \o Append(new, x) = Append(out \o new, x)
    <2>1. out \in Seq(Line) /\ new \in Seq(Line) /\ x \in Line
      BY <1>2, <1>11
    <2> QED
      BY ONLY <2>1, SequenceAppend
  <1> DEFINE longer == Append(acc.out, line.text)
  <1>7. /\ line.mark = "+" => end = [acc EXCEPT !.out = longer]
        /\ (line.mark # "+" /\ (acc.cursor >= Len(text) \/ text[acc.cursor + 1] # line.text)) =>
             end = [acc EXCEPT !.ok = FALSE]
        /\ (line.mark = " " /\ ~(acc.cursor >= Len(text) \/ text[acc.cursor + 1] # line.text)) =>
             end = [acc EXCEPT !.cursor = acc.cursor + 1, !.out = longer]
        /\ (line.mark = "-" /\ ~(acc.cursor >= Len(text) \/ text[acc.cursor + 1] # line.text)) =>
             end = [acc EXCEPT !.cursor = acc.cursor + 1, !.out = acc.out]
    BY DEF ApplyLine
  <1> HIDE DEF longer, more
  <1>8. CASE line.mark = "+"
    <2>1. end.ok = acc.ok /\ end.cursor = acc.cursor /\ end.out = longer
      BY <1>1, <1>7, <1>8 DEF Applying
    <2>2. Carries(more, OldMarks) = old /\ Carries(more, NewMarks) = Append(new, line.text)
      BY <1>3, <1>8 DEF OldMarks, NewMarks
    <2>3. LinesTaken(text, start, end, more)
      BY <1>4, <1>5, <1>6, <1>11, <1>13, <2>1, <2>2 DEF LinesTaken, longer
    <2> QED
      BY <2>1, <2>3 DEF more
  <1>9. CASE line.mark # "+" /\ (acc.cursor >= Len(text) \/ text[acc.cursor + 1] # line.text)
    <2>1. end.ok = FALSE
      BY <1>1, <1>7, <1>9 DEF Applying
    <2>2. line.mark \in OldMarks
      BY <1>1, <1>9 DEF OldMarks
    <2>3. acc.cursor >= Len(text) => acc.cursor + 1 > Len(text)
      BY <1>11, <1>14
    <2> QED
      BY <1>9, <2>1, <2>2, <2>3
  <1>10. CASE line.mark # "+" /\ ~(acc.cursor >= Len(text) \/ text[acc.cursor + 1] # line.text)
    <2>1. /\ end.ok = acc.ok /\ end.cursor = acc.cursor + 1
          /\ line.mark = " " => end.out = longer
          /\ line.mark = "-" => end.out = acc.out
      BY <1>1, <1>7, <1>10 DEF Applying
    <2>2. Carries(more, OldMarks) = Append(old, line.text)
      BY <1>1, <1>3, <1>10 DEF OldMarks
    <2>3. end.out = start.out \o Carries(more, NewMarks)
      BY <1>1, <1>3, <1>6, <1>10, <1>11, <1>13, <2>1 DEF NewMarks, longer
    <2>4. \A k \in 1..Len(old) + 1 : text[start.cursor + k] = Append(old, x)[k]
      <3> SUFFICES ASSUME NEW k \in 1..Len(old) + 1
                   PROVE  text[start.cursor + k] = Append(old, x)[k]
        OBVIOUS
      <3>1. CASE k \in 1..Len(old)
        BY <1>5, <1>12, <3>1
      <3>2. CASE k = Len(old) + 1
        <4>1. start.cursor + (Len(old) + 1) = acc.cursor + 1
          BY <1>4, <1>11, <1>14
        <4> QED
          BY <1>10, <1>11, <1>12, <3>2, <4>1
      <3> QED
        BY <1>2, <3>1, <3>2
    <2>5. acc.cursor + 1 = start.cursor + (Len(old) + 1) /\ acc.cursor + 1 <= Len(text)
      BY <1>4, <1>10, <1>11, <1>14
    <2>6. end.cursor = start.cursor + (Len(old) + 1) /\ end.cursor <= Len(text)
      BY <2>1, <2>5
    <2>7. LinesTaken(text, start, end, more)
      BY <1>11, <1>12, <2>2, <2>3, <2>4, <2>6 DEF LinesTaken
    <2> QED
      BY <2>1, <2>7 DEF more
  <1> QED
    BY <1>8, <1>9, <1>10

(* Lines that all went in were found at the cursor, one after the other.   *)
LEMMA ApplyLinesTaken ==
  ASSUME NEW text \in Seq(Line), NEW start \in Applying, start.ok, start.cursor <= Len(text),
         NEW lines \in Seq(HunkLine), ApplyLines(text, start, lines).ok
  PROVE  LinesTaken(text, start, ApplyLines(text, start, lines), lines)
  <1> DEFINE T == {ls \in Seq(HunkLine) : ApplyLines(text, start, ls).ok =>
                     LinesTaken(text, start, ApplyLines(text, start, ls), ls)}
  <1>1. <<>> \in T
    <2>1. ApplyLines(text, start, <<>>) = start
      BY ApplyLinesEmpty
    <2>2. Carries(<<>>, OldMarks) = <<>> /\ Carries(<<>>, NewMarks) = <<>> /\ Len(<<>>) = 0
      BY CarriesEmpty
    <2>3. start.cursor + 0 = start.cursor /\ start.out \o <<>> = start.out
      <3>1. start.cursor \in Nat /\ start.out \in Seq(Line)
        BY DEF Applying
      <3> QED
        BY <3>1, ConcatEmptySeq
    <2>4. LinesTaken(text, start, start, <<>>)
      <3> DEFINE old == Carries(<<>>, OldMarks)
                 new == Carries(<<>>, NewMarks)
      <3>1. Len(old) = 0 /\ new = <<>>
        BY <2>2
      <3> HIDE DEF old, new
      <3>2. \A k \in 1..Len(old) : text[start.cursor + k] = old[k]
        BY <3>1
      <3> QED
        BY <2>3, <3>1, <3>2 DEF LinesTaken, old, new
    <2> QED
      BY <2>1, <2>4, EmptySeq
  <1>2. ASSUME NEW ls \in Seq(HunkLine), NEW line \in HunkLine, ls \in T
        PROVE  Append(ls, line) \in T
    <2> DEFINE acc == ApplyLines(text, start, ls)
               end == ApplyLines(text, start, Append(ls, line))
    <2>1. Append(ls, line) \in Seq(HunkLine)
      BY AppendProperties
    <2>2. acc \in Applying
      BY ApplyLinesTyped
    <2>3. /\ acc.ok => end = ApplyLine(text, acc, line)
          /\ ~acc.ok => end = acc
      BY ApplyLinesAppend
    <2> SUFFICES ASSUME end.ok
                 PROVE  LinesTaken(text, start, end, Append(ls, line))
      BY <2>1
    <2>4. acc.ok
      BY <2>3
    <2>5. LinesTaken(text, start, acc, ls)
      BY <1>2, <2>4
    <2> HIDE DEF acc, end
    <2> QED
      BY <2>2, <2>3, <2>4, <2>5, LineTaken
  <1> HIDE DEF T
  <1>3. Seq(HunkLine) \subseteq T
    BY <1>1, <1>2, SequenceInduction
  <1> QED
    BY <1>3 DEF T

(* The text holds the lines that are shown or removed, from the cursor on. *)
Holds(text, cursor, lines) ==
  /\ cursor + Len(Carries(lines, OldMarks)) <= Len(text)
  /\ \A k \in 1..Len(Carries(lines, OldMarks)) :
       text[cursor + k] = Carries(lines, OldMarks)[k]

(* Lines go in where the text holds those that they show or remove.        *)
LEMMA ApplyLinesGoIn ==
  ASSUME NEW text \in Seq(Line), NEW start \in Applying, start.ok, start.cursor <= Len(text),
         NEW lines \in Seq(HunkLine), Holds(text, start.cursor, lines)
  PROVE  ApplyLines(text, start, lines).ok
  <1> DEFINE T == {ls \in Seq(HunkLine) : Holds(text, start.cursor, ls) =>
                     ApplyLines(text, start, ls).ok}
  <1>0. start.cursor \in Nat /\ Len(text) \in Nat
    BY LenProperties DEF Applying
  <1>1. <<>> \in T
    BY ApplyLinesEmpty, EmptySeq
  <1>2. ASSUME NEW ls \in Seq(HunkLine), NEW line \in HunkLine, ls \in T
        PROVE  Append(ls, line) \in T
    <2> DEFINE acc == ApplyLines(text, start, ls)
               end == ApplyLines(text, start, Append(ls, line))
               old == Carries(ls, OldMarks)
    <2>1. Append(ls, line) \in Seq(HunkLine) /\ line.text \in Line
      BY AppendProperties DEF HunkLine
    <2>2. acc \in Applying
      BY ApplyLinesTyped
    <2>3. acc.ok => end = ApplyLine(text, acc, line)
      BY ApplyLinesAppend
    <2>4. /\ line.mark \in OldMarks => Carries(Append(ls, line), OldMarks) = Append(old, line.text)
          /\ line.mark \notin OldMarks => Carries(Append(ls, line), OldMarks) = old
      BY CarriesAppend
    <2>5. old \in Seq(Line) /\ Len(old) \in Nat
      BY CarriesTyped, LenProperties
    <2>6. /\ Len(Append(old, line.text)) = Len(old) + 1
          /\ \A k \in 1..Len(old) : Append(old, line.text)[k] = old[k]
          /\ Append(old, line.text)[Len(old) + 1] = line.text
      BY <2>1, <2>5, AppendProperties
    <2> SUFFICES ASSUME Holds(text, start.cursor, Append(ls, line))
                 PROVE  end.ok
      BY <2>1
    <2> HIDE DEF acc, end, old
    <2>7. Holds(text, start.cursor, ls)
      <3>1. CASE line.mark \in OldMarks
        <4>1. start.cursor + (Len(old) + 1) <= Len(text)
          BY <2>4, <2>6, <3>1 DEF Holds
        <4>2. \A k \in 1..Len(old) + 1 : text[start.cursor + k] = Append(old, line.text)[k]
          BY <2>4, <2>6, <3>1 DEF Holds
        <4>3. start.cursor + Len(old) <= Len(text)
          BY <1>0, <2>5, <4>1
        <4>4. \A k \in 1..Len(old) : k \in 1..Len(old) + 1
          BY <2>5
        <4>5. \A k \in 1..Len(old) : text[start.cursor + k] = old[k]
          BY <2>6, <4>2, <4>4
        <4> QED
          BY <4>3, <4>5 DEF Holds, old
      <3>2. CASE line.mark \notin OldMarks
        BY <2>4, <3>2 DEF Holds, old
      <3> QED
        BY <3>1, <3>2
    <2>8. acc.ok
      BY <1>2, <2>7 DEF acc
    <2>9. LinesTaken(text, start, acc, ls)
      BY <2>8, ApplyLinesTaken DEF acc
    <2>10. ~end.ok => /\ line.mark \in OldMarks
                      /\ acc.cursor + 1 > Len(text) \/ text[acc.cursor + 1] # line.text
      BY <2>2, <2>3, <2>8, <2>9, LineTaken
    <2>11. acc.cursor = start.cursor + Len(old)
      BY <2>9 DEF LinesTaken, old
    <2>12. ASSUME line.mark \in OldMarks
           PROVE  acc.cursor + 1 <= Len(text) /\ text[acc.cursor + 1] = line.text
      <3>1. /\ start.cursor + (Len(old) + 1) <= Len(text)
            /\ \A k \in 1..Len(old) + 1 : text[start.cursor + k] = Append(old, line.text)[k]
        BY <2>4, <2>6, <2>12 DEF Holds
      <3>2. Len(old) + 1 \in 1..Len(old) + 1 /\ start.cursor + (Len(old) + 1) = acc.cursor + 1
        BY <1>0, <2>5, <2>11
      <3> QED
        BY <2>6, <3>1, <3>2
    <2>13. acc.cursor + 1 <= Len(text) => ~(acc.cursor + 1 > Len(text))
      BY <1>0, <2>5, <2>11
    <2> QED
      BY <2>10, <2>12, <2>13
  <1> HIDE DEF T
  <1>3. Seq(HunkLine) \subseteq T
    BY <1>1, <1>2, SequenceInduction
  <1> QED
    BY <1>3 DEF T

-----------------------------------------------------------------------------
(* Applying one hunk: the text is copied up to it, then its lines go in.   *)
NothingApplied == [ok |-> TRUE, out |-> <<>>, cursor |-> 0]

Moved(text, acc, hunk) ==
  [acc EXCEPT !.out = @ \o SubSeq(text, acc.cursor + 1, hunk.oldStart - 1),
              !.cursor = hunk.oldStart - 1]

(* applyUnifiedDiff starts in one of its states.                           *)
LEMMA NothingAppliedTyped ==
  NothingApplied \in Applying
  BY EmptySeq DEF NothingApplied, Applying

(* Going to the start of a hunk copies the text up to there.               *)
LEMMA MovedTyped ==
  ASSUME NEW text \in Seq(Line), NEW acc \in Applying, NEW hunk \in Hunk, HunkFits(text, acc, hunk),
         NEW moved, moved = Moved(text, acc, hunk)
  PROVE  /\ moved \in Applying
         /\ moved.ok = acc.ok
         /\ moved.cursor = hunk.oldStart - 1
         /\ moved.out = acc.out \o SubSeq(text, acc.cursor + 1, hunk.oldStart - 1)
         /\ acc.cursor <= moved.cursor /\ moved.cursor <= Len(text)
         /\ SubSeq(text, acc.cursor + 1, hunk.oldStart - 1) \in Seq(Line)
         /\ Len(SubSeq(text, acc.cursor + 1, hunk.oldStart - 1)) = moved.cursor - acc.cursor
  <1> DEFINE c == acc.cursor
             target == hunk.oldStart - 1
             copied == SubSeq(text, c + 1, target)
  <1>1. /\ acc.ok \in BOOLEAN /\ acc.out \in Seq(Line) /\ c \in Nat /\ Len(text) \in Nat
        /\ hunk.oldStart \in Nat
    BY LenProperties DEF Applying, Hunk
  <1>2. target >= c /\ target <= Len(text) /\ target \in Int
    BY <1>1 DEF HunkFits
  <1> HIDE DEF c, target
  <1>3. c + 1 \in 1..Len(text) + 1 /\ target \in 0..Len(text) /\ target \in Nat
    BY <1>1, <1>2
  <1>4. copied \in Seq(Line) /\ Len(copied) = IF c + 1 <= target THEN target - (c + 1) + 1 ELSE 0
    BY <1>3, SubSequence
  <1> HIDE DEF copied
  <1>5. Len(copied) = target - c
    BY ONLY <1>1, <1>2, <1>3, <1>4
  <1>6. acc.out \o copied \in Seq(Line)
    BY <1>1, <1>4, ConcatProperties
  <1>7. moved = [acc EXCEPT !.out = acc.out \o copied, !.cursor = target]
    BY DEF Moved, c, target, copied
  <1>8. /\ moved \in Applying
        /\ moved.ok = acc.ok /\ moved.cursor = target /\ moved.out = acc.out \o copied
    BY <1>1, <1>3, <1>6, <1>7 DEF Applying
  <1> QED
    BY <1>2, <1>4, <1>5, <1>8 DEF c, target, copied

(* The two cases of a hunk: it does not fit, or its lines are applied.     *)
LEMMA ApplyHunkIs ==
  ASSUME NEW text, NEW acc, NEW hunk
  PROVE  /\ (~acc.ok \/ ~HunkFits(text, acc, hunk)) =>
              ApplyHunk(text, acc, hunk) = [acc EXCEPT !.ok = FALSE]
         /\ (acc.ok /\ HunkFits(text, acc, hunk)) =>
              ApplyHunk(text, acc, hunk) = ApplyLines(text, Moved(text, acc, hunk), hunk.lines)
  BY DEF ApplyHunk, Moved

(* A hunk leads to a state of applyUnifiedDiff.                            *)
LEMMA ApplyHunkTyped ==
  ASSUME NEW text \in Seq(Line), NEW acc \in Applying, NEW hunk \in Hunk
  PROVE  ApplyHunk(text, acc, hunk) \in Applying
  <1>1. hunk.lines \in Seq(HunkLine)
    BY DEF Hunk
  <1>2. [acc EXCEPT !.ok = FALSE] \in Applying
    BY DEF Applying
  <1>3. ASSUME HunkFits(text, acc, hunk)
        PROVE  ApplyLines(text, Moved(text, acc, hunk), hunk.lines) \in Applying
    <2>1. Moved(text, acc, hunk) \in Applying
      BY <1>3, MovedTyped
    <2> QED
      BY <1>1, <2>1, ApplyLinesTyped
  <1> QED
    BY <1>2, <1>3, ApplyHunkIs

(* What a hunk that went in did.                                           *)
LEMMA ApplyHunkTaken ==
  ASSUME NEW text \in Seq(Line), NEW acc \in Applying, NEW hunk \in Hunk,
         ApplyHunk(text, acc, hunk).ok
  PROVE  /\ acc.ok /\ HunkFits(text, acc, hunk)
         /\ LinesTaken(text, Moved(text, acc, hunk), ApplyHunk(text, acc, hunk), hunk.lines)
  <1>1. hunk.lines \in Seq(HunkLine)
    BY DEF Hunk
  <1>2. acc.ok /\ HunkFits(text, acc, hunk)
    <2>1. [acc EXCEPT !.ok = FALSE].ok = FALSE
      BY DEF Applying
    <2> QED
      BY <2>1, ApplyHunkIs
  <1> DEFINE moved == Moved(text, acc, hunk)
  <1>3. moved \in Applying /\ moved.ok /\ moved.cursor <= Len(text)
    BY <1>2, MovedTyped
  <1>4. ApplyHunk(text, acc, hunk) = ApplyLines(text, moved, hunk.lines)
    BY <1>2, ApplyHunkIs
  <1> HIDE DEF moved
  <1>5. LinesTaken(text, moved, ApplyLines(text, moved, hunk.lines), hunk.lines)
    BY <1>1, <1>3, <1>4, ApplyLinesTaken
  <1> QED
    BY <1>2, <1>4, <1>5 DEF moved

(* A hunk that fits goes in where the text holds what it shows or removes. *)
LEMMA ApplyHunkGoesIn ==
  ASSUME NEW text \in Seq(Line), NEW acc \in Applying, NEW hunk \in Hunk,
         acc.ok, HunkFits(text, acc, hunk), Holds(text, hunk.oldStart - 1, hunk.lines)
  PROVE  ApplyHunk(text, acc, hunk).ok
  <1> DEFINE moved == Moved(text, acc, hunk)
  <1>1. hunk.lines \in Seq(HunkLine)
    BY DEF Hunk
  <1>2. moved \in Applying /\ moved.ok /\ moved.cursor <= Len(text) /\ moved.cursor = hunk.oldStart - 1
    BY MovedTyped
  <1>3. ApplyHunk(text, acc, hunk) = ApplyLines(text, moved, hunk.lines)
    BY ApplyHunkIs
  <1> HIDE DEF moved
  <1> QED
    BY <1>1, <1>2, <1>3, ApplyLinesGoIn

(* Applying hunks, as the states it goes through.                          *)
LEMMA HunksTable ==
  ASSUME NEW text \in Seq(Line), NEW hs \in Seq(Hunk)
  PROVE  \E g : /\ ApplyHunks(text, hs) = g[Len(hs)]
                /\ g[0] = NothingApplied
                /\ \A k \in 1..Len(hs) : g[k] = ApplyHunk(text, g[k - 1], hs[k])
  <1> DEFINE n == Len(hs)
             Step(acc, hunk) == ApplyHunk(text, acc, hunk)
             F == [c \in Applying \X (1..n) |-> Step(c[1], hs[c[2]])]
             w == CHOOSE g : g = [S \in SUBSET (1..n) |->
                                    IF S = {} THEN NothingApplied ELSE Step(g[S \ {Max(S)}], hs[Max(S)])]
  <1>1. n \in Nat /\ DOMAIN hs = 1..n /\ \A k \in 1..n : hs[k] \in Hunk
    BY LenProperties, ElementOfSeq
  <1>2. ApplyHunks(text, hs) = w[1..n]
    BY <1>1 DEF ApplyHunks, NothingApplied, FoldLeft, MapThenFoldSet
  <1> HIDE DEF n
  <1>3. F \in [Applying \X (1..n) -> Applying]
    <2>1. \A acc \in Applying, k \in 1..n : Step(acc, hs[k]) \in Applying
      BY <1>1, ApplyHunkTyped
    <2> HIDE DEF Step
    <2> QED
      BY <2>1
  <1>4. PICK g : IsFold(g, Applying, NothingApplied, F, n)
    <2> HIDE DEF F, w
    <2>1. NothingApplied \in Applying
      BY NothingAppliedTyped
    <2> QED
      BY <1>1, <1>3, <2>1, FoldExists
  <1>5. ASSUME NEW S \in SUBSET (1..n), S # {}
        PROVE  F[<<g[S \ {Max(S)}], Max(S)>>] = Step(g[S \ {Max(S)}], hs[Max(S)])
    <2>1. S \ {Max(S)} \in SUBSET (1..n) /\ Max(S) \in 1..n
      BY <1>1, <1>5, LastOf
    <2>2. g[S \ {Max(S)}] \in Applying
      BY <1>4, <2>1 DEF IsFold
    <2> HIDE DEF Step
    <2> QED
      BY <2>1, <2>2
  <1> HIDE DEF Step
  <1>6. g = [S \in SUBSET (1..n) |->
               IF S = {} THEN NothingApplied ELSE Step(g[S \ {Max(S)}], hs[Max(S)])]
    <2> HIDE DEF F, w
    <2> QED
      BY <1>4, <1>5 DEF IsFold
  <1>7. w = [S \in SUBSET (1..n) |->
               IF S = {} THEN NothingApplied ELSE Step(w[S \ {Max(S)}], hs[Max(S)])]
    BY <1>6
  <1> HIDE DEF w, F
  <1>8. ASSUME NEW k \in 1..n
        PROVE  w[1..k] = Step(w[1..k - 1], hs[k])
    <2>1. /\ 1..k \in SUBSET (1..n) /\ 1..k # {}
          /\ Max(1..k) = k /\ (1..k) \ {k} = 1..k - 1
      BY <1>1, PrefixSets
    <2>2. w[1..k] = Step(w[(1..k) \ {Max(1..k)}], hs[Max(1..k)])
      BY <1>7, <2>1
    <2> QED
      BY <2>1, <2>2
  <1>9. w[1..0] = NothingApplied
    <2>1. 1..0 = {} /\ {} \in SUBSET (1..n)
      OBVIOUS
    <2> QED
      BY <1>7, <2>1
  <1> DEFINE p == [k \in 0..n |-> w[1..k]]
  <1>10. /\ p[n] = w[1..n] /\ p[0] = NothingApplied
         /\ \A k \in 1..n : p[k] = Step(p[k - 1], hs[k])
    <2>1. n \in 0..n /\ 0 \in 0..n /\ \A k \in 1..n : k \in 0..n /\ k - 1 \in 0..n
      BY <1>1
    <2> QED
      BY <1>8, <1>9, <2>1
  <1> HIDE DEF p
  <1> QED
    BY <1>2, <1>10 DEF Step, n

(* Hunks lead to a state of applyUnifiedDiff.                              *)
LEMMA ApplyHunksTyped ==
  ASSUME NEW text \in Seq(Line), NEW hs \in Seq(Hunk)
  PROVE  ApplyHunks(text, hs) \in Applying
  <1>1. PICK g : /\ ApplyHunks(text, hs) = g[Len(hs)]
                 /\ g[0] = NothingApplied
                 /\ \A k \in 1..Len(hs) : g[k] = ApplyHunk(text, g[k - 1], hs[k])
    BY HunksTable
  <1>2. Len(hs) \in Nat /\ \A k \in 1..Len(hs) : hs[k] \in Hunk
    BY LenProperties, ElementOfSeq
  <1> DEFINE T == {n \in Nat : n <= Len(hs) => g[n] \in Applying}
  <1>3. 0 \in T
    BY <1>1, NothingAppliedTyped
  <1>4. ASSUME NEW n \in Nat, n \in T
        PROVE  n + 1 \in T
    <2> SUFFICES ASSUME n + 1 <= Len(hs)
                 PROVE  g[n + 1] \in Applying
      OBVIOUS
    <2>1. n + 1 \in 1..Len(hs) /\ (n + 1) - 1 = n /\ n <= Len(hs)
      BY <1>2
    <2>2. g[n] \in Applying
      BY <1>4, <2>1
    <2>3. g[n + 1] = ApplyHunk(text, g[n], hs[n + 1])
      BY <1>1, <2>1
    <2>4. ApplyHunk(text, g[n], hs[n + 1]) \in Applying
      BY <1>2, <2>1, <2>2, ApplyHunkTyped
    <2> QED
      BY <2>3, <2>4
  <1> HIDE DEF T
  <1>5. Len(hs) \in T
    BY <1>2, <1>3, <1>4, Induction
  <1> QED
    BY <1>1, <1>2, <1>5 DEF T

(* No hunk changes nothing.                                                *)
LEMMA ApplyHunksEmpty ==
  ASSUME NEW text \in Seq(Line)
  PROVE  ApplyHunks(text, <<>>) = NothingApplied
  <1> DEFINE none == <<>>
  <1>1. none \in Seq(Hunk) /\ Len(none) = 0
    BY EmptySeq
  <1> HIDE DEF none
  <1>2. PICK g : /\ ApplyHunks(text, none) = g[Len(none)]
                 /\ g[0] = NothingApplied
                 /\ \A k \in 1..Len(none) : g[k] = ApplyHunk(text, g[k - 1], none[k])
    BY <1>1, HunksTable
  <1> QED
    BY <1>1, <1>2 DEF none

(* One more hunk is applied where the others led.                          *)
LEMMA ApplyHunksAppend ==
  ASSUME NEW text \in Seq(Line), NEW hs \in Seq(Hunk), NEW h \in Hunk
  PROVE  ApplyHunks(text, Append(hs, h)) = ApplyHunk(text, ApplyHunks(text, hs), h)
  <1> DEFINE more == Append(hs, h)
  <1>1. /\ more \in Seq(Hunk) /\ Len(more) = Len(hs) + 1 /\ Len(hs) \in Nat
        /\ \A k \in 1..Len(hs) : more[k] = hs[k]
        /\ more[Len(hs) + 1] = h
    BY AppendProperties, LenProperties
  <1> HIDE DEF more
  <1>2. PICK g : /\ ApplyHunks(text, hs) = g[Len(hs)]
                 /\ g[0] = NothingApplied
                 /\ \A k \in 1..Len(hs) : g[k] = ApplyHunk(text, g[k - 1], hs[k])
    BY HunksTable
  <1>3. PICK f : /\ ApplyHunks(text, more) = f[Len(more)]
                 /\ f[0] = NothingApplied
                 /\ \A k \in 1..Len(more) : f[k] = ApplyHunk(text, f[k - 1], more[k])
    BY <1>1, HunksTable
  <1> DEFINE T == {n \in Nat : n <= Len(hs) => f[n] = g[n]}
  <1>4. 0 \in T
    BY <1>2, <1>3
  <1>5. ASSUME NEW n \in Nat, n \in T
        PROVE  n + 1 \in T
    <2> SUFFICES ASSUME n + 1 <= Len(hs)
                 PROVE  f[n + 1] = g[n + 1]
      OBVIOUS
    <2>1. n + 1 \in 1..Len(hs) /\ n + 1 \in 1..Len(more) /\ (n + 1) - 1 = n
      BY <1>1
    <2>2. f[n] = g[n] /\ more[n + 1] = hs[n + 1]
      BY <1>5, <1>1, <2>1
    <2>3. g[n + 1] = ApplyHunk(text, g[n], hs[n + 1])
      BY <1>2, <2>1
    <2>4. f[n + 1] = ApplyHunk(text, f[n], more[n + 1])
      BY <1>3, <2>1
    <2> QED
      BY <2>2, <2>3, <2>4
  <1> HIDE DEF T
  <1>6. Len(hs) \in T
    BY <1>1, <1>4, <1>5, Induction
  <1>7. f[Len(hs)] = ApplyHunks(text, hs)
    BY <1>1, <1>2, <1>6 DEF T
  <1>8. Len(hs) + 1 \in 1..Len(more) /\ (Len(hs) + 1) - 1 = Len(hs)
    BY <1>1
  <1>9. f[Len(hs) + 1] = ApplyHunk(text, f[Len(hs)], more[Len(hs) + 1])
    BY <1>3, <1>8
  <1> QED
    BY <1>1, <1>3, <1>7, <1>9 DEF more

(* The stretch of a text after one position and up to another.             *)
LEMMA Stretch ==
  ASSUME NEW s \in Seq(Line), NEW c \in Nat, NEW d \in Nat, c <= d, d <= Len(s)
  PROVE  /\ SubSeq(s, c + 1, d) \in Seq(Line)
         /\ Len(SubSeq(s, c + 1, d)) = d - c
         /\ \A i \in 1..d - c : SubSeq(s, c + 1, d)[i] = s[c + i]
  <1> DEFINE b == c + 1
             stretch == SubSeq(s, b, d)
  <1>1. Len(s) \in Nat
    BY LenProperties
  <1>2. b \in 1..Len(s) + 1 /\ d \in 0..Len(s) /\ b = c + 1
    BY <1>1
  <1> HIDE DEF b
  <1>3. /\ stretch \in Seq(Line)
        /\ Len(stretch) = IF b <= d THEN d - b + 1 ELSE 0
        /\ \A i \in 1..d - b + 1 : stretch[i] = s[b + i - 1]
    BY <1>2, SubSequence
  <1> HIDE DEF stretch
  <1>4. d - b + 1 = d - c /\ Len(stretch) = d - c
    BY <1>2, <1>3
  <1>5. ASSUME NEW i \in 1..d - c
        PROVE  stretch[i] = s[c + i]
    <2>1. b + i - 1 = c + i
      BY <1>2
    <2> QED
      BY <1>3, <1>4, <2>1
  <1> QED
    BY <1>3, <1>4, <1>5 DEF stretch, b

(* The lines held from a position on are a stretch of the text.            *)
LEMMA HeldStretch ==
  ASSUME NEW text \in Seq(Line), NEW old \in Seq(Line), NEW c \in Nat, c + Len(old) <= Len(text)
  PROVE  /\ (\A k \in 1..Len(old) : text[c + k] = old[k]) => SubSeq(text, c + 1, c + Len(old)) = old
         /\ SubSeq(text, c + 1, c + Len(old)) = old => \A k \in 1..Len(old) : text[c + k] = old[k]
  <1> DEFINE m == Len(old)
             d == c + m
             stretch == SubSeq(text, c + 1, d)
  <1>1. m \in Nat /\ d \in Nat /\ c <= d /\ d <= Len(text) /\ d - c = m
    BY LenProperties
  <1> HIDE DEF m, d
  <1>2. /\ stretch \in Seq(Line) /\ Len(stretch) = d - c
        /\ \A i \in 1..d - c : stretch[i] = text[c + i]
    BY <1>1, Stretch
  <1> HIDE DEF stretch
  <1>3. Len(stretch) = m /\ \A i \in 1..m : stretch[i] = text[c + i]
    BY <1>1, <1>2
  <1>4. (\A k \in 1..m : text[c + k] = old[k]) => stretch = old
    <2> SUFFICES ASSUME \A k \in 1..m : text[c + k] = old[k] PROVE stretch = old
      OBVIOUS
    <2>1. \A k \in 1..Len(stretch) : stretch[k] = old[k]
      BY <1>3
    <2>2. Len(stretch) = Len(old)
      BY <1>3 DEF m
    <2> QED
      BY <1>2, <2>1, <2>2, SeqEqual
  <1> QED
    BY <1>3, <1>4 DEF m, d, stretch

-----------------------------------------------------------------------------
(* Hunks that all went in were all verified.                               *)
Verified(text, hunk) ==
  SubSeq(text, hunk.oldStart, hunk.oldStart + Len(Carries(hunk.lines, OldMarks)) - 1)
    = Carries(hunk.lines, OldMarks)

(* The text held what a hunk that went in shows or removes.                *)
LEMMA HunkVerified ==
  ASSUME NEW text \in Seq(Line), NEW acc \in Applying, NEW hunk \in Hunk,
         ApplyHunk(text, acc, hunk).ok
  PROVE  Verified(text, hunk)
  <1> DEFINE end == ApplyHunk(text, acc, hunk)
             old == Carries(hunk.lines, OldMarks)
             moved == Moved(text, acc, hunk)
             c == moved.cursor
  <1>1. acc.ok /\ HunkFits(text, acc, hunk) /\ LinesTaken(text, moved, end, hunk.lines)
    BY ApplyHunkTaken
  <1>2. moved \in Applying /\ moved.cursor = hunk.oldStart - 1
    BY <1>1, MovedTyped
  <1>3. old \in Seq(Line)
    <2>1. hunk.lines \in Seq(HunkLine)
      BY DEF Hunk
    <2> QED
      BY <2>1, CarriesTyped
  <1>4. c \in Nat /\ hunk.oldStart \in Nat /\ Len(old) \in Nat
    BY <1>2, <1>3, LenProperties DEF Applying, Hunk
  <1> HIDE DEF old, end, moved
  <1>5. c + Len(old) <= Len(text) /\ \A k \in 1..Len(old) : text[c + k] = old[k]
    BY <1>1 DEF LinesTaken, old
  <1> HIDE DEF c
  <1>6. SubSeq(text, c + 1, c + Len(old)) = old
    BY <1>3, <1>4, <1>5, HeldStretch
  <1>7. c + 1 = hunk.oldStart /\ c + Len(old) = hunk.oldStart + Len(old) - 1
    <2>1. c = hunk.oldStart - 1
      BY <1>2 DEF c
    <2> QED
      BY <1>4, <2>1
  <1> QED
    BY <1>6, <1>7 DEF Verified, old

(* The text held what every hunk shows or removes, if all went in.         *)
LEMMA HunksVerified ==
  ASSUME NEW text \in Seq(Line), NEW hs \in Seq(Hunk), ApplyHunks(text, hs).ok
  PROVE  \A k \in 1..Len(hs) : Verified(text, hs[k])
  <1> DEFINE T == {s \in Seq(Hunk) : ApplyHunks(text, s).ok =>
                     \A k \in 1..Len(s) : Verified(text, s[k])}
  <1>1. <<>> \in T
    BY EmptySeq
  <1>2. ASSUME NEW s \in Seq(Hunk), NEW h \in Hunk, s \in T
        PROVE  Append(s, h) \in T
    <2> DEFINE acc == ApplyHunks(text, s)
               more == Append(s, h)
    <2>1. /\ more \in Seq(Hunk) /\ Len(more) = Len(s) + 1 /\ Len(s) \in Nat
          /\ \A k \in 1..Len(s) : more[k] = s[k]
          /\ more[Len(s) + 1] = h
      BY AppendProperties, LenProperties
    <2>2. acc \in Applying /\ ApplyHunks(text, more) = ApplyHunk(text, acc, h)
      BY ApplyHunksTyped, ApplyHunksAppend
    <2> HIDE DEF more
    <2> SUFFICES ASSUME ApplyHunks(text, more).ok, NEW k \in 1..Len(more)
                 PROVE  Verified(text, more[k])
      BY <2>1 DEF more
    <2> HIDE DEF acc
    <2>3. acc.ok /\ Verified(text, h)
      BY <2>2, ApplyHunkTaken, HunkVerified
    <2>4. \A i \in 1..Len(s) : Verified(text, s[i])
      BY <1>2, <2>3 DEF acc
    <2>5. CASE k \in 1..Len(s)
      BY <2>1, <2>4, <2>5
    <2>6. CASE k = Len(s) + 1
      BY <2>1, <2>3, <2>6
    <2> QED
      BY <2>1, <2>5, <2>6
  <1> HIDE DEF T
  <1>3. Seq(Hunk) \subseteq T
    BY <1>1, <1>2, SequenceInduction
  <1> QED
    BY <1>3 DEF T

-----------------------------------------------------------------------------
(* Hunks that went in changed the length of the text by what they say.     *)
LEMMA HunkGrowth ==
  ASSUME NEW text \in Seq(Line), NEW acc \in Applying, NEW hunk \in Hunk,
         NEW end, end = ApplyHunk(text, acc, hunk), end.ok
  PROVE  /\ Len(end.out) - end.cursor = (Len(acc.out) - acc.cursor)
              + (Len(Carries(hunk.lines, NewMarks)) - Len(Carries(hunk.lines, OldMarks)))
         /\ end.cursor <= Len(text)
  <1> DEFINE moved == Moved(text, acc, hunk)
             copied == SubSeq(text, acc.cursor + 1, hunk.oldStart - 1)
             old == Carries(hunk.lines, OldMarks)
             new == Carries(hunk.lines, NewMarks)
  <1>1. acc.ok /\ HunkFits(text, acc, hunk) /\ LinesTaken(text, moved, end, hunk.lines)
    BY ApplyHunkTaken
  <1>2. /\ moved \in Applying /\ moved.out = acc.out \o copied
        /\ copied \in Seq(Line) /\ Len(copied) = moved.cursor - acc.cursor
    <2>1. moved = Moved(text, acc, hunk) /\ HunkFits(text, acc, hunk)
      BY <1>1
    <2> HIDE DEF moved
    <2>2. moved \in Applying
      BY ONLY <2>1, text \in Seq(Line), acc \in Applying, hunk \in Hunk, MovedTyped
    <2>3. moved.out = acc.out \o SubSeq(text, acc.cursor + 1, hunk.oldStart - 1)
      BY ONLY <2>1, acc \in Applying DEF Moved, Applying
    <2>4. SubSeq(text, acc.cursor + 1, hunk.oldStart - 1) \in Seq(Line)
      BY ONLY <2>1, text \in Seq(Line), acc \in Applying, hunk \in Hunk, MovedTyped
    <2>5. Len(SubSeq(text, acc.cursor + 1, hunk.oldStart - 1)) = moved.cursor - acc.cursor
      BY ONLY <2>1, text \in Seq(Line), acc \in Applying, hunk \in Hunk, MovedTyped
    <2> QED
      BY <2>2, <2>3, <2>4, <2>5
  <1>3. old \in Seq(Line) /\ new \in Seq(Line)
    <2>1. hunk.lines \in Seq(HunkLine)
      BY DEF Hunk
    <2> QED
      BY <2>1, CarriesTyped
  <1> HIDE DEF moved, copied, old, new
  <1>4. end.cursor = moved.cursor + Len(old) /\ end.cursor <= Len(text) /\ end.out = moved.out \o new
    BY <1>1 DEF LinesTaken, old, new
  <1> DEFINE a == acc.cursor
             b == moved.cursor
             n == Len(acc.out)
  <1>5. /\ a \in Nat /\ b \in Nat /\ n \in Nat /\ Len(old) \in Nat /\ Len(new) \in Nat
        /\ acc.out \in Seq(Line) /\ moved.out \in Seq(Line)
    BY <1>2, <1>3, LenProperties DEF Applying
  <1>6. Len(moved.out) = n + (b - a)
    <2>1. Len(acc.out \o copied) = Len(acc.out) + Len(copied)
      BY <1>2, <1>5, ConcatProperties
    <2> QED
      BY <1>2, <2>1
  <1>7. Len(end.out) = Len(moved.out) + Len(new)
    <2>1. Len(moved.out \o new) = Len(moved.out) + Len(new)
      BY <1>3, <1>5, ConcatProperties
    <2> QED
      BY <1>4, <2>1
  <1> HIDE DEF a, b, n
  <1>8. (n + (b - a)) + Len(new) - (b + Len(old)) = (n - a) + (Len(new) - Len(old))
    BY ONLY <1>5
  <1>9. Len(end.out) = (n + (b - a)) + Len(new) /\ end.cursor = b + Len(old)
    BY <1>4, <1>6, <1>7 DEF b
  <1>10. Len(end.out) - end.cursor = (n - a) + (Len(new) - Len(old))
    BY ONLY <1>5, <1>8, <1>9
  <1> QED
    BY <1>4, <1>10 DEF a, n, old, new

(* Hunks that go into two texts make both longer by as much.               *)
LEMMA SameGrowth ==
  ASSUME NEW s \in Seq(Line), NEW t \in Seq(Line), NEW hs \in Seq(Hunk),
         ApplyHunks(s, hs).ok, ApplyHunks(t, hs).ok
  PROVE  Len(ApplyHunks(s, hs).out) - ApplyHunks(s, hs).cursor
           = Len(ApplyHunks(t, hs).out) - ApplyHunks(t, hs).cursor
  <1> DEFINE Growth(text, gs) == Len(ApplyHunks(text, gs).out) - ApplyHunks(text, gs).cursor
             T == {gs \in Seq(Hunk) : (ApplyHunks(s, gs).ok /\ ApplyHunks(t, gs).ok) =>
                     Growth(s, gs) = Growth(t, gs)}
  <1>1. <<>> \in T
    BY ApplyHunksEmpty, EmptySeq
  <1>2. ASSUME NEW gs \in Seq(Hunk), NEW h \in Hunk, gs \in T
        PROVE  Append(gs, h) \in T
    <2> DEFINE more == Append(gs, h)
    <2>1. more \in Seq(Hunk)
      BY AppendProperties
    <2>2. ASSUME NEW text \in Seq(Line), ApplyHunks(text, more).ok
          PROVE  /\ ApplyHunks(text, gs).ok
                 /\ Growth(text, more) = Growth(text, gs)
                      + (Len(Carries(h.lines, NewMarks)) - Len(Carries(h.lines, OldMarks)))
      <3> DEFINE acc == ApplyHunks(text, gs)
                 end == ApplyHunks(text, more)
      <3>1. acc \in Applying /\ end = ApplyHunk(text, acc, h)
        BY ApplyHunksTyped, ApplyHunksAppend
      <3>2. end.ok
        BY <2>2
      <3> HIDE DEF acc, end
      <3>3. acc.ok /\ Len(end.out) - end.cursor = (Len(acc.out) - acc.cursor)
                        + (Len(Carries(h.lines, NewMarks)) - Len(Carries(h.lines, OldMarks)))
        BY <3>1, <3>2, ApplyHunkTaken, HunkGrowth
      <3> QED
        BY <3>3 DEF acc, end
    <2> HIDE DEF more
    <2> SUFFICES ASSUME ApplyHunks(s, more).ok, ApplyHunks(t, more).ok
                 PROVE  Growth(s, more) = Growth(t, more)
      BY <2>1 DEF more
    <2> HIDE DEF Growth
    <2> QED
      BY <1>2, <2>2
  <1> HIDE DEF T
  <1>3. Seq(Hunk) \subseteq T
    BY <1>1, <1>2, SequenceInduction
  <1> QED
    BY <1>3 DEF T

(* The length of what applying hunks writes.                               *)
LEMMA WrittenLength ==
  ASSUME NEW text \in Seq(Line), NEW hs \in Seq(Hunk), ApplyUnifiedDiff(text, hs).ok
  PROVE  /\ ApplyHunks(text, hs).ok
         /\ ApplyUnifiedDiff(text, hs).text \in Seq(Line)
         /\ Len(ApplyUnifiedDiff(text, hs).text) - Len(text)
              = Len(ApplyHunks(text, hs).out) - ApplyHunks(text, hs).cursor
  <1> DEFINE end == ApplyHunks(text, hs)
             rest == SubSeq(text, end.cursor + 1, Len(text))
  <1>1. end \in Applying
    BY ApplyHunksTyped
  <1>2. end.ok /\ hs # <<>> /\ ApplyUnifiedDiff(text, hs) = Wrote(end.out \o rest)
    BY DEF ApplyUnifiedDiff, NoText
  <1>3. end.cursor <= Len(text)
    <2>1. PICK gs \in Seq(Hunk), h \in Hunk : hs = Append(gs, h)
      BY <1>2, SequenceEmptyOrAppend
    <2> DEFINE acc == ApplyHunks(text, gs)
    <2>2. acc \in Applying /\ end = ApplyHunk(text, acc, h)
      BY <2>1, ApplyHunksTyped, ApplyHunksAppend
    <2> HIDE DEF acc, end
    <2> QED
      BY <1>2, <2>2, HunkGrowth
  <1>4. /\ end.cursor \in Nat /\ end.out \in Seq(Line) /\ Len(text) \in Nat /\ Len(end.out) \in Nat
    BY <1>1, LenProperties DEF Applying
  <1> HIDE DEF end
  <1> DEFINE c == end.cursor
             size == Len(text)
             n == Len(end.out)
  <1>5. c \in Nat /\ size \in Nat /\ n \in Nat /\ c <= size
    BY <1>3, <1>4
  <1>6. rest \in Seq(Line) /\ Len(rest) = size - c
    <2>1. c + 1 \in 1..size + 1 /\ size \in 0..size
      BY <1>5
    <2>2. rest \in Seq(Line) /\ Len(rest) = IF c + 1 <= size THEN size - (c + 1) + 1 ELSE 0
      BY <2>1, SubSequence
    <2> HIDE DEF rest, c, size
    <2> QED
      BY ONLY <1>5, <2>2
  <1> HIDE DEF rest
  <1>7. end.out \o rest \in Seq(Line) /\ Len(end.out \o rest) = n + (size - c)
    <2>1. end.out \o rest \in Seq(Line) /\ Len(end.out \o rest) = Len(end.out) + Len(rest)
      BY <1>4, <1>6, ConcatProperties
    <2> QED
      BY <1>6, <2>1
  <1> HIDE DEF c, size, n
  <1>8. n + (size - c) - size = n - c
    BY ONLY <1>5
  <1> DEFINE whole == end.out \o rest
  <1>9. Wrote(whole).text = whole
    BY DEF Wrote
  <1>10. whole \in Seq(Line) /\ Len(whole) - size = n - c
    BY ONLY <1>5, <1>7, <1>8
  <1>11. ApplyUnifiedDiff(text, hs).text = whole
    BY <1>2, <1>9
  <1> HIDE DEF whole
  <1> QED
    BY <1>2, <1>10, <1>11 DEF c, size, n, end

-----------------------------------------------------------------------------
(* Reading a rendered diff back.                                           *)
HeaderShown == [is : {"hunk"}, oldStart : Nat, oldLines : Nat, newStart : Nat, newLines : Nat]
BodyShown == [is : {"body"}, mark : {" ", "-", "+"}, text : Line]
Shown == {FileHeader} \cup HeaderShown \cup BodyShown

(* A hunk whose lines are replaced keeps its header.                       *)
LEMMA HunkWithLines ==
  ASSUME NEW h \in Hunk, NEW ls \in Seq(HunkLine)
  PROVE  /\ [h EXCEPT !.lines = ls] \in Hunk
         /\ [h EXCEPT !.lines = ls]
              = [oldStart |-> h.oldStart, oldLines |-> h.oldLines,
                 newStart |-> h.newStart, newLines |-> h.newLines, lines |-> ls]
  <1> DEFINE H(LS) == [oldStart : Nat, oldLines : Nat, newStart : Nat, newLines : Nat, lines : LS]
             LS == Seq(HunkLine)
  <1>1. h \in H(LS) /\ ls \in LS
    BY DEF Hunk
  <1> HIDE DEF LS
  <1>2. [h EXCEPT !.lines = ls] \in H(LS)
    BY <1>1
  <1>3. [h EXCEPT !.lines = ls]
          = [oldStart |-> h.oldStart, oldLines |-> h.oldLines,
             newStart |-> h.newStart, newLines |-> h.newLines, lines |-> ls]
    BY <1>1
  <1> QED
    BY <1>2, <1>3 DEF LS, Hunk

(* Reading the header of a hunk opens that hunk, without lines.            *)
LEMMA ReadHeader ==
  ASSUME NEW hs \in Seq(Hunk), NEW h \in Hunk
  PROVE  /\ HunkHeader(h) \in HeaderShown
         /\ [h EXCEPT !.lines = <<>>] \in Hunk
         /\ ReadLine(hs, HunkHeader(h)) = Append(hs, [h EXCEPT !.lines = <<>>])
  <1>1. /\ h.oldStart \in Nat /\ h.oldLines \in Nat /\ h.newStart \in Nat /\ h.newLines \in Nat
        /\ h.lines \in Seq(HunkLine)
    BY DEF Hunk
  <1>2. HunkHeader(h) \in HeaderShown
    BY <1>1 DEF HunkHeader, HeaderShown
  <1>3. [h EXCEPT !.lines = <<>>] \in Hunk
    BY EmptySeq DEF Hunk
  <1>4. [h EXCEPT !.lines = <<>>]
          = [oldStart |-> h.oldStart, oldLines |-> h.oldLines,
             newStart |-> h.newStart, newLines |-> h.newLines, lines |-> <<>>]
    <2> DEFINE none == <<>>
    <2>1. none \in Seq(HunkLine)
      BY EmptySeq
    <2> HIDE DEF none
    <2>2. [h EXCEPT !.lines = none]
            = [oldStart |-> h.oldStart, oldLines |-> h.oldLines,
               newStart |-> h.newStart, newLines |-> h.newLines, lines |-> none]
      BY <2>1, HunkWithLines
    <2> QED
      BY <2>2 DEF none
  <1>5. /\ HunkHeader(h).is = "hunk"
        /\ HunkHeader(h).oldStart = h.oldStart /\ HunkHeader(h).oldLines = h.oldLines
        /\ HunkHeader(h).newStart = h.newStart /\ HunkHeader(h).newLines = h.newLines
    BY DEF HunkHeader
  <1>6. ReadLine(hs, HunkHeader(h)) = Append(hs, [h EXCEPT !.lines = <<>>])
    BY <1>4, <1>5 DEF ReadLine
  <1> QED
    BY <1>2, <1>3, <1>6

(* Reading a line of a rendered diff leads from hunks to hunks.            *)
LEMMA ReadLineTyped ==
  ASSUME NEW hs \in Seq(Hunk), NEW line \in Shown
  PROVE  ReadLine(hs, line) \in Seq(Hunk)
  <1>1. CASE line \in HeaderShown
    <2>1. /\ line.is = "hunk" /\ line.oldStart \in Nat /\ line.oldLines \in Nat
          /\ line.newStart \in Nat /\ line.newLines \in Nat
      BY <1>1 DEF HeaderShown
    <2> DEFINE h == [oldStart |-> line.oldStart, oldLines |-> line.oldLines,
                     newStart |-> line.newStart, newLines |-> line.newLines, lines |-> <<>>]
    <2>2. h \in Hunk
      BY <2>1, EmptySeq DEF Hunk
    <2>3. ReadLine(hs, line) = Append(hs, h)
      BY <2>1 DEF ReadLine
    <2> HIDE DEF h
    <2> QED
      BY <2>2, <2>3, AppendProperties
  <1>2. CASE line = FileHeader
    <2>1. line.is = "file"
      BY <1>2 DEF FileHeader
    <2> QED
      BY <2>1 DEF ReadLine, LooksLikeFileHeader
  <1>3. CASE line \in BodyShown
    <2>1. line.is = "body" /\ line.mark \in {" ", "-", "+"} /\ line.text \in Line
      BY <1>3 DEF BodyShown
    <2>2. CASE hs = <<>> \/ LooksLikeFileHeader(line)
      BY <2>1, <2>2 DEF ReadLine
    <2>3. CASE ~(hs = <<>> \/ LooksLikeFileHeader(line))
      <3> DEFINE l == [mark |-> line.mark, text |-> line.text]
                 n == Len(hs)
                 x == [hs[n] EXCEPT !.lines = Append(hs[n].lines, l)]
      <3>1. l \in HunkLine
        BY <2>1 DEF HunkLine
      <3>2. n \in 1..Len(hs) /\ hs[n] \in Hunk
        <4>1. hs # <<>> /\ Len(hs) \in Nat
          BY <2>3, LenProperties
        <4>2. n \in 1..Len(hs)
          BY <4>1, EmptySeq
        <4> QED
          BY <4>2, ElementOfSeq
      <3>3. Append(hs[n].lines, l) \in Seq(HunkLine)
        <4>1. hs[n].lines \in Seq(HunkLine)
          BY <3>2 DEF Hunk
        <4> HIDE DEF l
        <4> QED
          BY <3>1, <4>1, AppendProperties
      <3>4. x \in Hunk
        BY <3>2, <3>3 DEF Hunk
      <3>5. ReadLine(hs, line) = [hs EXCEPT ![n] = x]
        BY <2>1, <2>3 DEF ReadLine
      <3> HIDE DEF x, n
      <3>6. [hs EXCEPT ![n] = x] \in Seq(Hunk)
        BY <3>2, <3>4, ExceptSeq
      <3> QED
        BY <3>5, <3>6
    <2> QED
      BY <2>2, <2>3
  <1> QED
    BY <1>1, <1>2, <1>3 DEF Shown

(* Reading a diff, as the hunks it goes through.                           *)
LEMMA ParseTable ==
  ASSUME NEW d \in Seq(Shown)
  PROVE  \E g : /\ ParseUnifiedDiff(d) = g[Len(d)]
                /\ g[0] = <<>>
                /\ \A k \in 1..Len(d) : g[k] = ReadLine(g[k - 1], d[k])
  <1> DEFINE n == Len(d)
             Step(hs, line) == ReadLine(hs, line)
             F == [c \in Seq(Hunk) \X (1..n) |-> Step(c[1], d[c[2]])]
             w == CHOOSE g : g = [S \in SUBSET (1..n) |->
                                    IF S = {} THEN <<>> ELSE Step(g[S \ {Max(S)}], d[Max(S)])]
  <1>1. n \in Nat /\ DOMAIN d = 1..n /\ \A k \in 1..n : d[k] \in Shown
    BY LenProperties, ElementOfSeq
  <1>2. ParseUnifiedDiff(d) = w[1..n]
    BY <1>1 DEF ParseUnifiedDiff, FoldLeft, MapThenFoldSet
  <1> HIDE DEF n
  <1>3. F \in [Seq(Hunk) \X (1..n) -> Seq(Hunk)]
    <2>1. \A acc \in Seq(Hunk), k \in 1..n : Step(acc, d[k]) \in Seq(Hunk)
      BY <1>1, ReadLineTyped
    <2> HIDE DEF Step
    <2> QED
      BY <2>1
  <1>4. PICK g : IsFold(g, Seq(Hunk), <<>>, F, n)
    <2> HIDE DEF F, w
    <2>1. <<>> \in Seq(Hunk)
      BY EmptySeq
    <2> QED
      BY <1>1, <1>3, <2>1, FoldExists
  <1>5. ASSUME NEW S \in SUBSET (1..n), S # {}
        PROVE  F[<<g[S \ {Max(S)}], Max(S)>>] = Step(g[S \ {Max(S)}], d[Max(S)])
    <2>1. S \ {Max(S)} \in SUBSET (1..n) /\ Max(S) \in 1..n
      BY <1>1, <1>5, LastOf
    <2>2. g[S \ {Max(S)}] \in Seq(Hunk)
      BY <1>4, <2>1 DEF IsFold
    <2> HIDE DEF Step
    <2> QED
      BY <2>1, <2>2
  <1> HIDE DEF Step
  <1>6. g = [S \in SUBSET (1..n) |->
               IF S = {} THEN <<>> ELSE Step(g[S \ {Max(S)}], d[Max(S)])]
    <2> HIDE DEF F, w
    <2> QED
      BY <1>4, <1>5 DEF IsFold
  <1>7. w = [S \in SUBSET (1..n) |->
               IF S = {} THEN <<>> ELSE Step(w[S \ {Max(S)}], d[Max(S)])]
    BY <1>6
  <1> HIDE DEF w, F
  <1>8. ASSUME NEW k \in 1..n
        PROVE  w[1..k] = Step(w[1..k - 1], d[k])
    <2>1. /\ 1..k \in SUBSET (1..n) /\ 1..k # {}
          /\ Max(1..k) = k /\ (1..k) \ {k} = 1..k - 1
      BY <1>1, PrefixSets
    <2>2. w[1..k] = Step(w[(1..k) \ {Max(1..k)}], d[Max(1..k)])
      BY <1>7, <2>1
    <2> QED
      BY <2>1, <2>2
  <1>9. w[1..0] = <<>>
    <2>1. 1..0 = {} /\ {} \in SUBSET (1..n)
      OBVIOUS
    <2> QED
      BY <1>7, <2>1
  <1> DEFINE p == [k \in 0..n |-> w[1..k]]
  <1>10. /\ p[n] = w[1..n] /\ p[0] = <<>>
         /\ \A k \in 1..n : p[k] = Step(p[k - 1], d[k])
    <2>1. n \in 0..n /\ 0 \in 0..n /\ \A k \in 1..n : k \in 0..n /\ k - 1 \in 0..n
      BY <1>1
    <2> QED
      BY <1>8, <1>9, <2>1
  <1> HIDE DEF p
  <1> QED
    BY <1>2, <1>10 DEF Step, n

(* Hunks are read from a rendered diff.                                    *)
LEMMA ParseTyped ==
  ASSUME NEW d \in Seq(Shown)
  PROVE  ParseUnifiedDiff(d) \in Seq(Hunk)
  <1>1. PICK g : /\ ParseUnifiedDiff(d) = g[Len(d)]
                 /\ g[0] = <<>>
                 /\ \A k \in 1..Len(d) : g[k] = ReadLine(g[k - 1], d[k])
    BY ParseTable
  <1>2. Len(d) \in Nat /\ \A k \in 1..Len(d) : d[k] \in Shown
    BY LenProperties, ElementOfSeq
  <1> DEFINE T == {n \in Nat : n <= Len(d) => g[n] \in Seq(Hunk)}
  <1>3. 0 \in T
    BY <1>1, EmptySeq
  <1>4. ASSUME NEW n \in Nat, n \in T
        PROVE  n + 1 \in T
    <2> SUFFICES ASSUME n + 1 <= Len(d)
                 PROVE  g[n + 1] \in Seq(Hunk)
      OBVIOUS
    <2>1. n + 1 \in 1..Len(d) /\ (n + 1) - 1 = n /\ n <= Len(d)
      BY <1>2
    <2>2. g[n] \in Seq(Hunk)
      BY <1>4, <2>1
    <2>3. g[n + 1] = ReadLine(g[n], d[n + 1])
      BY <1>1, <2>1
    <2>4. ReadLine(g[n], d[n + 1]) \in Seq(Hunk)
      BY <1>2, <2>1, <2>2, ReadLineTyped
    <2> QED
      BY <2>3, <2>4
  <1> HIDE DEF T
  <1>5. Len(d) \in T
    BY <1>2, <1>3, <1>4, Induction
  <1> QED
    BY <1>1, <1>2, <1>5 DEF T

(* Nothing is read from an empty diff.                                     *)
LEMMA ParseEmpty ==
  ParseUnifiedDiff(<<>>) = <<>>
  <1> DEFINE none == <<>>
  <1>1. none \in Seq(Shown) /\ Len(none) = 0
    BY EmptySeq
  <1> HIDE DEF none
  <1>2. PICK g : /\ ParseUnifiedDiff(none) = g[Len(none)]
                 /\ g[0] = <<>>
                 /\ \A k \in 1..Len(none) : g[k] = ReadLine(g[k - 1], none[k])
    BY <1>1, ParseTable
  <1> QED
    BY <1>1, <1>2 DEF none

(* One more line is read on top of those before it.                        *)
LEMMA ParseAppend ==
  ASSUME NEW d \in Seq(Shown), NEW line \in Shown
  PROVE  ParseUnifiedDiff(Append(d, line)) = ReadLine(ParseUnifiedDiff(d), line)
  <1> DEFINE more == Append(d, line)
  <1>1. /\ more \in Seq(Shown) /\ Len(more) = Len(d) + 1 /\ Len(d) \in Nat
        /\ \A k \in 1..Len(d) : more[k] = d[k]
        /\ more[Len(d) + 1] = line
    BY AppendProperties, LenProperties
  <1> HIDE DEF more
  <1>2. PICK g : /\ ParseUnifiedDiff(d) = g[Len(d)]
                 /\ g[0] = <<>>
                 /\ \A k \in 1..Len(d) : g[k] = ReadLine(g[k - 1], d[k])
    BY ParseTable
  <1>3. PICK f : /\ ParseUnifiedDiff(more) = f[Len(more)]
                 /\ f[0] = <<>>
                 /\ \A k \in 1..Len(more) : f[k] = ReadLine(f[k - 1], more[k])
    BY <1>1, ParseTable
  <1> DEFINE T == {n \in Nat : n <= Len(d) => f[n] = g[n]}
  <1>4. 0 \in T
    BY <1>2, <1>3
  <1>5. ASSUME NEW n \in Nat, n \in T
        PROVE  n + 1 \in T
    <2> SUFFICES ASSUME n + 1 <= Len(d)
                 PROVE  f[n + 1] = g[n + 1]
      OBVIOUS
    <2>1. n + 1 \in 1..Len(d) /\ n + 1 \in 1..Len(more) /\ (n + 1) - 1 = n
      BY <1>1
    <2>2. f[n] = g[n] /\ more[n + 1] = d[n + 1]
      BY <1>5, <1>1, <2>1
    <2>3. g[n + 1] = ReadLine(g[n], d[n + 1])
      BY <1>2, <2>1
    <2>4. f[n + 1] = ReadLine(f[n], more[n + 1])
      BY <1>3, <2>1
    <2> QED
      BY <2>2, <2>3, <2>4
  <1> HIDE DEF T
  <1>6. Len(d) \in T
    BY <1>1, <1>4, <1>5, Induction
  <1>7. f[Len(d)] = ParseUnifiedDiff(d)
    BY <1>1, <1>2, <1>6 DEF T
  <1>8. Len(d) + 1 \in 1..Len(more) /\ (Len(d) + 1) - 1 = Len(d)
    BY <1>1
  <1>9. f[Len(d) + 1] = ReadLine(f[Len(d)], more[Len(d) + 1])
    BY <1>3, <1>8
  <1> QED
    BY <1>1, <1>3, <1>7, <1>9 DEF more

-----------------------------------------------------------------------------
(* The lines a diff gives back as it showed them: not taken for the header *)
(* of a file.                                                              *)
PlainLine == {l \in HunkLine : /\ l.mark = "-" => l.text \notin DashLine
                               /\ l.mark = "+" => l.text \notin PlusLine}

WithLines(h, ls) ==
  [oldStart |-> h.oldStart, oldLines |-> h.oldLines,
   newStart |-> h.newStart, newLines |-> h.newLines, lines |-> ls]

Bodies(ls) == [k \in DOMAIN ls |-> BodyLine(ls[k])]

(* The hunk with a header and some lines.                                  *)
LEMMA WithLinesTyped ==
  ASSUME NEW h \in Hunk, NEW ls \in Seq(HunkLine)
  PROVE  WithLines(h, ls) \in Hunk /\ WithLines(h, ls).lines = ls
  BY DEF Hunk, WithLines

(* A hunk is its header and its lines.                                     *)
LEMMA WithItsLines ==
  ASSUME NEW h \in Hunk
  PROVE  WithLines(h, h.lines) = h
  <1> DEFINE H(LS) == [oldStart : Nat, oldLines : Nat, newStart : Nat, newLines : Nat, lines : LS]
             LS == Seq(HunkLine)
  <1>1. h \in H(LS)
    BY DEF Hunk
  <1> HIDE DEF LS
  <1> QED
    BY <1>1 DEF WithLines

(* A body line that does not look like a file header is added to the hunk  *)
(* that was opened last.                                                   *)
LEMMA ReadBody ==
  ASSUME NEW hs \in Seq(Hunk), NEW h \in Hunk, NEW l \in PlainLine
  PROVE  /\ BodyLine(l) \in Shown
         /\ Append(h.lines, l) \in Seq(HunkLine)
         /\ ReadLine(Append(hs, h), BodyLine(l)) = Append(hs, WithLines(h, Append(h.lines, l)))
  <1> DEFINE line == BodyLine(l)
             all == Append(hs, h)
             ls == Append(h.lines, l)
             n == Len(all)
             x == WithLines(h, ls)
  <1>1. /\ l.mark \in {" ", "-", "+"} /\ l.text \in Line /\ h.lines \in Seq(HunkLine)
        /\ l = [mark |-> l.mark, text |-> l.text] /\ l \in HunkLine
        /\ l.mark = "-" => l.text \notin DashLine
        /\ l.mark = "+" => l.text \notin PlusLine
    BY DEF HunkLine, Hunk, PlainLine
  <1>2. line.is = "body" /\ line.mark = l.mark /\ line.text = l.text
    BY DEF BodyLine
  <1>3. line \in Shown
    BY <1>1 DEF BodyLine, BodyShown, Shown
  <1>4. ls \in Seq(HunkLine)
    BY <1>1, AppendProperties
  <1>5. ~LooksLikeFileHeader(line)
    BY <1>1, <1>2 DEF LooksLikeFileHeader
  <1>6. /\ all \in Seq(Hunk) /\ all # <<>> /\ n = Len(hs) + 1 /\ all[n] = h /\ Len(hs) \in Nat
        /\ \A i \in 1..Len(hs) : all[i] = hs[i]
    BY AppendProperties, LenProperties
  <1>7. x \in Hunk
    BY <1>4, WithLinesTyped
  <1> HIDE DEF line, all, n
  <1>8. ReadLine(all, line) = [all EXCEPT ![n] = [all[n] EXCEPT !.lines = Append(all[n].lines, l)]]
    BY <1>1, <1>2, <1>5, <1>6 DEF ReadLine, n
  <1>9. [h EXCEPT !.lines = ls] = x
    <2> HIDE DEF ls
    <2> QED
      BY <1>4, HunkWithLines DEF WithLines
  <1>10. ReadLine(all, line) = [all EXCEPT ![n] = x]
    BY <1>6, <1>8, <1>9
  <1> HIDE DEF x
  <1>11. [all EXCEPT ![n] = x] = Append(hs, x)
    <2> DEFINE s == [all EXCEPT ![n] = x]
               t == Append(hs, x)
    <2>1. n \in 1..Len(all)
      BY <1>6 DEF n
    <2>2. /\ s \in Seq(Hunk) /\ Len(s) = Len(all)
          /\ \A i \in 1..Len(all) : s[i] = IF i = n THEN x ELSE all[i]
      BY <1>6, <1>7, <2>1, ExceptSeq
    <2>3. /\ t \in Seq(Hunk) /\ Len(t) = Len(hs) + 1 /\ t[Len(hs) + 1] = x
          /\ \A i \in 1..Len(hs) : t[i] = hs[i]
      BY <1>7, AppendProperties
    <2> HIDE DEF s, t
    <2>4. Len(s) = Len(t) /\ Len(s) = Len(hs) + 1
      BY <1>6, <2>2, <2>3 DEF n
    <2>5. \A i \in 1..Len(s) : s[i] = t[i]
      BY <1>6, <2>2, <2>3, <2>4
    <2> QED
      BY <2>2, <2>3, <2>4, <2>5, SeqEqual DEF s, t
  <1> QED
    BY <1>3, <1>4, <1>10, <1>11 DEF line, all, ls, x

(* Rendering one more body line.                                           *)
LEMMA BodiesAppend ==
  ASSUME NEW ls \in Seq(PlainLine), NEW l \in PlainLine
  PROVE  /\ Bodies(ls) \in Seq(Shown)
         /\ Bodies(Append(ls, l)) = Append(Bodies(ls), BodyLine(l))
  <1>1. \A k \in 1..Len(ls) : ls[k] \in PlainLine
    BY ElementOfSeq
  <1>2. \A p \in PlainLine : BodyLine(p) \in Shown
    BY DEF PlainLine, HunkLine, BodyLine, BodyShown, Shown
  <1>3. Len(ls) \in Nat /\ DOMAIN ls = 1..Len(ls)
    BY LenProperties
  <1>4. Bodies(ls) \in Seq(Shown) /\ Len(Bodies(ls)) = Len(ls)
        /\ \A k \in 1..Len(ls) : Bodies(ls)[k] = BodyLine(ls[k])
    BY <1>1, <1>2, <1>3 DEF Bodies
  <1> DEFINE more == Append(ls, l)
             s == Bodies(more)
             t == Append(Bodies(ls), BodyLine(l))
  <1>5. /\ more \in Seq(PlainLine) /\ Len(more) = Len(ls) + 1
        /\ DOMAIN more = 1..Len(ls) + 1
        /\ \A k \in 1..Len(ls) : more[k] = ls[k]
        /\ more[Len(ls) + 1] = l
    BY AppendProperties, LenProperties
  <1>6. \A k \in 1..Len(more) : more[k] \in PlainLine
    BY <1>5, ElementOfSeq
  <1> HIDE DEF more
  <1>7. s \in Seq(Shown) /\ Len(s) = Len(ls) + 1
        /\ \A k \in 1..Len(ls) + 1 : s[k] = BodyLine(more[k])
    BY <1>2, <1>3, <1>5, <1>6 DEF Bodies
  <1>8. /\ t \in Seq(Shown) /\ Len(t) = Len(ls) + 1 /\ t[Len(ls) + 1] = BodyLine(l)
        /\ \A k \in 1..Len(ls) : t[k] = Bodies(ls)[k]
    BY <1>2, <1>4, AppendProperties
  <1> HIDE DEF s, t
  <1>9. \A k \in 1..Len(s) : s[k] = t[k]
    BY <1>3, <1>4, <1>5, <1>7, <1>8, SMTT(60)
  <1>10. s = t
    BY <1>7, <1>8, <1>9, SeqEqual
  <1> QED
    BY <1>4, <1>10 DEF s, t, more

(* A header and the body lines after it are read as one hunk with those    *)
(* lines, if none of them looks like a file header.                        *)
LEMMA ParseBodies ==
  ASSUME NEW d \in Seq(Shown), NEW h \in Hunk, NEW ls \in Seq(PlainLine)
  PROVE  /\ Bodies(ls) \in Seq(Shown)
         /\ ParseUnifiedDiff(Append(d, HunkHeader(h)) \o Bodies(ls))
              = Append(ParseUnifiedDiff(d), WithLines(h, ls))
  <1> DEFINE e == Append(d, HunkHeader(h))
             p == ParseUnifiedDiff(d)
             T == {s \in Seq(PlainLine) :
                     /\ Bodies(s) \in Seq(Shown)
                     /\ ParseUnifiedDiff(e \o Bodies(s)) = Append(p, WithLines(h, s))}
  <1>1. HunkHeader(h) \in Shown
    BY EmptySeq, ReadHeader DEF Shown
  <1>2. e \in Seq(Shown) /\ p \in Seq(Hunk)
    BY <1>1, AppendProperties, ParseTyped
  <1>3. <<>> \in T
    <2>1. Bodies(<<>>) = <<>>
      BY DEF Bodies
    <2>2. e \o <<>> = e
      BY <1>2, ConcatEmptySeq
    <2>3. ParseUnifiedDiff(e) = ReadLine(p, HunkHeader(h))
      BY <1>1, ParseAppend
    <2> DEFINE none == <<>>
    <2>4. none \in Seq(HunkLine) /\ none \in Seq(PlainLine) /\ none \in Seq(Shown)
      BY EmptySeq
    <2>5. ReadLine(p, HunkHeader(h)) = Append(p, [h EXCEPT !.lines = none])
      BY <1>2, ReadHeader
    <2> HIDE DEF none
    <2>6. [h EXCEPT !.lines = none] = WithLines(h, none)
      BY <2>4, HunkWithLines DEF WithLines
    <2> HIDE DEF e, p
    <2>7. Bodies(none) = none /\ e \o none = e
      BY <2>1, <2>2 DEF none
    <2>8. none \in T
      BY <2>3, <2>4, <2>5, <2>6, <2>7
    <2> QED
      BY <2>8 DEF none
  <1>4. ASSUME NEW s \in Seq(PlainLine), NEW l \in PlainLine, s \in T
        PROVE  Append(s, l) \in T
    <2> DEFINE g == WithLines(h, s)
               body == Bodies(s)
               line == BodyLine(l)
    <2>1. Append(s, l) \in Seq(PlainLine) /\ s \in Seq(HunkLine)
      <3>1. PlainLine \subseteq HunkLine
        BY DEF PlainLine
      <3> QED
        BY <3>1, AppendProperties, SeqMonotonic
    <2>2. g \in Hunk /\ g.lines = s
      BY <2>1, WithLinesTyped
    <2>3. body \in Seq(Shown) /\ Bodies(Append(s, l)) = Append(body, line)
      BY BodiesAppend
    <2>4. line \in Shown
      BY <2>2, <1>2, ReadBody
    <2>5. Append(body, line) \in Seq(Shown)
      BY <2>3, <2>4, AppendProperties
    <2>6. ParseUnifiedDiff(e \o body) = Append(p, g)
      BY <1>4
    <2> HIDE DEF e, p, line, body
    <2>7. e \o Append(body, line) = Append(e \o body, line) /\ e \o body \in Seq(Shown)
      BY <1>2, <2>3, <2>4, SequenceAppend, ConcatProperties
    <2>8. ParseUnifiedDiff(Append(e \o body, line)) = ReadLine(Append(p, g), line)
      <3> DEFINE u == e \o body
      <3>1. u \in Seq(Shown) /\ ParseUnifiedDiff(u) = Append(p, g)
        BY <2>6, <2>7
      <3> HIDE DEF u
      <3>2. ParseUnifiedDiff(Append(u, line)) = ReadLine(ParseUnifiedDiff(u), line)
        BY <2>4, <3>1, ParseAppend
      <3> QED
        BY <3>1, <3>2 DEF u
    <2>9. ReadLine(Append(p, g), line) = Append(p, WithLines(g, Append(s, l)))
      <3> HIDE DEF g
      <3>1. ReadLine(Append(p, g), line) = Append(p, WithLines(g, Append(g.lines, l)))
        BY <1>2, <2>2, ReadBody DEF line
      <3> QED
        BY <2>2, <3>1
    <2>10. WithLines(g, Append(s, l)) = WithLines(h, Append(s, l))
      BY DEF WithLines
    <2> HIDE DEF g
    <2> QED
      BY <2>1, <2>3, <2>5, <2>7, <2>8, <2>9, <2>10
  <1> HIDE DEF T
  <1>5. Seq(PlainLine) \subseteq T
    BY <1>3, <1>4, SequenceInduction
  <1> QED
    BY <1>5 DEF T

(* A hunk whose lines are plain is read back as it was rendered.           *)
LEMMA ParseRendered ==
  ASSUME NEW d \in Seq(Shown), NEW h \in Hunk, h.lines \in Seq(PlainLine)
  PROVE  /\ Rendered(h) \in Seq(Shown)
         /\ d \o Rendered(h) \in Seq(Shown)
         /\ ParseUnifiedDiff(d \o Rendered(h)) = Append(ParseUnifiedDiff(d), h)
  <1> DEFINE header == HunkHeader(h)
             body == Bodies(h.lines)
  <1>1. header \in Shown
    BY EmptySeq, ReadHeader DEF Shown
  <1>2. body \in Seq(Shown)
        /\ ParseUnifiedDiff(Append(d, header) \o body) = Append(ParseUnifiedDiff(d), WithLines(h, h.lines))
    BY ParseBodies
  <1>3. Rendered(h) = <<header>> \o body
    BY DEF Rendered, Bodies
  <1> HIDE DEF header, body
  <1>4. <<header>> \in Seq(Shown)
    BY <1>1
  <1>5. <<header>> \o body \in Seq(Shown) /\ d \o (<<header>> \o body) \in Seq(Shown)
    <2>1. <<header>> \o body \in Seq(Shown)
      BY <1>2, <1>4, ConcatProperties
    <2> QED
      BY <2>1, ConcatProperties
  <1>6. d \o (<<header>> \o body) = (d \o <<header>>) \o body
    BY <1>2, <1>4, ConcatAssociative
  <1>7. d \o <<header>> = Append(d, header)
    BY <1>1, AppendIsConcat
  <1> QED
    BY <1>2, <1>3, <1>5, <1>6, <1>7, WithItsLines

-----------------------------------------------------------------------------
(* Joining sequences: FlattenSeq of the community modules.                 *)
LEMMA FlattenTable ==
  ASSUME NEW ss, Len(ss) \in Nat, Len(ss) # 0
  PROVE  \E g : /\ FlattenSeq(ss) = g[Len(ss)]
                /\ g[1] = ss[1]
                /\ \A k \in 2..Len(ss) : g[k] = g[k - 1] \o ss[k]
  <1> DEFINE Body(g, k) == IF k = 1 THEN ss[k] ELSE g[k - 1] \o ss[k]
             T == {n \in Nat : \E g : g = [k \in 1..n |-> Body(g, k)]}
  <1>1. 0 \in T
    <2> DEFINE g == [k \in 1..0 |-> <<>>]
    <2>1. g = [k \in 1..0 |-> Body(g, k)]
      OBVIOUS
    <2> QED
      BY <2>1
  <1>2. ASSUME NEW n \in Nat, n \in T
        PROVE  n + 1 \in T
    <2>1. PICK g : g = [k \in 1..n |-> Body(g, k)]
      BY <1>2
    <2> DEFINE h == [k \in 1..n + 1 |-> IF k \in 1..n THEN g[k] ELSE Body(g, k)]
    <2>2. \A k \in 1..n + 1 : k # 1 => k - 1 \in 1..n /\ h[k - 1] = g[k - 1]
      OBVIOUS
    <2>3. \A k \in 1..n : g[k] = Body(g, k)
      BY <2>1
    <2>4. \A k \in 1..n + 1 : h[k] = Body(h, k)
      BY <2>2, <2>3
    <2>5. h = [k \in 1..n + 1 |-> h[k]]
      OBVIOUS
    <2>6. h = [k \in 1..n + 1 |-> Body(h, k)]
      BY <2>4, <2>5
    <2> HIDE DEF h
    <2>7. \E f : f = [k \in 1..n + 1 |-> Body(f, k)]
      BY <2>6
    <2>8. n + 1 \in Nat
      OBVIOUS
    <2> HIDE DEF Body
    <2> QED
      BY <2>7, <2>8
  <1>3. Len(ss) \in T
    <2> HIDE DEF T
    <2>1. Nat \subseteq T
      BY <1>1, <1>2, Induction
    <2> QED
      BY <2>1
  <1> DEFINE p == CHOOSE g : g = [k \in 1..Len(ss) |-> Body(g, k)]
  <1>4. p = [k \in 1..Len(ss) |-> Body(p, k)]
    BY <1>3
  <1>5. FlattenSeq(ss) = p[Len(ss)]
    BY DEF FlattenSeq
  <1> HIDE DEF p
  <1>6. \A k \in 1..Len(ss) : p[k] = Body(p, k)
    BY <1>4
  <1>7. 1 \in 1..Len(ss) /\ \A k \in 2..Len(ss) : k \in 1..Len(ss) /\ k # 1
    OBVIOUS
  <1> QED
    BY <1>5, <1>6, <1>7

(* One more sequence is flattened at the end of the others.                *)
LEMMA FlattenAppend ==
  ASSUME NEW A, NEW ss \in Seq(Seq(A)), NEW s \in Seq(A)
  PROVE  /\ FlattenSeq(ss) \in Seq(A)
         /\ FlattenSeq(Append(ss, s)) = FlattenSeq(ss) \o s
  <1> DEFINE B == Seq(A)
             T == {tt \in Seq(B) : /\ FlattenSeq(tt) \in B
                                   /\ \A t \in B : FlattenSeq(Append(tt, t)) = FlattenSeq(tt) \o t}
  <1>0. ASSUME NEW tt \in Seq(B), NEW t \in B, FlattenSeq(tt) \in B
        PROVE  FlattenSeq(Append(tt, t)) = FlattenSeq(tt) \o t
    <2> DEFINE more == Append(tt, t)
    <2>1. /\ more \in Seq(B) /\ Len(more) = Len(tt) + 1 /\ Len(tt) \in Nat
          /\ \A k \in 1..Len(tt) : more[k] = tt[k]
          /\ more[Len(tt) + 1] = t
      <3> HIDE DEF B
      <3> QED
        BY <1>0, AppendProperties, LenProperties
    <2> HIDE DEF more
    <2>2. PICK f : /\ FlattenSeq(more) = f[Len(more)]
                   /\ f[1] = more[1]
                   /\ \A k \in 2..Len(more) : f[k] = f[k - 1] \o more[k]
      <3>1. Len(more) \in Nat /\ Len(more) # 0
        BY <2>1
      <3> QED
        BY <3>1, FlattenTable
    <2>3. CASE tt = <<>>
      <3>1. Len(tt) = 0
        BY <2>3, EmptySeq
      <3>2. FlattenSeq(more) = t
        BY <2>1, <2>2, <3>1
      <3>3. FlattenSeq(tt) = <<>>
        BY <2>3, <3>1 DEF FlattenSeq
      <3>4. <<>> \o t = t
        BY ConcatEmptySeq
      <3> QED
        BY <3>2, <3>3, <3>4 DEF more
    <2>4. CASE tt # <<>>
      <3>1. Len(tt) # 0
        <4> HIDE DEF B
        <4> QED
          BY <1>0, <2>4, EmptySeq
      <3>2. PICK g : /\ FlattenSeq(tt) = g[Len(tt)]
                     /\ g[1] = tt[1]
                     /\ \A k \in 2..Len(tt) : g[k] = g[k - 1] \o tt[k]
        BY <2>1, <3>1, FlattenTable
      <3> DEFINE U == {n \in Nat : n + 1 <= Len(tt) => f[n + 1] = g[n + 1]}
      <3>3. 0 \in U
        <4>1. 1 \in 1..Len(tt)
          BY <2>1, <3>1
        <4> QED
          BY <2>1, <2>2, <3>2, <4>1
      <3>4. ASSUME NEW n \in Nat, n \in U
            PROVE  n + 1 \in U
        <4> SUFFICES ASSUME (n + 1) + 1 <= Len(tt)
                     PROVE  f[(n + 1) + 1] = g[(n + 1) + 1]
          OBVIOUS
        <4> DEFINE k == (n + 1) + 1
        <4>1. k \in 2..Len(tt) /\ k \in 2..Len(more) /\ k \in 1..Len(tt) /\ k - 1 = n + 1
          BY <2>1
        <4>2. f[n + 1] = g[n + 1]
          BY <3>4, <2>1
        <4> HIDE DEF k
        <4>3. f[k] = f[k - 1] \o more[k] /\ g[k] = g[k - 1] \o tt[k] /\ more[k] = tt[k]
          BY <2>1, <2>2, <3>2, <4>1
        <4>4. f[k] = g[k]
          BY <4>1, <4>2, <4>3
        <4> QED
          BY <4>4 DEF k
      <3> HIDE DEF U
      <3>5. Len(tt) - 1 \in Nat /\ (Len(tt) - 1) + 1 = Len(tt)
        BY <2>1, <3>1
      <3>6. Len(tt) - 1 \in U
        BY <3>3, <3>4, <3>5, Induction
      <3>7. f[Len(tt)] = g[Len(tt)]
        BY <3>5, <3>6 DEF U
      <3>8. Len(more) \in 2..Len(more) /\ Len(more) - 1 = Len(tt)
        BY <2>1, <3>1
      <3>9. f[Len(more)] = f[Len(tt)] \o t
        BY <2>1, <2>2, <3>8
      <3> QED
        BY <2>2, <3>2, <3>7, <3>9 DEF more
    <2> QED
      BY <2>3, <2>4
  <1>1. <<>> \in T
    <2>1. <<>> \in Seq(B) /\ <<>> \in B
      BY EmptySeq
    <2>2. FlattenSeq(<<>>) = <<>>
      BY DEF FlattenSeq
    <2> HIDE DEF B
    <2> QED
      BY <1>0, <2>1, <2>2
  <1>2. ASSUME NEW tt \in Seq(B), NEW t \in B, tt \in T
        PROVE  Append(tt, t) \in T
    <2> DEFINE more == Append(tt, t)
    <2>1. more \in Seq(B)
      BY AppendProperties
    <2>2. FlattenSeq(more) = FlattenSeq(tt) \o t /\ FlattenSeq(tt) \in B
      BY <1>2
    <2>3. FlattenSeq(more) \in B
      BY <2>2, ConcatProperties
    <2> HIDE DEF more, B
    <2>4. \A u \in B : FlattenSeq(Append(more, u)) = FlattenSeq(more) \o u
      BY <1>0, <2>1, <2>3
    <2>5. more \in T
      BY <2>1, <2>3, <2>4
    <2> QED
      BY <2>5 DEF more
  <1> HIDE DEF T
  <1>3. Seq(B) \subseteq T
    <2> HIDE DEF B
    <2> QED
      BY <1>1, <1>2, SequenceInduction
  <1>4. ss \in T
    BY <1>3
  <1> QED
    BY <1>4 DEF T

(* Everything a diff renders is a line of a diff.                          *)
Renders(hs) == [k \in DOMAIN hs |-> Rendered(hs[k])]

(* A rendered hunk is made of lines of a diff.                             *)
LEMMA RenderedTyped ==
  ASSUME NEW h \in Hunk
  PROVE  Rendered(h) \in Seq(Shown)
  <1> DEFINE header == HunkHeader(h)
             body == Bodies(h.lines)
  <1>1. header \in Shown
    BY EmptySeq, ReadHeader DEF Shown
  <1>2. h.lines \in Seq(HunkLine)
    BY DEF Hunk
  <1>3. \A k \in 1..Len(h.lines) : BodyLine(h.lines[k]) \in Shown
    <2>1. \A l \in HunkLine : BodyLine(l) \in Shown
      BY DEF HunkLine, BodyLine, BodyShown, Shown
    <2> QED
      BY <1>2, <2>1, ElementOfSeq
  <1>4. body \in Seq(Shown)
    BY <1>2, <1>3, LenProperties DEF Bodies
  <1>5. Rendered(h) = <<header>> \o body
    BY DEF Rendered, Bodies
  <1> HIDE DEF header, body
  <1>6. <<header>> \in Seq(Shown)
    BY <1>1
  <1>7. <<header>> \o body \in Seq(Shown)
    BY <1>4, <1>6, ConcatProperties
  <1> QED
    BY <1>5, <1>7

(* Rendering one more hunk.                                                *)
LEMMA RendersAppend ==
  ASSUME NEW hs \in Seq(Hunk), NEW h \in Hunk
  PROVE  /\ Renders(hs) \in Seq(Seq(Shown))
         /\ Renders(Append(hs, h)) = Append(Renders(hs), Rendered(h))
  <1> DEFINE B == Seq(Shown)
             more == Append(hs, h)
             s == Renders(more)
             t == Append(Renders(hs), Rendered(h))
  <1>1. \A k \in 1..Len(hs) : Rendered(hs[k]) \in B
    BY RenderedTyped, ElementOfSeq
  <1>2. Rendered(h) \in B
    BY RenderedTyped
  <1>3. Len(hs) \in Nat /\ DOMAIN hs = 1..Len(hs)
    BY LenProperties
  <1> HIDE DEF B
  <1>4. Renders(hs) \in Seq(B) /\ Len(Renders(hs)) = Len(hs)
        /\ \A k \in 1..Len(hs) : Renders(hs)[k] = Rendered(hs[k])
    BY <1>1, <1>3 DEF Renders
  <1>5. /\ Len(more) = Len(hs) + 1
        /\ DOMAIN more = 1..Len(hs) + 1
        /\ \A k \in 1..Len(hs) : more[k] = hs[k]
        /\ more[Len(hs) + 1] = h
    BY AppendProperties, LenProperties
  <1> HIDE DEF more
  <1>6. \A k \in 1..Len(hs) + 1 : Rendered(more[k]) \in B
    BY <1>1, <1>2, <1>3, <1>5
  <1>7. s \in Seq(B) /\ Len(s) = Len(hs) + 1
        /\ \A k \in 1..Len(hs) + 1 : s[k] = Rendered(more[k])
    BY <1>3, <1>5, <1>6 DEF Renders
  <1>8. /\ t \in Seq(B) /\ Len(t) = Len(hs) + 1 /\ t[Len(hs) + 1] = Rendered(h)
        /\ \A k \in 1..Len(hs) : t[k] = Renders(hs)[k]
    BY <1>2, <1>4, AppendProperties
  <1> HIDE DEF s, t
  <1>9. \A k \in 1..Len(s) : s[k] = t[k]
    BY <1>3, <1>4, <1>5, <1>7, <1>8
  <1>10. s = t
    BY <1>7, <1>8, <1>9, SeqEqual
  <1> QED
    BY <1>4, <1>10 DEF s, t, more, B

Headers == <<FileHeader, FileHeader>>

(* The file headers of a diff are read as no hunk.                         *)
LEMMA HeadersSkipped ==
  /\ Headers \in Seq(Shown)
  /\ ParseUnifiedDiff(Headers) = <<>>
  <1> DEFINE one == Append(<<>>, FileHeader)
             none == <<>>
  <1>1. FileHeader \in Shown /\ FileHeader.is = "file"
    BY DEF Shown, FileHeader
  <1>2. none \in Seq(Shown) /\ none \in Seq(Hunk) /\ ParseUnifiedDiff(none) = none
    BY EmptySeq, ParseEmpty
  <1>3. ReadLine(none, FileHeader) = none
    BY <1>1 DEF ReadLine
  <1>4. Headers = Append(one, FileHeader)
    BY DEF Headers
  <1>5. one = Append(none, FileHeader)
    OBVIOUS
  <1> HIDE DEF none, one
  <1>6. one \in Seq(Shown) /\ Append(one, FileHeader) \in Seq(Shown)
    BY <1>1, <1>2, <1>5, AppendProperties
  <1>7. ParseUnifiedDiff(one) = none
    BY <1>1, <1>2, <1>3, <1>5, ParseAppend
  <1>8. ParseUnifiedDiff(Append(one, FileHeader)) = none
    BY <1>1, <1>3, <1>6, <1>7, ParseAppend
  <1> QED
    BY <1>4, <1>6, <1>8 DEF none

(* A rendered diff is made of lines of a diff.                             *)
LEMMA RendersTyped ==
  ASSUME NEW hs \in Seq(Hunk)
  PROVE  Headers \o FlattenSeq(Renders(hs)) \in Seq(Shown)
  <1>1. Renders(hs) \in Seq(Seq(Shown))
    <2> DEFINE B == Seq(Shown)
    <2>1. \A k \in 1..Len(hs) : Rendered(hs[k]) \in B
      BY RenderedTyped, ElementOfSeq
    <2> HIDE DEF B
    <2>2. Renders(hs) \in Seq(B)
      BY <2>1, LenProperties DEF Renders
    <2> QED
      BY <2>2 DEF B
  <1>2. FlattenSeq(Renders(hs)) \in Seq(Shown)
    <2>1. <<>> \in Seq(Shown)
      BY EmptySeq
    <2> QED
      BY <1>1, <2>1, FlattenAppend
  <1> QED
    BY <1>2, HeadersSkipped, ConcatProperties

(* Hunks whose lines are all plain are read back as they were rendered.    *)
LEMMA ParseRenders ==
  ASSUME NEW hs \in Seq(Hunk), \A k \in 1..Len(hs) : hs[k].lines \in Seq(PlainLine)
  PROVE  ParseUnifiedDiff(Headers \o FlattenSeq(Renders(hs))) = hs
  <1> DEFINE P == {h \in Hunk : h.lines \in Seq(PlainLine)}
             T == {gs \in Seq(P) : ParseUnifiedDiff(Headers \o FlattenSeq(Renders(gs))) = gs}
  <1>1. <<>> \in T
    <2> DEFINE none == <<>>
    <2>1. Renders(none) = none /\ FlattenSeq(none) = none
      BY DEF Renders, FlattenSeq
    <2>2. none \in Seq(P) /\ none \in Seq(Shown)
      BY EmptySeq
    <2>3. Headers \o none = Headers
      BY HeadersSkipped, ConcatEmptySeq
    <2>4. ParseUnifiedDiff(Headers) = none
      BY HeadersSkipped
    <2> HIDE DEF none, P
    <2>5. none \in T
      BY <2>1, <2>2, <2>3, <2>4
    <2> QED
      BY <2>5 DEF none
  <1>2. ASSUME NEW gs \in Seq(P), NEW h \in P, gs \in T
        PROVE  Append(gs, h) \in T
    <2>1. Append(gs, h) \in Seq(P)
      <3> HIDE DEF P
      <3> QED
        BY AppendProperties
    <2>2. gs \in Seq(Hunk) /\ h \in Hunk /\ h.lines \in Seq(PlainLine)
      <3>1. P \subseteq Hunk
        OBVIOUS
      <3> QED
        BY <3>1, SeqMonotonic
    <2> DEFINE s == FlattenSeq(Renders(gs))
               r == Rendered(h)
               d == Headers \o s
    <2>3. Renders(gs) \in Seq(Seq(Shown)) /\ Renders(Append(gs, h)) = Append(Renders(gs), r)
      BY <2>2, RendersAppend
    <2>4. r \in Seq(Shown)
      BY <2>2, RenderedTyped
    <2>5. s \in Seq(Shown) /\ FlattenSeq(Append(Renders(gs), r)) = s \o r
      <3> HIDE DEF r
      <3> QED
        BY <2>3, <2>4, FlattenAppend
    <2>6. d \in Seq(Shown)
      BY <2>2, RendersTyped
    <2>7. ParseUnifiedDiff(d) = gs
      BY <1>2
    <2> HIDE DEF s
    <2>8. (Headers \o s) \o r = Headers \o (s \o r)
      <3>1. Headers \in Seq(Shown)
        BY HeadersSkipped
      <3> HIDE DEF r
      <3> QED
        BY <2>4, <2>5, <3>1, ConcatAssociative
    <2> HIDE DEF d
    <2>9. ParseUnifiedDiff(d \o r) = Append(gs, h)
      BY <2>2, <2>6, <2>7, ParseRendered
    <2> HIDE DEF r
    <2>10. ParseUnifiedDiff(Headers \o FlattenSeq(Renders(Append(gs, h)))) = Append(gs, h)
      BY <2>3, <2>5, <2>8, <2>9 DEF d
    <2> HIDE DEF P
    <2> QED
      BY <2>1, <2>10
  <1>3. hs \in Seq(P)
    <2>1. \A k \in 1..Len(hs) : hs[k] \in P
      BY ElementOfSeq
    <2> HIDE DEF P
    <2> QED
      BY <2>1, LenProperties
  <1> HIDE DEF T, P
  <1>4. Seq(P) \subseteq T
    BY <1>1, <1>2, SequenceInduction
  <1> QED
    BY <1>3, <1>4 DEF T

-----------------------------------------------------------------------------
(* The members of a set of numbers up to n, in their order.                *)
Orders(o, n, S) ==
  /\ o \in Seq(Nat)
  /\ \A k \in 1..Len(o) : o[k] \in S /\ o[k] \in 1..n
  /\ \A k \in 1..Len(o), l \in 1..Len(o) : l = k + 1 =>
       o[k] < o[l] /\ \A s \in S : ~(o[k] < s /\ s < o[l])
  /\ \A s \in S : s \in 1..n => Len(o) > 0 /\ o[1] <= s /\ s <= o[Len(o)]

(* The positions of a set, picked in order, go up, skip none and reach     *)
(* from its least to its greatest.                                         *)
LEMMA OrderedPicks ==
  ASSUME NEW n \in Nat, NEW S \in SUBSET Nat
  PROVE  Orders(Picked([i \in 1..n |-> i], S), n, S)
  <1> DEFINE O(m) == Picked([i \in 1..m |-> i], S)
             T == {m \in Nat : Orders(O(m), m, S)}
  <1>1. 0 \in T
    <2> DEFINE none == <<>>
    <2>1. [i \in 1..0 |-> i] = none
      OBVIOUS
    <2>2. Picked(none, S) = none
      BY PickedEmpty
    <2>3. none \in Seq(Nat) /\ Len(none) = 0
      BY EmptySeq
    <2> HIDE DEF none
    <2>4. Orders(none, 0, S)
      BY <2>3 DEF Orders
    <2> QED
      BY <2>1, <2>2, <2>4
  <1>2. ASSUME NEW m \in Nat, m \in T
        PROVE  m + 1 \in T
    <2> DEFINE s == [i \in 1..m |-> i]
               o == O(m)
               p == O(m + 1)
    <2>1. s \in Seq(Nat) /\ Len(s) = m
      OBVIOUS
    <2>2. [i \in 1..m + 1 |-> i] = Append(s, m + 1)
      OBVIOUS
    <2> HIDE DEF s
    <2>3. /\ m + 1 \in S => Picked(Append(s, m + 1), S) = Append(Picked(s, S), m + 1)
          /\ m + 1 \notin S => Picked(Append(s, m + 1), S) = Picked(s, S)
      BY <2>1, PickedAppend
    <2>4. /\ m + 1 \in S => p = Append(o, m + 1)
          /\ m + 1 \notin S => p = o
      BY <2>2, <2>3 DEF s
    <2>5. Orders(o, m, S)
      BY <1>2
    <2> HIDE DEF o, p
    <2>6. Len(o) \in Nat /\ o \in Seq(Nat)
      BY <2>5, LenProperties DEF Orders
    <2>7. CASE m + 1 \notin S
      <3>1. \A x \in S : x \in 1..m + 1 => x \in 1..m
        BY <2>7
      <3>2. \A k \in 1..Len(o) : o[k] \in 1..m + 1
        BY <2>5 DEF Orders
      <3>3. Orders(o, m + 1, S)
        BY <2>5, <3>1, <3>2 DEF Orders
      <3> QED
        BY <2>4, <2>7, <3>3 DEF p
    <2>8. CASE m + 1 \in S
      <3>1. /\ p \in Seq(Nat) /\ Len(p) = Len(o) + 1
            /\ \A k \in 1..Len(o) : p[k] = o[k]
            /\ p[Len(o) + 1] = m + 1
        BY <2>4, <2>6, <2>8, AppendProperties
      <3>2. \A k \in 1..Len(o) : p[k] = o[k] /\ o[k] \in S /\ o[k] \in 1..m
        BY <2>5, <3>1 DEF Orders
      <3>3. \A k \in 1..Len(p) : p[k] \in S /\ p[k] \in 1..m + 1
        <4> SUFFICES ASSUME NEW k \in 1..Len(p)
                     PROVE  p[k] \in S /\ p[k] \in 1..m + 1
          OBVIOUS
        <4>1. CASE k \in 1..Len(o)
          <5>1. p[k] \in S /\ p[k] \in 1..m
            BY <3>2, <4>1
          <5> QED
            BY <5>1
        <4>2. CASE k = Len(o) + 1
          BY <2>8, <3>1, <4>2
        <4> QED
          BY <2>6, <3>1, <4>1, <4>2
      <3>4. ASSUME NEW x \in S, x \in 1..m + 1
            PROVE  Len(p) > 0 /\ p[1] <= x /\ x <= p[Len(p)]
        <4>1. Len(p) > 0 /\ x <= p[Len(p)]
          BY <2>6, <3>1, <3>4
        <4>2. CASE x \in 1..m
          <5>1. Len(o) > 0 /\ o[1] <= x
            BY <2>5, <4>2 DEF Orders
          <5>2. p[1] = o[1]
            BY <2>6, <3>1, <5>1
          <5> QED
            BY <4>1, <5>1, <5>2
        <4>3. CASE x = m + 1
          <5>1. 1 \in 1..Len(p)
            BY <2>6, <3>1
          <5>2. p[1] \in 1..m + 1
            BY <3>3, <5>1
          <5> QED
            BY <4>1, <4>3, <5>2
        <4> QED
          BY <3>4, <4>2, <4>3
      <3>5. ASSUME NEW k \in 1..Len(p), NEW l \in 1..Len(p), l = k + 1
            PROVE  p[k] < p[l] /\ \A x \in S : ~(p[k] < x /\ x < p[l])
        <4>1. k \in 1..Len(o)
          BY <2>6, <3>1, <3>5
        <4>2. CASE l \in 1..Len(o)
          <5>1. o[k] < o[l] /\ \A x \in S : ~(o[k] < x /\ x < o[l])
            BY <2>5, <3>5, <4>1, <4>2 DEF Orders
          <5> QED
            BY <3>1, <4>1, <4>2, <5>1
        <4>3. CASE l = Len(o) + 1
          <5>1. k = Len(o) /\ p[k] = o[Len(o)] /\ p[l] = m + 1 /\ o[Len(o)] \in 1..m
            BY <2>6, <3>1, <3>2, <3>5, <4>1, <4>3
          <5>2. ASSUME NEW x \in S, x < m + 1
                PROVE  ~(o[Len(o)] < x)
            <6>1. CASE x \in 1..m
              <7>1. x <= o[Len(o)]
                BY <2>5, <6>1 DEF Orders
              <7> QED
                BY <5>1, <7>1
            <6>2. CASE x = 0
              BY <5>1, <6>2
            <6> QED
              BY <5>2, <6>1, <6>2
          <5> QED
            BY <5>1, <5>2
        <4> QED
          BY <2>6, <3>1, <4>2, <4>3
      <3>6. Orders(p, m + 1, S)
        BY <3>1, <3>3, <3>4, <3>5 DEF Orders
      <3> QED
        BY <3>6 DEF p
    <2> QED
      BY <2>7, <2>8
  <1> HIDE DEF T
  <1>3. n \in T
    BY <1>1, <1>2, Induction
  <1> QED
    BY <1>3 DEF T

-----------------------------------------------------------------------------
(* Where hunks lie: each around the changes it groups, every change in one, *)
(* and two of them never overlap.                                          *)
NoChange(ops, i, j) == \A x \in Changed(ops) : ~(i < x /\ x < j)

(* The changed positions of a script.                                      *)
LEMMA ChangedIs ==
  ASSUME NEW ops \in Seq(Operation)
  PROVE  /\ Changed(ops) \subseteq 1..Len(ops) /\ Changed(ops) \subseteq Nat
         /\ \A i \in 1..Len(ops) : i \in Changed(ops) <=> ops[i].kind # "equal"
         /\ Len(ops) \in Nat
  BY LenProperties DEF Changed

(* The last change of a hunk is before the next hunk's first one, and the  *)
(* change after it begins or follows another hunk.                         *)
LEMMA LastChangeIs ==
  ASSUME NEW ops \in Seq(Operation), NEW width \in Nat, NEW i \in Starts(ops, width)
  PROVE  LET last == LastChange(ops, width, i)
         IN /\ last \in Changed(ops) /\ i <= last
            /\ \A s \in Starts(ops, width) : s > i => last < s
            /\ \A j \in Changed(ops) : j > last => \E s \in Starts(ops, width) : s > i /\ s <= j
  <1> DEFINE S == Starts(ops, width)
             D == Changed(ops)
             L == {j \in D : \A s \in S : s > i => j < s}
             last == Max(L)
  <1>1. D \subseteq Nat /\ S \subseteq D /\ i \in S /\ \A j \in D : j <= Len(ops)
    BY ChangedIs DEF Starts
  <1>2. Len(ops) \in Nat
    BY LenProperties
  <1>3. LastChange(ops, width, i) = last
    BY DEF LastChange
  <1> HIDE DEF S, D
  <1>4. L \subseteq Nat /\ L # {} /\ \A y \in L : y <= Len(ops)
    <2>1. i \in L
      BY <1>1
    <2> QED
      BY <1>1, <2>1
  <1>5. last \in L /\ \A y \in L : last >= y
    <2> HIDE DEF L
    <2> QED
      BY <1>2, <1>4, BoundedMax
  <1>6. i \in L
    BY <1>1
  <1> HIDE DEF last
  <1>7. last \in D /\ last \in Nat /\ i <= last /\ \A s \in S : s > i => last < s
    BY <1>1, <1>5, <1>6
  <1>8. ASSUME NEW j \in D, j > last
        PROVE  \E s \in S : s > i /\ s <= j
    <2>1. j \notin L
      BY <1>1, <1>5, <1>7, <1>8
    <2>2. PICK s \in S : s > i /\ ~(j < s)
      BY <2>1
    <2>3. s \in Nat /\ j \in Nat
      BY <1>1
    <2> QED
      BY <2>2, <2>3
  <1> QED
    BY <1>3, <1>7, <1>8 DEF S, D

(* The first change begins a hunk.                                         *)
LEMMA FirstStart ==
  ASSUME NEW ops \in Seq(Operation), NEW width \in Nat, NEW j \in Changed(ops)
  PROVE  \E s \in Starts(ops, width) : s <= j
  <1> DEFINE D == Changed(ops)
             T == {n \in Nat : \A x \in D : x <= n => \E s \in Starts(ops, width) : s <= x}
  <1>1. D \subseteq Nat /\ \A x \in D : x > 0
    BY ChangedIs
  <1>2. 0 \in T
    BY <1>1
  <1>3. ASSUME NEW n \in Nat, n \in T
        PROVE  n + 1 \in T
    <2> SUFFICES ASSUME NEW x \in D, x <= n + 1
                 PROVE  \E s \in Starts(ops, width) : s <= x
      OBVIOUS
    <2>1. CASE x \in Starts(ops, width)
      BY <1>1, <2>1
    <2>2. CASE x \notin Starts(ops, width)
      <3>1. PICK y \in D : y < x
        BY <2>2 DEF Starts
      <3>2. y <= n /\ y \in Nat /\ x \in Nat
        BY <1>1, <3>1
      <3>3. PICK s \in Starts(ops, width) : s <= y
        BY <1>3, <3>2
      <3>4. s \in Nat
        BY <1>1 DEF Starts
      <3> QED
        BY <3>1, <3>2, <3>3, <3>4
    <2> QED
      BY <2>1, <2>2
  <1> HIDE DEF T
  <1>4. j \in T /\ j \in Nat
    BY <1>1, <1>2, <1>3, Induction
  <1> QED
    BY <1>4 DEF T

HunkOrder(ops, width) == Picked([i \in DOMAIN ops |-> i], Starts(ops, width))

(* The first changes of the hunks in their order; there is one if anything *)
(* is changed.                                                             *)
LEMMA HunkOrderIs ==
  ASSUME NEW ops \in Seq(Operation), NEW width \in Nat
  PROVE  /\ Orders(HunkOrder(ops, width), Len(ops), Starts(ops, width))
         /\ Changed(ops) # {} => Len(HunkOrder(ops, width)) > 0
         /\ HunkOrder(ops, width) \in Seq(Nat)
  <1>1. Starts(ops, width) \subseteq Changed(ops)
    BY DEF Starts
  <1>2. Starts(ops, width) \in SUBSET Nat /\ DOMAIN ops = 1..Len(ops) /\ Len(ops) \in Nat
    BY <1>1, ChangedIs, LenProperties
  <1> DEFINE S == Starts(ops, width)
             n == Len(ops)
  <1>3. HunkOrder(ops, width) = Picked([i \in 1..n |-> i], S)
    BY <1>2 DEF HunkOrder
  <1>4. Orders(HunkOrder(ops, width), n, S)
    <2> HIDE DEF S, n
    <2>1. S \in SUBSET Nat /\ n \in Nat
      BY <1>2 DEF S, n
    <2> QED
      BY <1>3, <2>1, OrderedPicks
  <1>5. ASSUME Changed(ops) # {}
        PROVE  Len(HunkOrder(ops, width)) > 0
    <2>1. PICK j \in Changed(ops) : TRUE
      BY <1>5
    <2>2. PICK s \in S : s <= j
      BY FirstStart
    <2>3. s \in 1..n
      BY <1>1, ChangedIs
    <2> QED
      BY <1>4, <2>3 DEF Orders
  <1> QED
    BY <1>4, <1>5 DEF Orders

(* How a hunk lies around its changes.                                     *)
LEMMA FromAndTo ==
  ASSUME NEW ops \in Seq(Operation), NEW width \in Nat, NEW i \in Starts(ops, width)
  PROVE  LET last == LastChange(ops, width, i)
             f == From(i, width)
             t == To(ops, width, i)
         IN /\ i \in Nat /\ last \in Nat /\ f \in Nat /\ t \in Nat
            /\ 1 <= f /\ f <= i /\ i <= last /\ last <= t /\ t <= Len(ops)
            /\ f = 1 \/ f = i - width
            /\ f >= i - width /\ t <= last + width
            /\ t = Len(ops) \/ t = last + width
  <1> DEFINE last == LastChange(ops, width, i)
             f == From(i, width)
             t == To(ops, width, i)
             n == Len(ops)
  <1>1. /\ last \in Changed(ops) /\ i <= last
    BY LastChangeIs
  <1>2. i \in 1..n /\ last \in 1..n /\ n \in Nat
    BY <1>1, ChangedIs DEF Starts
  <1> HIDE DEF last, n
  <1>3. f = IF 1 >= i - width THEN 1 ELSE i - width
    BY <1>2, MaxPair DEF From
  <1>4. t = IF n <= last + width THEN n ELSE last + width
    BY <1>2, MinPair DEF To, last, n
  <1> HIDE DEF f, t
  <1> QED
    BY <1>1, <1>2, <1>3, <1>4 DEF last, f, t, n

(* A side with an operation of its kind is not empty.                      *)
LEMMA SideShows ==
  ASSUME NEW ops \in Seq(Operation), NEW K
  PROVE  (\E i \in 1..Len(ops) : ops[i].kind \in K) => Side(ops, K) # <<>>
  <1> DEFINE T == {s \in Seq(Operation) :
                     (\E i \in 1..Len(s) : s[i].kind \in K) => Side(s, K) # <<>>}
  <1>1. <<>> \in T
    BY EmptySeq
  <1>2. ASSUME NEW s \in Seq(Operation), NEW op \in Operation, s \in T
        PROVE  Append(s, op) \in T
    <2> DEFINE more == Append(s, op)
               side == Side(s, K)
    <2>1. /\ more \in Seq(Operation) /\ Len(more) = Len(s) + 1 /\ Len(s) \in Nat
          /\ \A k \in 1..Len(s) : more[k] = s[k]
          /\ more[Len(s) + 1] = op
      BY AppendProperties, LenProperties
    <2>2. /\ op.kind \in K => Side(more, K) = Append(side, op.line)
          /\ op.kind \notin K => Side(more, K) = side
      BY SideAppend
    <2>3. side \in Seq(Line) /\ op.line \in Line
      BY SideTyped DEF Operation
    <2>4. Append(side, op.line) # <<>>
      BY <2>3, AppendProperties
    <2>5. (\E i \in 1..Len(s) : s[i].kind \in K) => side # <<>>
      BY <1>2
    <2> HIDE DEF more, side
    <2>6. (\E i \in 1..Len(more) : more[i].kind \in K) => Side(more, K) # <<>>
      <3> SUFFICES ASSUME NEW i \in 1..Len(more), more[i].kind \in K
                   PROVE  Side(more, K) # <<>>
        OBVIOUS
      <3>1. CASE op.kind \in K
        BY <2>2, <2>4, <3>1
      <3>2. CASE op.kind \notin K
        <4>1. i \in 1..Len(s) /\ s[i].kind \in K
          BY <2>1, <3>2
        <4> QED
          BY <2>2, <2>5, <3>2, <4>1
      <3> QED
        BY <3>1, <3>2
    <2> QED
      BY <2>1, <2>6 DEF more
  <1> HIDE DEF T
  <1>3. Seq(Operation) \subseteq T
    BY <1>1, <1>2, SequenceInduction
  <1> QED
    BY <1>3 DEF T

(* A stretch of a script from one operation to another.                    *)
LEMMA OpsBetween ==
  ASSUME NEW ops \in Seq(Operation), NEW f \in Nat, NEW t \in Nat, 1 <= f, t <= Len(ops)
  PROVE  /\ SubSeq(ops, f, t) \in Seq(Operation)
         /\ Len(SubSeq(ops, f, t)) = IF f <= t THEN t - f + 1 ELSE 0
         /\ \A i \in 1..t - f + 1 : SubSeq(ops, f, t)[i] = ops[f + i - 1]
  <1>1. \A i \in f..t : ops[i] \in Operation
    <2>1. \A i \in f..t : i \in 1..Len(ops)
      BY LenProperties
    <2> QED
      BY <2>1, ElementOfSeq
  <1> QED
    BY <1>1, SubSeqProperties

(* With a line of context, and an old text that is not empty, every hunk   *)
(* shows or removes a line of it.                                          *)
LEMMA HunkShowsOldLine ==
  ASSUME NEW ops \in Seq(Operation), NEW width \in Nat, width > 0, OldSide(ops) # <<>>,
         NEW i \in Starts(ops, width)
  PROVE  OldSide(SubSeq(ops, From(i, width), To(ops, width, i))) # <<>>
  <1> DEFINE last == LastChange(ops, width, i)
             f == From(i, width)
             t == To(ops, width, i)
             n == Len(ops)
             body == SubSeq(ops, f, t)
  <1>1. /\ i \in Nat /\ last \in Nat /\ f \in Nat /\ t \in Nat
        /\ 1 <= f /\ f <= i /\ i <= last /\ last <= t /\ t <= n
        /\ f = 1 \/ f = i - width
        /\ f >= i - width /\ t <= last + width
        /\ t = n \/ t = last + width
        /\ n \in Nat
    BY FromAndTo, LenProperties
  <1>2. /\ body \in Seq(Operation) /\ Len(body) = IF f <= t THEN t - f + 1 ELSE 0
        /\ \A k \in 1..t - f + 1 : body[k] = ops[f + k - 1]
    BY <1>1, OpsBetween, SMTT(60)
  <1>3. last \in Changed(ops) /\ \A j \in Changed(ops) : j > last => \E s \in Starts(ops, width) : s > i /\ s <= j
    BY LastChangeIs
  <1>4. i \in Changed(ops) /\ \A j \in Changed(ops) : j < i => i - j > 2 * width
    BY DEF Starts, Apart
  <1>5. /\ Changed(ops) \subseteq Nat
        /\ \A j \in 1..Len(ops) : j \in Changed(ops) <=> ops[j].kind # "equal"
    BY ChangedIs
  <1> HIDE DEF last, f, t, body, n
  <1>6. ASSUME NEW j \in f..t, ops[j].kind = "equal"
        PROVE  OldSide(body) # <<>>
    <2>1. j - f + 1 \in 1..t - f + 1 /\ f + (j - f + 1) - 1 = j /\ Len(body) = t - f + 1
      BY <1>1, <1>2
    <2>2. body[j - f + 1].kind \in Old
      BY <1>2, <1>6, <2>1 DEF Old
    <2>3. Side(body, Old) # <<>>
      BY <1>2, <2>1, <2>2, SideShows
    <2> QED
      BY <2>3 DEF OldSide, Old
  <1>7. CASE i > 1
    <2>1. i - 1 \in f..t /\ i - 1 \in 1..n
      BY <1>1, <1>7
    <2>2. i - 1 \notin Changed(ops)
      <3>1. i - (i - 1) = 1
        BY <1>1
      <3> QED
        BY <1>1, <1>4, <3>1
    <2>3. ops[i - 1].kind = "equal"
      BY <1>5, <2>1, <2>2 DEF n
    <2> QED
      BY <1>6, <2>1, <2>3 DEF body, f, t
  <1>8. CASE last < n
    <2>1. last + 1 \in f..t /\ last + 1 \in 1..n
      BY <1>1, <1>8
    <2>2. last + 1 \notin Changed(ops)
      <3> SUFFICES ASSUME last + 1 \in Changed(ops)
                   PROVE  FALSE
        OBVIOUS
      <3>1. PICK s \in Starts(ops, width) : s > i /\ s <= last + 1
        BY <1>1, <1>3
      <3>2. s > last /\ s \in Changed(ops)
        BY <3>1, LastChangeIs DEF last, Starts
      <3>3. s \in Nat /\ s = last + 1
        BY <1>1, <1>5, <3>1, <3>2
      <3>4. s - last > 2 * width
        BY <1>1, <1>3, <3>2, <3>3 DEF Starts, Apart
      <3> QED
        BY <1>1, <3>3, <3>4
    <2>3. ops[last + 1].kind = "equal"
      BY <1>5, <2>1, <2>2 DEF n
    <2> QED
      BY <1>6, <2>1, <2>3 DEF body, f, t
  <1>9. CASE i <= 1 /\ last >= n
    <2>1. f = 1 /\ t = n
      BY <1>1, <1>9
    <2>2. body = ops
      BY <2>1, SubSeqFull DEF body, n
    <2> QED
      BY <2>2 DEF body, f, t
  <1> QED
    BY <1>1, <1>7, <1>8, <1>9

(* The first hunk comes after no change, and the last before none.         *)
LEMMA OuterHunks ==
  ASSUME NEW ops \in Seq(Operation), NEW width \in Nat,
         NEW order, order = HunkOrder(ops, width), NEW k \in 1..Len(order)
  PROVE  /\ order[k] \in Starts(ops, width)
         /\ k = 1 => NoChange(ops, 0, From(order[k], width))
         /\ k = Len(order) => NoChange(ops, To(ops, width, order[k]), Len(ops) + 1)
  <1> DEFINE S == Starts(ops, width)
             n == Len(ops)
             i == order[k]
             f == From(i, width)
             t == To(ops, width, i)
             last == LastChange(ops, width, i)
  <1>1. Orders(order, n, S)
    BY HunkOrderIs
  <1>2. i \in S /\ \A s \in S : s \in 1..n => order[1] <= s /\ s <= order[Len(order)]
    BY <1>1 DEF Orders
  <1>3. /\ i \in Nat /\ last \in Nat /\ f \in Nat /\ t \in Nat
        /\ 1 <= f /\ f <= i /\ i <= last /\ last <= t /\ t <= n
        /\ t = n \/ t = last + width
    BY <1>2, FromAndTo
  <1>4. \A j \in Changed(ops) : j \in 1..n
    BY ChangedIs
  <1>5. S \subseteq Changed(ops)
    BY DEF Starts
  <1>6. ASSUME k = 1, NEW j \in Changed(ops), j < f
        PROVE  FALSE
    <2>1. PICK s \in S : s <= j
      BY FirstStart
    <2>2. s \in 1..n /\ j \in 1..n
      BY <1>4, <1>5
    <2>3. i <= s
      BY <1>2, <1>6, <2>2
    <2> HIDE DEF f, i
    <2> QED
      BY <1>3, <1>6, <2>1, <2>2, <2>3
  <1>7. ASSUME k = Len(order), NEW j \in Changed(ops), t < j
        PROVE  FALSE
    <2>1. j \in 1..n /\ n \in Nat
      BY <1>4, LenProperties
    <2>2. j > last
      <3> HIDE DEF t, last, i, n
      <3> QED
        BY <1>3, <1>7, <2>1
    <2>3. PICK s \in S : s > i /\ s <= j
      BY <1>2, <2>2, LastChangeIs
    <2>4. s \in 1..n
      BY <1>4, <1>5
    <2>5. s <= i
      BY <1>2, <1>7, <2>4
    <2> HIDE DEF i
    <2> QED
      BY <1>3, <2>3, <2>4, <2>5
  <1> QED
    BY <1>2, <1>6, <1>7 DEF NoChange

(* Hunks do not overlap, and there is no change between them.              *)
LEMMA NeighbouringHunks ==
  ASSUME NEW ops \in Seq(Operation), NEW width \in Nat,
         NEW order, order = HunkOrder(ops, width),
         NEW k \in 1..Len(order), NEW l \in 1..Len(order), l = k + 1
  PROVE  /\ To(ops, width, order[k]) < From(order[l], width)
         /\ NoChange(ops, To(ops, width, order[k]), From(order[l], width))
  <1> DEFINE S == Starts(ops, width)
             n == Len(ops)
             i == order[k]
             j == order[l]
             t == To(ops, width, i)
             last == LastChange(ops, width, i)
             f == From(j, width)
  <1>1. Orders(order, n, S)
    BY HunkOrderIs
  <1>2. i \in S /\ j \in S /\ i < j /\ \A s \in S : ~(i < s /\ s < j)
    BY <1>1 DEF Orders
  <1>3. /\ i \in Nat /\ last \in Nat /\ t \in Nat
        /\ i <= last /\ last <= t /\ t <= n
        /\ t <= last + width
        /\ t = n \/ t = last + width
    BY <1>2, FromAndTo
  <1>4. /\ j \in Nat /\ f \in Nat /\ 1 <= f /\ f <= j
        /\ f >= j - width
    BY <1>2, FromAndTo
  <1>5. last \in Changed(ops) /\ last < j
    BY <1>2, LastChangeIs
  <1>6. j - last > 2 * width
    BY <1>2, <1>5 DEF Starts, Apart
  <1>7. /\ \A x \in Changed(ops) : x \in 1..n
        /\ \A x \in Changed(ops) : x > last => \E s \in S : s > i /\ s <= x
        /\ S \subseteq Changed(ops) /\ n \in Nat
    BY <1>2, ChangedIs, LastChangeIs DEF Starts
  <1> HIDE DEF S, n, i, j, t, last, f
  <1>8. t < f
    BY <1>3, <1>4, <1>6
  <1>9. ASSUME NEW x \in Changed(ops), t < x, x < f
        PROVE  FALSE
    <2>1. x \in Nat /\ x <= n
      BY <1>7
    <2>2. x > last
      BY <1>3, <1>9, <2>1
    <2>3. PICK s \in S : s > i /\ s <= x
      BY <1>7, <2>2
    <2>4. s \in Nat
      BY <1>7
    <2>5. s < j
      BY <1>4, <1>9, <2>1, <2>3, <2>4
    <2> QED
      BY <1>2, <2>3, <2>5
  <1> QED
    BY <1>8, <1>9 DEF NoChange, i, j, t, f

-----------------------------------------------------------------------------
(* What a hunk carries: the two sides of the operations it stands for.     *)
PlainOperation == {op \in Operation : /\ op.kind = "delete" => op.line \notin DashLine
                                      /\ op.kind = "insert" => op.line \notin PlusLine}

(* The markers of the kinds of operations.                                 *)
LEMMA MarkerIs ==
  ASSUME NEW kind \in Kind
  PROVE  /\ Marker[kind] \in {" ", "-", "+"}
         /\ Marker[kind] \in OldMarks <=> kind \in Old
         /\ Marker[kind] \in NewMarks <=> kind \in New
         /\ Marker[kind] = "-" => kind = "delete"
         /\ Marker[kind] = "+" => kind = "insert"
  <1>1. Marker["equal"] = " "
    BY DEF Marker
  <1>2. Marker["delete"] = "-"
    BY DEF Marker
  <1>3. Marker["insert"] = "+"
    BY DEF Marker
  <1>4. kind = "equal" \/ kind = "delete" \/ kind = "insert"
    BY DEF Kind
  <1>5. CASE kind = "equal"
    <2>1. Marker[kind] = " "
      BY <1>1, <1>5
    <2> QED
      BY <1>5, <2>1 DEF OldMarks, NewMarks, Old, New
  <1>6. CASE kind = "delete"
    <2>1. Marker[kind] = "-"
      BY <1>2, <1>6
    <2> QED
      BY <1>6, <2>1 DEF OldMarks, NewMarks, Old, New
  <1>7. CASE kind = "insert"
    <2>1. Marker[kind] = "+"
      BY <1>3, <1>7
    <2> QED
      BY <1>7, <2>1 DEF OldMarks, NewMarks, Old, New
  <1> QED
    BY <1>4, <1>5, <1>6, <1>7

Marked(body) == [k \in DOMAIN body |-> [mark |-> Marker[body[k].kind], text |-> body[k].line]]

(* The marked lines of a stretch of a script carry its two sides.          *)
LEMMA MarkedCarries ==
  ASSUME NEW body \in Seq(Operation)
  PROVE  /\ Marked(body) \in Seq(HunkLine)
         /\ Carries(Marked(body), OldMarks) = Side(body, Old)
         /\ Carries(Marked(body), NewMarks) = Side(body, New)
         /\ body \in Seq(PlainOperation) => Marked(body) \in Seq(PlainLine)
  <1> DEFINE lines == Marked(body)
             n == Len(body)
  <1>1. n \in Nat /\ DOMAIN body = 1..n /\ \A k \in 1..n : body[k] \in Operation
    BY LenProperties, ElementOfSeq
  <1>2. \A k \in 1..n : body[k].kind \in Kind /\ body[k].line \in Line
    BY <1>1 DEF Operation
  <1> HIDE DEF n
  <1>3. /\ DOMAIN lines = 1..n
        /\ \A k \in 1..n : /\ lines[k] = [mark |-> Marker[body[k].kind], text |-> body[k].line]
                           /\ lines[k].mark = Marker[body[k].kind]
                           /\ lines[k].text = body[k].line
    BY <1>1 DEF Marked
  <1> HIDE DEF lines
  <1>12. ASSUME NEW k \in 1..n
         PROVE  /\ lines[k].mark \in {" ", "-", "+"}
                /\ lines[k].mark \in OldMarks <=> body[k].kind \in Old
                /\ lines[k].mark \in NewMarks <=> body[k].kind \in New
                /\ lines[k].mark = "-" => body[k].kind = "delete"
                /\ lines[k].mark = "+" => body[k].kind = "insert"
    <2> DEFINE kind == body[k].kind
    <2>1. kind \in Kind /\ lines[k].mark = Marker[kind]
      BY <1>2, <1>3
    <2> HIDE DEF kind
    <2>2. /\ Marker[kind] \in {" ", "-", "+"}
          /\ Marker[kind] \in OldMarks <=> kind \in Old
          /\ Marker[kind] \in NewMarks <=> kind \in New
          /\ Marker[kind] = "-" => kind = "delete"
          /\ Marker[kind] = "+" => kind = "insert"
      BY <2>1, MarkerIs
    <2> QED
      BY <2>1, <2>2, Zenon DEF kind
  <1>4. \A k \in 1..n : lines[k] \in HunkLine
    <2> SUFFICES ASSUME NEW k \in 1..n
                 PROVE  lines[k] \in HunkLine
      OBVIOUS
    <2> DEFINE mark == Marker[body[k].kind]
               line == body[k].line
    <2>1. lines[k] = [mark |-> mark, text |-> line] /\ mark = lines[k].mark /\ line \in Line
      BY <1>2, <1>3
    <2>2. mark \in {" ", "-", "+"}
      BY <1>12, <2>1
    <2>3. line \in Line
      BY <2>1
    <2> HIDE DEF mark, line
    <2>4. [mark |-> mark, text |-> line] \in HunkLine
      BY ONLY <2>2, <2>3 DEF HunkLine
    <2> QED
      BY <2>1, <2>4
  <1>5. lines = [k \in 1..n |-> lines[k]]
    BY <1>1 DEF Marked, lines
  <1>6. lines \in Seq(HunkLine)
    BY <1>1, <1>4, <1>5
  <1>7. [i \in DOMAIN lines |-> lines[i].text] = [i \in DOMAIN body |-> body[i].line]
    BY <1>1, <1>3
  <1>8. {i \in DOMAIN lines : lines[i].mark \in OldMarks} = {i \in DOMAIN body : body[i].kind \in Old}
    BY <1>1, <1>3, <1>12
  <1>9. {i \in DOMAIN lines : lines[i].mark \in NewMarks} = {i \in DOMAIN body : body[i].kind \in New}
    BY <1>1, <1>3, <1>12
  <1>10. Carries(lines, OldMarks) = Side(body, Old) /\ Carries(lines, NewMarks) = Side(body, New)
    BY <1>7, <1>8, <1>9 DEF Carries, Side
  <1>11. ASSUME body \in Seq(PlainOperation)
         PROVE  lines \in Seq(PlainLine)
    <2>1. \A k \in 1..n : body[k] \in PlainOperation
      BY <1>11, ElementOfSeq DEF n
    <2>2. \A k \in 1..n : /\ lines[k].mark = "-" => lines[k].text \notin DashLine
                          /\ lines[k].mark = "+" => lines[k].text \notin PlusLine
      <3> SUFFICES ASSUME NEW k \in 1..n
                   PROVE  /\ lines[k].mark = "-" => lines[k].text \notin DashLine
                          /\ lines[k].mark = "+" => lines[k].text \notin PlusLine
        OBVIOUS
      <3>1. /\ lines[k].mark = "-" => body[k].kind = "delete"
            /\ lines[k].mark = "+" => body[k].kind = "insert"
        BY <1>12
      <3>2. /\ body[k].kind = "delete" => body[k].line \notin DashLine
            /\ body[k].kind = "insert" => body[k].line \notin PlusLine
        BY <2>1 DEF PlainOperation
      <3>3. lines[k].text = body[k].line
        BY <1>3
      <3> QED
        BY <3>1, <3>2, <3>3
    <2>3. \A k \in 1..n : lines[k] \in PlainLine
      BY <1>4, <2>2 DEF PlainLine
    <2> QED
      BY <1>1, <1>5, <2>3
  <1> QED
    BY <1>6, <1>10, <1>11 DEF lines

(* The hunk over a stretch of a script: what it carries and where it       *)
(* starts.                                                                 *)
LEMMA HunkOverIs ==
  ASSUME NEW ops \in Seq(Operation), NEW f \in Nat, NEW t \in Nat, 1 <= f, f <= t, t <= Len(ops)
  PROVE  LET body == SubSeq(ops, f, t)
             hunk == HunkOver(ops, f, t)
         IN /\ hunk \in Hunk
            /\ Carries(hunk.lines, OldMarks) = OldSide(body)
            /\ Carries(hunk.lines, NewMarks) = NewSide(body)
            /\ OldSide(body) # <<>> =>
                 hunk.oldStart = Len(OldSide(SubSeq(ops, 1, f - 1))) + 1
            /\ ops \in Seq(PlainOperation) => hunk.lines \in Seq(PlainLine)
  <1> DEFINE body == SubSeq(ops, f, t)
             ahead == SubSeq(ops, 1, f - 1)
             hunk == HunkOver(ops, f, t)
             old == Len(OldSide(body))
             new == Len(NewSide(body))
             oldAhead == Len(OldSide(ahead))
             newAhead == Len(NewSide(ahead))
             lines == Marked(body)
  <1>1. body \in Seq(Operation)
    BY OpsBetween
  <1>2. ahead \in Seq(Operation)
    <2> DEFINE e == f - 1
    <2>1. e \in Nat /\ e <= Len(ops) /\ 1 \in Nat /\ 1 <= 1
      BY LenProperties
    <2> HIDE DEF e
    <2>2. SubSeq(ops, 1, e) \in Seq(Operation)
      BY <2>1, OpsBetween
    <2> QED
      BY <2>2 DEF e
  <1>3. old \in Nat /\ new \in Nat /\ oldAhead \in Nat /\ newAhead \in Nat
    BY <1>1, <1>2, SideTyped, LenProperties DEF OldSide, NewSide
  <1>4. /\ lines \in Seq(HunkLine)
        /\ Carries(lines, OldMarks) = OldSide(body)
        /\ Carries(lines, NewMarks) = NewSide(body)
        /\ body \in Seq(PlainOperation) => lines \in Seq(PlainLine)
    BY <1>1, MarkedCarries DEF OldSide, NewSide, Old, New
  <1>5. OldSide(body) # <<>> => old # 0
    <2>1. OldSide(body) \in Seq(Line)
      BY <1>1, SideTyped DEF OldSide
    <2> QED
      BY <2>1, EmptySeq
  <1>6. ops \in Seq(PlainOperation) => body \in Seq(PlainOperation)
    <2> SUFFICES ASSUME ops \in Seq(PlainOperation) PROVE body \in Seq(PlainOperation)
      OBVIOUS
    <2>1. \A i \in f..t : ops[i] \in PlainOperation
      <3>1. \A i \in f..t : i \in 1..Len(ops)
        BY LenProperties
      <3> QED
        BY <3>1, ElementOfSeq
    <2> QED
      BY <2>1, SubSeqProperties
  <1>7. hunk = [oldStart |-> FirstLine(oldAhead, old), oldLines |-> old,
                newStart |-> FirstLine(newAhead, new), newLines |-> new, lines |-> lines]
    BY DEF HunkOver, Marked
  <1> HIDE DEF hunk, old, new, oldAhead, newAhead, lines, body, ahead
  <1>8. FirstLine(oldAhead, old) \in Nat /\ FirstLine(newAhead, new) \in Nat
    BY <1>3 DEF FirstLine
  <1>9. hunk \in Hunk
    BY <1>3, <1>4, <1>7, <1>8 DEF Hunk
  <1>10. hunk.lines = lines /\ hunk.oldStart = FirstLine(oldAhead, old)
    BY <1>7
  <1>11. OldSide(body) # <<>> => hunk.oldStart = oldAhead + 1
    BY <1>5, <1>10 DEF FirstLine
  <1> QED
    BY <1>4, <1>6, <1>9, <1>10, <1>11 DEF hunk, body, ahead, oldAhead

-----------------------------------------------------------------------------
(* The two texts up to an operation of the script.                         *)
UpTo(ops, i, K) == Side(SubSeq(ops, 1, i), K)

(* The side of a script up to a position, split at one before it.          *)
LEMMA UpToSplits ==
  ASSUME NEW ops \in Seq(Operation), NEW i \in Nat, NEW j \in Nat, i <= j, j <= Len(ops), NEW K
  PROVE  UpTo(ops, j, K) = UpTo(ops, i, K) \o Side(SubSeq(ops, i + 1, j), K)
  <1> DEFINE n == Len(ops)
  <1>1. n \in Nat /\ 1 \in Nat
    BY LenProperties
  <1>2. SubSeq(ops, 1, i) \in Seq(Operation) /\ SubSeq(ops, 1, j) \in Seq(Operation)
    <2>1. i <= n
      BY <1>1
    <2> QED
      BY <1>1, <2>1, OpsBetween
  <1>3. SubSeq(ops, i + 1, j) \in Seq(Operation)
    <2> DEFINE m == i + 1
    <2>1. m \in Nat /\ 1 <= m
      OBVIOUS
    <2> HIDE DEF m
    <2>2. SubSeq(ops, m, j) \in Seq(Operation)
      BY <2>1, OpsBetween
    <2> QED
      BY <2>2 DEF m
  <1>4. SubSeq(ops, 1, i) \o SubSeq(ops, i + 1, j) = SubSeq(ops, 1, j)
    <2>1. 1 \in 1..Len(ops) + 1 /\ i \in 1 - 1..Len(ops) /\ j \in i..Len(ops)
      BY <1>1
    <2> QED
      BY <2>1, ConcatAdjacentSubSeq
  <1> DEFINE s == SubSeq(ops, 1, i)
             t == SubSeq(ops, i + 1, j)
  <1> HIDE DEF s, t
  <1>5. Side(s \o t, K) = Side(s, K) \o Side(t, K)
    <2>1. s \in Seq(Operation) /\ t \in Seq(Operation)
      BY <1>2, <1>3 DEF s, t
    <2> QED
      BY <2>1, SideConcat
  <1> QED
    BY <1>4, <1>5 DEF UpTo, s, t

(* The side of a script up to a position: its type, its split and its      *)
(* ends.                                                                   *)
LEMMA UpToIs ==
  ASSUME NEW ops \in Seq(Operation), NEW i \in Nat, NEW j \in Nat, i <= j, j <= Len(ops), NEW K
  PROVE  /\ UpTo(ops, i, K) \in Seq(Line) /\ UpTo(ops, j, K) \in Seq(Line)
         /\ SubSeq(ops, i + 1, j) \in Seq(Operation)
         /\ Side(SubSeq(ops, i + 1, j), K) \in Seq(Line)
         /\ UpTo(ops, j, K) = UpTo(ops, i, K) \o Side(SubSeq(ops, i + 1, j), K)
         /\ UpTo(ops, 0, K) = <<>>
         /\ UpTo(ops, Len(ops), K) = Side(ops, K)
  <1> DEFINE n == Len(ops)
  <1>1. n \in Nat /\ 1 \in Nat
    BY LenProperties
  <1>2. SubSeq(ops, 1, i) \in Seq(Operation) /\ SubSeq(ops, 1, j) \in Seq(Operation)
    <2>1. i <= n
      BY <1>1
    <2> QED
      BY <1>1, <2>1, OpsBetween
  <1>3. SubSeq(ops, i + 1, j) \in Seq(Operation)
    <2> DEFINE m == i + 1
    <2>1. m \in Nat /\ 1 <= m
      OBVIOUS
    <2> HIDE DEF m
    <2>2. SubSeq(ops, m, j) \in Seq(Operation)
      BY <2>1, OpsBetween
    <2> QED
      BY <2>2 DEF m
  <1>4. UpTo(ops, j, K) = UpTo(ops, i, K) \o Side(SubSeq(ops, i + 1, j), K)
    BY UpToSplits
  <1>5. SubSeq(ops, 1, 0) = <<>> /\ SubSeq(ops, 1, n) = ops
    BY SubSeqEmpty, SubSeqFull
  <1>6. /\ UpTo(ops, i, K) \in Seq(Line) /\ UpTo(ops, j, K) \in Seq(Line)
        /\ Side(SubSeq(ops, i + 1, j), K) \in Seq(Line)
    BY <1>2, <1>3, SideTyped DEF UpTo
  <1>7. UpTo(ops, 0, K) = <<>> /\ UpTo(ops, Len(ops), K) = Side(ops, K)
    BY <1>5, SideEmpty DEF UpTo
  <1> QED
    BY <1>3, <1>4, <1>6, <1>7

(* Without a change the two texts agree.                                   *)
LEMMA SidesAgree ==
  ASSUME NEW ops \in Seq(Operation), NEW i \in Nat, NEW j \in Nat, i <= j, j <= Len(ops),
         NoChange(ops, i, j + 1)
  PROVE  Side(SubSeq(ops, i + 1, j), Old) = Side(SubSeq(ops, i + 1, j), New)
  <1> DEFINE m == i + 1
             body == SubSeq(ops, m, j)
  <1>1. m \in Nat /\ 1 <= m
    OBVIOUS
  <1> HIDE DEF m
  <1>2. /\ body \in Seq(Operation)
        /\ Len(body) = IF m <= j THEN j - m + 1 ELSE 0
        /\ \A k \in 1..j - m + 1 : body[k] = ops[m + k - 1]
    BY <1>1, OpsBetween
  <1>3. ASSUME NEW k \in DOMAIN body
        PROVE  body[k].kind = "equal"
    <2>1. k \in 1..Len(body)
      BY <1>2, LenProperties
    <2> HIDE DEF body
    <2>2. k \in 1..j - m + 1 /\ m + k - 1 \in 1..Len(ops) /\ i < m + k - 1 /\ m + k - 1 < j + 1
      BY <1>1, <1>2, <2>1, LenProperties DEF m
    <2>3. m + k - 1 \notin Changed(ops)
      BY <2>2 DEF NoChange
    <2> QED
      BY <1>2, <2>2, <2>3, ChangedIs
  <1> HIDE DEF body
  <1>4. {k \in DOMAIN body : body[k].kind \in Old} = {k \in DOMAIN body : body[k].kind \in New}
    BY <1>3 DEF Old, New
  <1>5. Side(body, Old) = Side(body, New)
    BY <1>4 DEF Side
  <1> QED
    BY <1>5 DEF body, m

-----------------------------------------------------------------------------
(* Applying a script's hunks to the text the script was made from.         *)
LEMMA MiddleStretch ==
  ASSUME NEW u \in Seq(Line), NEW v \in Seq(Line), NEW w \in Seq(Line)
  PROVE  /\ (u \o v) \o w \in Seq(Line)
         /\ Len((u \o v) \o w) = Len(u) + Len(v) + Len(w)
         /\ \A k \in 1..Len(v) : ((u \o v) \o w)[Len(u) + k] = v[k]
         /\ SubSeq((u \o v) \o w, Len(u) + 1, Len(u) + Len(v)) = v
  <1> DEFINE a == Len(u)
             b == Len(v)
             c == Len(w)
             uv == u \o v
             s == uv \o w
  <1>1. a \in Nat /\ b \in Nat /\ c \in Nat
    BY LenProperties
  <1>2. uv \in Seq(Line) /\ Len(uv) = a + b
        /\ \A i \in 1..a + b : uv[i] = IF i <= a THEN u[i] ELSE v[i - a]
    BY ConcatProperties
  <1> HIDE DEF uv
  <1>3. s \in Seq(Line) /\ Len(s) = Len(uv) + c
        /\ \A i \in 1..Len(uv) + c : s[i] = IF i <= Len(uv) THEN uv[i] ELSE w[i - Len(uv)]
    <2>1. uv \in Seq(Line)
      BY <1>2
    <2> QED
      BY <2>1, ConcatProperties
  <1> HIDE DEF s, a, b, c
  <1>4. Len(s) = a + b + c
    BY <1>1, <1>2, <1>3
  <1>5. ASSUME NEW k \in 1..b
        PROVE  s[a + k] = v[k]
    <2>1. /\ a + k \in 1..Len(uv) + c /\ a + k <= Len(uv) /\ a + k \in 1..a + b
          /\ ~(a + k <= a) /\ (a + k) - a = k
      BY <1>1, <1>2
    <2>2. s[a + k] = uv[a + k]
      BY <1>3, <2>1
    <2>3. uv[a + k] = v[(a + k) - a]
      BY <1>2, <2>1
    <2> QED
      BY <2>1, <2>2, <2>3
  <1>6. SubSeq(s, a + 1, a + b) = v
    <2>1. a + Len(v) <= Len(s) /\ \A k \in 1..Len(v) : s[a + k] = v[k]
      BY <1>1, <1>4, <1>5 DEF b
    <2>2. SubSeq(s, a + 1, a + Len(v)) = v
      BY <1>1, <1>3, <2>1, HeldStretch
    <2> QED
      BY <2>2 DEF b
  <1> QED
    BY <1>3, <1>4, <1>5, <1>6 DEF s, uv, a, b, c

(* The old text between two operations of a script.                        *)
LEMMA OldTextBetween ==
  ASSUME NEW ops \in Seq(Operation), NEW i \in Nat, NEW j \in Nat, i <= j, j <= Len(ops)
  PROVE  LET text == Side(ops, Old)
             old == Side(SubSeq(ops, i + 1, j), Old)
             ahead == UpTo(ops, i, Old)
         IN /\ SubSeq(text, Len(ahead) + 1, Len(UpTo(ops, j, Old))) = old
            /\ \A k \in 1..Len(old) : text[Len(ahead) + k] = old[k]
            /\ Len(UpTo(ops, j, Old)) = Len(ahead) + Len(old)
            /\ Len(UpTo(ops, j, Old)) <= Len(text)
            /\ Len(ahead) \in Nat /\ Len(old) \in Nat /\ Len(text) \in Nat
            /\ text \in Seq(Line) /\ old \in Seq(Line)
  <1> DEFINE n == Len(ops)
             u == UpTo(ops, i, Old)
             v == Side(SubSeq(ops, i + 1, j), Old)
             w == Side(SubSeq(ops, j + 1, n), Old)
             text == Side(ops, Old)
  <1>1. n \in Nat
    BY LenProperties
  <1>2. u \in Seq(Line) /\ v \in Seq(Line) /\ UpTo(ops, j, Old) = u \o v
    BY UpToIs, SMTT(60)
  <1>3. w \in Seq(Line) /\ text = UpTo(ops, j, Old) \o w
    <2>1. n \in Nat /\ j <= n /\ n <= Len(ops)
      BY <1>1
    <2> HIDE DEF n
    <2>2. w \in Seq(Line)
      BY <2>1, UpToIs
    <2>3. UpTo(ops, n, Old) = UpTo(ops, j, Old) \o Side(SubSeq(ops, j + 1, n), Old)
      BY <2>1, UpToSplits
    <2>4. UpTo(ops, Len(ops), Old) = Side(ops, Old)
      BY UpToIs
    <2> QED
      BY <2>2, <2>3, <2>4 DEF n
  <1> HIDE DEF u, v, w, text
  <1>4. text = (u \o v) \o w
    BY <1>2, <1>3
  <1>5. /\ (u \o v) \o w \in Seq(Line)
        /\ Len((u \o v) \o w) = Len(u) + Len(v) + Len(w)
        /\ \A k \in 1..Len(v) : ((u \o v) \o w)[Len(u) + k] = v[k]
        /\ SubSeq((u \o v) \o w, Len(u) + 1, Len(u) + Len(v)) = v
    BY <1>2, <1>3, MiddleStretch
  <1>6. Len(u \o v) = Len(u) + Len(v)
    BY <1>2, ConcatProperties
  <1>7. Len(u) \in Nat /\ Len(v) \in Nat /\ Len(w) \in Nat /\ Len(text) \in Nat
    BY <1>2, <1>3, <1>4, <1>5, LenProperties
  <1>8. Len(u) + Len(v) <= Len(u) + Len(v) + Len(w)
    BY <1>7
  <1> QED
    BY <1>2, <1>4, <1>5, <1>6, <1>7, <1>8 DEF u, v, text

(* How far the script has been applied after its i-th operation.           *)
Reached(ops, i) ==
  [ok |-> TRUE, out |-> UpTo(ops, i, New), cursor |-> Len(UpTo(ops, i, Old))]

(* The state that applying a script up to a position leads to.             *)
LEMMA ReachedTyped ==
  ASSUME NEW ops \in Seq(Operation), NEW i \in Nat, i <= Len(ops)
  PROVE  /\ Reached(ops, i) \in Applying
         /\ Reached(ops, i).ok /\ Reached(ops, i).out = UpTo(ops, i, New)
         /\ Reached(ops, i).cursor = Len(UpTo(ops, i, Old))
         /\ Reached(ops, 0) = NothingApplied
  <1>1. UpTo(ops, i, New) \in Seq(Line) /\ UpTo(ops, i, Old) \in Seq(Line)
    BY UpToIs
  <1>2. Len(UpTo(ops, i, Old)) \in Nat
    BY <1>1, LenProperties
  <1>3. UpTo(ops, 0, New) = <<>> /\ UpTo(ops, 0, Old) = <<>>
    BY UpToIs
  <1>4. Len(<<>>) = 0
    BY EmptySeq
  <1>5. Reached(ops, 0) = NothingApplied
    BY <1>3, <1>4 DEF Reached, NothingApplied
  <1> QED
    BY <1>1, <1>2, <1>5 DEF Reached, Applying

(* A state of applyUnifiedDiff is known by its three parts.                *)
LEMMA ApplyingIs ==
  ASSUME NEW acc \in Applying, NEW other \in Applying,
         acc.ok = other.ok, acc.out = other.out, acc.cursor = other.cursor
  PROVE  acc = other
  <1> DEFINE R(S) == [ok : BOOLEAN, out : S, cursor : Nat]
             S == Seq(Line)
  <1>1. acc \in R(S) /\ other \in R(S)
    BY DEF Applying
  <1> HIDE DEF S
  <1> QED
    BY <1>1

(* Applied where the text has been taken over up to the change before it,  *)
(* a hunk takes it over up to the hunk's end.                              *)
LEMMA HunkApplies ==
  ASSUME NEW ops \in Seq(Operation), NEW p \in Nat, NEW f \in Nat, NEW t \in Nat,
         p < f, f <= t, t <= Len(ops), NoChange(ops, p, f),
         OldSide(SubSeq(ops, f, t)) # <<>>
  PROVE  ApplyHunk(OldSide(ops), Reached(ops, p), HunkOver(ops, f, t)) = Reached(ops, t)
  <1> DEFINE text == Side(ops, Old)
             e == f - 1
             hunk == HunkOver(ops, f, t)
             acc == Reached(ops, p)
             end == ApplyHunk(text, acc, hunk)
             moved == Moved(text, acc, hunk)
             body == SubSeq(ops, f, t)
             old == Side(body, Old)
             new == Side(body, New)
             op == UpTo(ops, p, Old)
             oe == UpTo(ops, e, Old)
             ot == UpTo(ops, t, Old)
  <1>1. e \in Nat /\ e + 1 = f /\ p <= e /\ e <= t /\ e <= Len(ops) /\ 1 <= f /\ p <= Len(ops)
    BY LenProperties
  <1>2. /\ hunk \in Hunk
        /\ Carries(hunk.lines, OldMarks) = old
        /\ Carries(hunk.lines, NewMarks) = new
        /\ hunk.oldStart = Len(oe) + 1
    <2>1. /\ hunk \in Hunk
          /\ Carries(hunk.lines, OldMarks) = OldSide(body)
          /\ Carries(hunk.lines, NewMarks) = NewSide(body)
          /\ hunk.oldStart = Len(OldSide(SubSeq(ops, 1, f - 1))) + 1
      BY <1>1, HunkOverIs
    <2> QED
      BY <2>1 DEF OldSide, NewSide, Old, New, UpTo
  <1>3. OldSide(ops) = text
    BY DEF OldSide, Old
  <1>4. /\ acc \in Applying /\ acc.ok /\ acc.out = UpTo(ops, p, New) /\ acc.cursor = Len(op)
    BY <1>1, ReachedTyped
  <1>5. /\ Reached(ops, t) \in Applying /\ Reached(ops, t).ok
        /\ Reached(ops, t).out = UpTo(ops, t, New) /\ Reached(ops, t).cursor = Len(ot)
    BY ReachedTyped
  <1>6. LET gap == Side(SubSeq(ops, p + 1, e), Old)
        IN /\ SubSeq(text, Len(op) + 1, Len(oe)) = gap
           /\ Len(oe) = Len(op) + Len(gap) /\ Len(oe) <= Len(text)
           /\ Len(op) \in Nat /\ Len(gap) \in Nat /\ Len(text) \in Nat /\ text \in Seq(Line)
    <2> HIDE DEF e
    <2> QED
      BY <1>1, OldTextBetween, ZenonT(60)
  <1>7. /\ \A k \in 1..Len(old) : text[Len(oe) + k] = old[k]
        /\ Len(ot) = Len(oe) + Len(old) /\ Len(ot) <= Len(text)
        /\ Len(oe) \in Nat /\ Len(old) \in Nat
    <2> HIDE DEF e
    <2>1. LET mid == Side(SubSeq(ops, e + 1, t), Old)
          IN /\ \A k \in 1..Len(mid) : text[Len(oe) + k] = mid[k]
             /\ Len(ot) = Len(oe) + Len(mid) /\ Len(ot) <= Len(text)
             /\ Len(oe) \in Nat /\ Len(mid) \in Nat
      BY <1>1, OldTextBetween
    <2> QED
      BY <1>1, <2>1
  <1>8. UpTo(ops, e, New) = UpTo(ops, p, New) \o Side(SubSeq(ops, p + 1, e), Old)
    <2> HIDE DEF e
    <2>1. UpTo(ops, e, New) = UpTo(ops, p, New) \o Side(SubSeq(ops, p + 1, e), New)
      BY <1>1, UpToSplits, SMTT(60)
    <2>2. Side(SubSeq(ops, p + 1, e), Old) = Side(SubSeq(ops, p + 1, e), New)
      BY <1>1, SidesAgree
    <2> QED
      BY <2>1, <2>2
  <1>9. UpTo(ops, t, New) = UpTo(ops, e, New) \o new
    <2> HIDE DEF e
    <2>1. UpTo(ops, t, New) = UpTo(ops, e, New) \o Side(SubSeq(ops, e + 1, t), New)
      BY <1>1, UpToSplits, SMTT(60)
    <2> QED
      BY <1>1, <2>1
  <1> DEFINE gap == Side(SubSeq(ops, p + 1, e), Old)
             start == hunk.oldStart
             m == Len(op)
             n == Len(oe)
             size == Len(text)
  <1>10. /\ SubSeq(text, m + 1, n) = gap /\ m <= n /\ n <= size
         /\ m \in Nat /\ n \in Nat /\ size \in Nat /\ text \in Seq(Line)
    <2> HIDE DEF op, oe, text
    <2> QED
      BY <1>6
  <1>11. start = n + 1 /\ start - 1 = n
    <2>1. start = n + 1
      BY <1>2
    <2> HIDE DEF n, start
    <2> QED
      BY <1>10, <2>1
  <1> HIDE DEF hunk, text, e, old, new, op, oe, ot, acc, body, m, n, size, start, gap
  <1>12. HunkFits(text, acc, hunk)
    <2>1. hunk.oldStart - 1 = n /\ acc.cursor = m /\ Len(text) = size
      BY <1>4, <1>11 DEF start, m, size
    <2>2. n >= m /\ n <= size
      BY <1>10
    <2> QED
      BY <2>1, <2>2 DEF HunkFits
  <1>13. Holds(text, hunk.oldStart - 1, hunk.lines)
    <2>1. hunk.oldStart - 1 = Len(oe)
      BY <1>11 DEF start, n
    <2>2. Len(oe) + Len(old) <= Len(text)
      BY <1>7
    <2> QED
      BY <1>2, <1>7, <2>1, <2>2 DEF Holds
  <1>14. end.ok
    BY <1>2, <1>4, <1>10, <1>12, <1>13, ApplyHunkGoesIn
  <1>15. LinesTaken(text, moved, end, hunk.lines)
    BY <1>2, <1>4, <1>10, <1>14, ApplyHunkTaken
  <1>16. /\ moved \in Applying /\ moved.cursor = hunk.oldStart - 1
         /\ moved.out = acc.out \o SubSeq(text, acc.cursor + 1, hunk.oldStart - 1)
    <2>1. hunk \in Hunk /\ acc \in Applying /\ text \in Seq(Line)
      BY <1>2, <1>4, <1>10
    <2>2. moved \in Applying
      BY <1>12, <2>1, MovedTyped
    <2>3. moved.cursor = hunk.oldStart - 1
      BY <1>12, <2>1, MovedTyped
    <2>4. moved.out = acc.out \o SubSeq(text, acc.cursor + 1, hunk.oldStart - 1)
      BY ONLY <2>1 DEF moved, Moved, Applying
    <2> QED
      BY <2>2, <2>3, <2>4
  <1>17. end \in Applying
    BY <1>2, <1>4, <1>10, ApplyHunkTyped
  <1> HIDE DEF moved, end
  <1>18. moved.out = UpTo(ops, e, New) /\ moved.cursor = n
    <2>1. SubSeq(text, acc.cursor + 1, hunk.oldStart - 1) = gap
      BY <1>4, <1>10, <1>11 DEF m, start
    <2> QED
      BY <1>4, <1>8, <1>11, <1>16, <2>1 DEF gap, start
  <1>19. end.cursor = moved.cursor + Len(old) /\ end.out = moved.out \o new
    BY <1>2, <1>15 DEF LinesTaken
  <1>20. end.cursor = Len(ot) /\ end.out = UpTo(ops, t, New)
    BY <1>7, <1>9, <1>18, <1>19 DEF n
  <1>21. end = Reached(ops, t)
    <2>1. end.ok = Reached(ops, t).ok
      <3>1. end.ok = TRUE /\ Reached(ops, t).ok = TRUE
        BY <1>5, <1>14, <1>17 DEF Applying
      <3> QED
        BY <3>1
    <2>2. end.out = Reached(ops, t).out /\ end.cursor = Reached(ops, t).cursor
      BY <1>5, <1>20
    <2> QED
      BY <1>5, <1>17, <2>1, <2>2, ApplyingIs
  <1> QED
    BY <1>3, <1>21 DEF end, acc, hunk

(* The hunks of a script.                                                  *)
LEMMA HunksAre ==
  ASSUME NEW ops \in Seq(Operation), NEW width \in Nat,
         NEW order, order = HunkOrder(ops, width)
  PROVE  /\ Hunks(ops, width) \in Seq(Hunk)
         /\ Len(Hunks(ops, width)) = Len(order) /\ Len(order) \in Nat
         /\ \A k \in 1..Len(order) :
              Hunks(ops, width)[k] = HunkOver(ops, From(order[k], width), To(ops, width, order[k]))
         /\ ops \in Seq(PlainOperation) =>
              \A k \in 1..Len(order) : Hunks(ops, width)[k].lines \in Seq(PlainLine)
  <1> DEFINE H(k) == HunkOver(ops, From(order[k], width), To(ops, width, order[k]))
             hs == Hunks(ops, width)
             n == Len(order)
  <1>1. n \in Nat /\ DOMAIN order = 1..n
    BY HunkOrderIs, LenProperties
  <1>2. hs = [k \in 1..n |-> H(k)]
    <2>1. hs = [k \in DOMAIN order |-> H(k)]
      BY DEF Hunks, HunkOrder
    <2> HIDE DEF H, hs
    <2> QED
      BY <1>1, <2>1
  <1> HIDE DEF n
  <1>3. ASSUME NEW k \in 1..n
        PROVE  H(k) \in Hunk /\ (ops \in Seq(PlainOperation) => H(k).lines \in Seq(PlainLine))
    <2>1. order[k] \in Starts(ops, width)
      BY OuterHunks DEF n
    <2> DEFINE f == From(order[k], width)
               t == To(ops, width, order[k])
    <2>2. f \in Nat /\ t \in Nat /\ 1 <= f /\ f <= t /\ t <= Len(ops)
      <3>1. order[k] \in Nat /\ LastChange(ops, width, order[k]) \in Nat /\ f \in Nat /\ t \in Nat
        BY <2>1, FromAndTo
      <3>2. /\ 1 <= f /\ f <= order[k] /\ order[k] <= LastChange(ops, width, order[k])
            /\ LastChange(ops, width, order[k]) <= t /\ t <= Len(ops)
        BY <2>1, FromAndTo
      <3> HIDE DEF f, t
      <3> QED
        BY <3>1, <3>2
    <2> HIDE DEF f, t
    <2>3. /\ HunkOver(ops, f, t) \in Hunk
          /\ ops \in Seq(PlainOperation) => HunkOver(ops, f, t).lines \in Seq(PlainLine)
      BY <2>2, HunkOverIs
    <2> QED
      BY <2>3 DEF f, t
  <1> HIDE DEF H, hs
  <1>4. hs \in Seq(Hunk) /\ Len(hs) = n /\ \A k \in 1..n : hs[k] = H(k)
    BY <1>1, <1>2, <1>3
  <1>5. ops \in Seq(PlainOperation) => \A k \in 1..n : hs[k].lines \in Seq(PlainLine)
    BY <1>3, <1>4
  <1> QED
    BY <1>1, <1>4, <1>5 DEF hs, n, H

(* The hunks of a script turn its old side into its new one, if each shows *)
(* a line of the old text.                                                 *)
LEMMA HunksApply ==
  ASSUME NEW ops \in Seq(Operation), NEW width \in Nat, width > 0,
         OldSide(ops) # <<>>, Changed(ops) # {}
  PROVE  ApplyUnifiedDiff(OldSide(ops), Hunks(ops, width)) = Wrote(NewSide(ops))
  <1> DEFINE text == OldSide(ops)
             hs == Hunks(ops, width)
             order == HunkOrder(ops, width)
             n == Len(order)
             F(k) == From(order[k], width)
             U(k) == To(ops, width, order[k])
             size == Len(ops)
  <1>1. /\ hs \in Seq(Hunk) /\ Len(hs) = n /\ n \in Nat
        /\ \A k \in 1..n : hs[k] = HunkOver(ops, F(k), U(k))
    BY HunksAre
  <1>2. n > 0 /\ size \in Nat
    BY HunkOrderIs, LenProperties
  <1>3. text \in Seq(Line) /\ text = Side(ops, Old)
    BY SideTyped DEF OldSide, Old
  <1>4. ASSUME NEW k \in 1..n
        PROVE  /\ F(k) \in Nat /\ U(k) \in Nat /\ 1 <= F(k) /\ F(k) <= U(k) /\ U(k) <= size
               /\ OldSide(SubSeq(ops, F(k), U(k))) # <<>>
               /\ k = 1 => NoChange(ops, 0, F(k))
               /\ k = n => NoChange(ops, U(k), size + 1)
    <2> DEFINE i == order[k]
               last == LastChange(ops, width, i)
    <2>1. /\ i \in Starts(ops, width)
          /\ k = 1 => NoChange(ops, 0, From(i, width))
          /\ k = n => NoChange(ops, To(ops, width, i), size + 1)
      BY OuterHunks
    <2> HIDE DEF i
    <2>2. /\ i \in Nat /\ last \in Nat /\ From(i, width) \in Nat /\ To(ops, width, i) \in Nat
      BY <2>1, FromAndTo
    <2>3. /\ 1 <= From(i, width) /\ From(i, width) <= i /\ i <= last
          /\ last <= To(ops, width, i) /\ To(ops, width, i) <= size
      BY <2>1, FromAndTo
    <2>4. OldSide(SubSeq(ops, From(i, width), To(ops, width, i))) # <<>>
      BY <2>1, HunkShowsOldLine
    <2> DEFINE f == From(i, width)
               t == To(ops, width, i)
    <2> HIDE DEF last, f, t
    <2>5. f \in Nat /\ t \in Nat /\ 1 <= f /\ f <= t
      <3>1. i \in Nat /\ last \in Nat /\ f \in Nat /\ t \in Nat /\ 1 <= f /\ f <= i /\ i <= last /\ last <= t
        BY <2>2, <2>3 DEF f, t
      <3> QED
        BY ONLY <3>1
    <2> QED
      BY <2>1, <2>3, <2>4, <2>5 DEF i, f, t
  <1>5. ASSUME NEW k \in 1..n, NEW l \in 1..n, l = k + 1
        PROVE  U(k) < F(l) /\ NoChange(ops, U(k), F(l))
    BY <1>5, NeighbouringHunks
  <1> HIDE DEF hs, order, n, F, U
  <1>6. PICK g : /\ ApplyHunks(text, hs) = g[Len(hs)]
                 /\ g[0] = NothingApplied
                 /\ \A k \in 1..Len(hs) : g[k] = ApplyHunk(text, g[k - 1], hs[k])
    BY <1>1, <1>3, HunksTable
  <1> DEFINE T == {m \in Nat : m + 1 <= n => g[m + 1] = Reached(ops, U(m + 1))}
  <1>7. 0 \in T
    <2>1. 1 \in 1..n /\ 0 \in Nat /\ 0 <= size
      BY <1>1, <1>2
    <2>2. Reached(ops, 0) = NothingApplied
      BY <2>1, ReachedTyped
    <2>3. g[1] = ApplyHunk(text, Reached(ops, 0), HunkOver(ops, F(1), U(1)))
      BY <1>1, <1>6, <2>1, <2>2
    <2>4. /\ F(1) \in Nat /\ U(1) \in Nat /\ 0 < F(1) /\ F(1) <= U(1) /\ U(1) <= Len(ops)
          /\ OldSide(SubSeq(ops, F(1), U(1))) # <<>> /\ NoChange(ops, 0, F(1))
      BY <1>4, <2>1
    <2>5. ApplyHunk(text, Reached(ops, 0), HunkOver(ops, F(1), U(1))) = Reached(ops, U(1))
      BY <2>1, <2>4, HunkApplies
    <2> QED
      BY <2>3, <2>5
  <1>8. ASSUME NEW m \in Nat, m \in T
        PROVE  m + 1 \in T
    <2> SUFFICES ASSUME (m + 1) + 1 <= n
                 PROVE  g[(m + 1) + 1] = Reached(ops, U((m + 1) + 1))
      OBVIOUS
    <2> DEFINE k == m + 1
               l == k + 1
    <2>1. k \in 1..n /\ l \in 1..n /\ l - 1 = k
      BY <1>1
    <2>2. g[k] = Reached(ops, U(k))
      BY <1>8, <1>1
    <2> HIDE DEF k
    <2>3. U(k) < F(l) /\ NoChange(ops, U(k), F(l)) /\ U(k) \in Nat
      BY <1>4, <1>5, <2>1
    <2>4. /\ F(l) \in Nat /\ U(l) \in Nat /\ F(l) <= U(l) /\ U(l) <= Len(ops)
          /\ OldSide(SubSeq(ops, F(l), U(l))) # <<>>
      BY <1>4, <2>1
    <2> HIDE DEF l
    <2>5. ApplyHunk(text, Reached(ops, U(k)), HunkOver(ops, F(l), U(l))) = Reached(ops, U(l))
      BY <2>3, <2>4, HunkApplies
    <2>6. g[l] = ApplyHunk(text, g[k], hs[l]) /\ hs[l] = HunkOver(ops, F(l), U(l))
      BY <1>1, <1>6, <2>1
    <2>7. g[l] = Reached(ops, U(l))
      BY <2>2, <2>5, <2>6
    <2> QED
      BY <2>7 DEF l, k
  <1> HIDE DEF T
  <1>9. g[n] = Reached(ops, U(n))
    <2>1. n - 1 \in Nat /\ (n - 1) + 1 = n
      BY <1>1, <1>2
    <2>2. n - 1 \in T
      BY <1>7, <1>8, <2>1, Induction
    <2> QED
      BY <2>1, <2>2 DEF T
  <1> DEFINE t == U(n)
             end == ApplyHunks(text, hs)
             rest == SubSeq(ops, t + 1, size)
  <1>10. t \in Nat /\ t <= size /\ NoChange(ops, t, size + 1)
    <2>1. n \in 1..n
      BY <1>1, <1>2
    <2> QED
      BY <1>4, <2>1
  <1> HIDE DEF t
  <1>11. end = Reached(ops, t)
    BY <1>1, <1>6, <1>9 DEF t
  <1>12. end.ok /\ end.out = UpTo(ops, t, New) /\ end.cursor = Len(UpTo(ops, t, Old))
    BY <1>10, <1>11, ReachedTyped
  <1>13. hs # <<>>
    BY <1>1, <1>2, EmptySeq
  <1>14. SubSeq(text, end.cursor + 1, Len(text)) = Side(rest, Old)
    <2>1. SubSeq(Side(ops, Old), Len(UpTo(ops, t, Old)) + 1, Len(UpTo(ops, size, Old)))
            = Side(SubSeq(ops, t + 1, size), Old)
      <3>1. size \in Nat /\ size <= Len(ops)
        BY <1>2
      <3> HIDE DEF size
      <3> QED
        BY <1>10, <3>1, OldTextBetween
    <2>2. UpTo(ops, size, Old) = Side(ops, Old)
      BY <1>10, UpToIs
    <2> QED
      BY <1>3, <1>12, <2>1, <2>2
  <1>15. Side(rest, Old) = Side(rest, New)
    <2>1. size \in Nat /\ size <= Len(ops)
      BY <1>2
    <2> HIDE DEF size
    <2> QED
      BY <1>10, <2>1, SidesAgree
  <1>16. UpTo(ops, t, New) \o Side(rest, New) = Side(ops, New)
    <2>1. size \in Nat /\ size <= Len(ops)
      BY <1>2
    <2>2. UpTo(ops, size, New) = Side(ops, New)
      BY <1>10, UpToIs
    <2> HIDE DEF size
    <2>3. UpTo(ops, size, New) = UpTo(ops, t, New) \o Side(rest, New)
      BY <1>10, <2>1, UpToSplits
    <2> QED
      BY <2>2, <2>3
  <1> HIDE DEF end, rest
  <1>17. ApplyUnifiedDiff(text, hs) = Wrote(end.out \o SubSeq(text, end.cursor + 1, Len(text)))
    BY <1>12, <1>13 DEF ApplyUnifiedDiff, end
  <1>18. end.out \o SubSeq(text, end.cursor + 1, Len(text)) = Side(ops, New)
    BY <1>12, <1>14, <1>15, <1>16
  <1>19. NewSide(ops) = Side(ops, New)
    BY DEF NewSide, New
  <1> QED
    BY <1>17, <1>18, <1>19 DEF hs

(* A script that changes nothing leaves the text as it is.                 *)
LEMMA SomethingChanged ==
  ASSUME NEW ops \in Seq(Operation), OldSide(ops) # NewSide(ops)
  PROVE  Changed(ops) # {}
  <1> SUFFICES ASSUME Changed(ops) = {}
               PROVE  OldSide(ops) = NewSide(ops)
    OBVIOUS
  <1>1. \A i \in DOMAIN ops : ops[i].kind = "equal"
    BY DEF Changed
  <1>2. {i \in DOMAIN ops : ops[i].kind \in Old} = {i \in DOMAIN ops : ops[i].kind \in New}
    BY <1>1 DEF Old, New
  <1>3. Side(ops, Old) = Side(ops, New)
    BY <1>2 DEF Side
  <1> QED
    BY <1>3 DEF OldSide, NewSide, Old, New

-----------------------------------------------------------------------------
(* A rendered diff, read back.                                             *)
LEMMA FormatIs ==
  ASSUME NEW a \in Seq(Line), NEW b \in Seq(Line), NEW width \in Nat
  PROVE  /\ FormatUnifiedDiff(a, b, width) \in Seq(Shown)
         /\ ParseUnifiedDiff(FormatUnifiedDiff(a, b, width)) \in Seq(Hunk)
         /\ DiffLines(a, b) \in Seq(PlainOperation) =>
              ParseUnifiedDiff(FormatUnifiedDiff(a, b, width)) = Hunks(DiffLines(a, b), width)
  <1> DEFINE ops == DiffLines(a, b)
             hs == Hunks(ops, width)
             d == FormatUnifiedDiff(a, b, width)
             order == HunkOrder(ops, width)
  <1>1. ops \in Seq(Operation)
    BY DiffExact
  <1> HIDE DEF ops
  <1>2. /\ hs \in Seq(Hunk) /\ Len(hs) = Len(order)
        /\ ops \in Seq(PlainOperation) => \A k \in 1..Len(order) : hs[k].lines \in Seq(PlainLine)
    BY <1>1, HunksAre
  <1> HIDE DEF order
  <1>3. /\ hs = <<>> => d = <<>>
        /\ hs # <<>> => d = Headers \o FlattenSeq(Renders(hs))
    BY DEF FormatUnifiedDiff, Headers, Renders, ops
  <1> HIDE DEF hs, d
  <1>4. d \in Seq(Shown)
    BY <1>2, <1>3, RendersTyped, EmptySeq
  <1>5. ops \in Seq(PlainOperation) => ParseUnifiedDiff(d) = hs
    BY <1>2, <1>3, ParseRenders, ParseEmpty
  <1> QED
    BY <1>4, <1>5, ParseTyped DEF d, hs, ops

-----------------------------------------------------------------------------
(* The review of a diff: what each stage has established.                  *)
ReviewInv ==
  /\ stage \in {"written", "rendered", "parsed", "applied"}
  /\ before \in Seq(Line) /\ after \in Seq(Line) /\ base \in Seq(Line)
  /\ before # after
  /\ context \in Contexts
  /\ diff = IF stage = "written" THEN <<>> ELSE FormatUnifiedDiff(before, after, context)
  /\ hunks = IF stage \in {"parsed", "applied"} THEN ParseUnifiedDiff(diff) ELSE <<>>
  /\ result = IF stage = "applied" THEN ApplyUnifiedDiff(base, hunks) ELSE NoText

(* The bounded texts are texts.                                            *)
LEMMA TextsAreTexts ==
  Texts \subseteq Seq(Line)
  BY DEF Texts, BoundedSeq, SeqOf

(* ReviewInv is inductive.                                                 *)
LEMMA ReviewInductive ==
  ReviewSpec => []ReviewInv
  <1>1. ReviewInit => ReviewInv
    BY TextsAreTexts DEF ReviewInit, ReviewInv
  <1>2. ReviewInv /\ [ReviewNext]_reviewVars => ReviewInv'
    <2> SUFFICES ASSUME ReviewInv, [ReviewNext]_reviewVars
                 PROVE  ReviewInv'
      OBVIOUS
    <2>1. CASE Render
      BY <2>1 DEF ReviewInv, Render
    <2>2. CASE Parse
      BY <2>2 DEF ReviewInv, Parse
    <2>3. ASSUME NEW text \in Texts, Apply(text)
          PROVE  ReviewInv'
      <3>1. text \in Seq(Line)
        BY TextsAreTexts
      <3> QED
        BY <2>3, <3>1 DEF ReviewInv, Apply
    <2>4. CASE Done
      BY <2>4 DEF ReviewInv, Done, reviewVars
    <2>5. CASE UNCHANGED reviewVars
      BY <2>5 DEF ReviewInv, reviewVars
    <2> QED
      BY <2>1, <2>2, <2>3, <2>4, <2>5 DEF ReviewNext
  <1> QED
    BY <1>1, <1>2, PTL DEF ReviewSpec

(* What was rendered can be read, and what was read are hunks.             *)
LEMMA HunksRead ==
  ASSUME ReviewInv
  PROVE  hunks \in Seq(Hunk) /\ context \in Nat
  <1>1. context \in Nat
    BY ReviewAssumption DEF ReviewInv
  <1>2. before \in Seq(Line) /\ after \in Seq(Line)
    BY DEF ReviewInv
  <1>3. ParseUnifiedDiff(FormatUnifiedDiff(before, after, context)) \in Seq(Hunk)
    BY <1>1, <1>2, FormatIs
  <1>4. <<>> \in Seq(Hunk)
    BY EmptySeq
  <1>5. CASE stage \in {"parsed", "applied"}
    BY <1>1, <1>3, <1>5 DEF ReviewInv
  <1>6. CASE stage \notin {"parsed", "applied"}
    BY <1>1, <1>4, <1>6 DEF ReviewInv
  <1> QED
    BY <1>5, <1>6

(* If the diff can carry the change, the hunks that were read are the      *)
(* script's, and they turn the old text into the new one.                  *)
LEMMA CarriedHunks ==
  ASSUME ReviewInv, stage = "applied", Carried
  PROVE  ApplyUnifiedDiff(before, hunks) = Wrote(after)
  <1> DEFINE ops == DiffLines(before, after)
  <1>1. before \in Seq(Line) /\ after \in Seq(Line) /\ before # after
    BY DEF ReviewInv
  <1>2. context \in Nat /\ context > 0
    BY HunksRead DEF Carried
  <1>3. ops \in Seq(Operation) /\ OldSide(ops) = before /\ NewSide(ops) = after
    BY <1>1, DiffExact
  <1>4. before # <<>>
    BY DEF Carried
  <1>5. /\ \A i \in DOMAIN ops : ops[i].kind = "delete" => ops[i].line \notin DashLine
        /\ \A i \in DOMAIN ops : ops[i].kind = "insert" => ops[i].line \notin PlusLine
    BY DEF Carried
  <1>6. hunks = ParseUnifiedDiff(FormatUnifiedDiff(before, after, context))
    BY DEF ReviewInv
  <1> HIDE DEF ops
  <1>7. ops \in Seq(PlainOperation)
    <2>1. DOMAIN ops = 1..Len(ops) /\ Len(ops) \in Nat /\ \A i \in 1..Len(ops) : ops[i] \in Operation
      BY <1>3, LenProperties, ElementOfSeq
    <2>2. \A i \in 1..Len(ops) : ops[i] \in PlainOperation
      BY <1>5, <2>1 DEF PlainOperation
    <2>3. ops = [i \in 1..Len(ops) |-> ops[i]]
      BY <1>3, LenProperties
    <2> QED
      BY <2>1, <2>2, <2>3
  <1>8. hunks = Hunks(ops, context)
    BY <1>1, <1>2, <1>6, <1>7, FormatIs DEF ops
  <1>9. Changed(ops) # {}
    BY <1>1, <1>3, SomethingChanged
  <1>10. ApplyUnifiedDiff(OldSide(ops), Hunks(ops, context)) = Wrote(NewSide(ops))
    BY <1>2, <1>3, <1>4, <1>9, HunksApply
  <1> QED
    BY <1>3, <1>8, <1>10

-----------------------------------------------------------------------------
(* The edit script behind every review diff spells the old text without    *)
(* its insertions and the new one without its deletions, and below the     *)
(* size guard it keeps as many lines as the longest common subsequence.    *)
THEOREM ScriptsAreExactAndMinimal ==
  ReviewSpec => []ScriptIsExactAndMinimal
  <1>1. ReviewInv => ScriptIsExactAndMinimal
    <2> SUFFICES ASSUME ReviewInv PROVE ScriptIsExactAndMinimal
      OBVIOUS
    <2>1. before \in Seq(Line) /\ after \in Seq(Line)
      BY DEF ReviewInv
    <2>2. /\ OldSide(DiffLines(before, after)) = before
          /\ NewSide(DiffLines(before, after)) = after
      BY <2>1, DiffExact
    <2>3. Len(before) <= LcsGuard /\ Len(after) <= LcsGuard =>
            Len(Side(DiffLines(before, after), {"equal"})) = LongestCommon(before, after)
      BY <2>1, DiffMinimal
    <2> QED
      BY <2>2, <2>3 DEF ScriptIsExactAndMinimal
  <1> QED
    BY <1>1, ReviewInductive, PTL

(* A diff that can carry the change, applied to the text it was computed   *)
(* from, reproduces the proposed text.                                     *)
THEOREM CarriedDiffsReapply ==
  ReviewSpec => []CarriedDiffReapplies
  <1>1. ReviewInv => CarriedDiffReapplies
    <2> SUFFICES ASSUME ReviewInv, stage = "applied", base = before, Carried
                 PROVE  result = Wrote(after)
      BY DEF CarriedDiffReapplies
    <2>1. result = ApplyUnifiedDiff(before, hunks)
      BY DEF ReviewInv
    <2> QED
      BY <2>1, CarriedHunks
  <1> QED
    BY <1>1, ReviewInductive, PTL

(* A diff that went into a text found there every line its hunks show or   *)
(* remove, whatever had become of the text since; and a diff that can      *)
(* carry the change made the text longer by what the change was to.        *)
THEOREM OnlyVerifiedLinesAreReplaced ==
  ReviewSpec => []OnlyVerifiedLinesReplaced
  <1>1. ReviewInv => OnlyVerifiedLinesReplaced
    <2> SUFFICES ASSUME ReviewInv, stage = "applied", result.ok
                 PROVE  /\ \A k \in DOMAIN hunks : Verified(base, hunks[k])
                        /\ Carried => Len(result.text) - Len(base) = Len(after) - Len(before)
      BY DEF OnlyVerifiedLinesReplaced, Verified, BodyText, Carries, OldMarks
    <2>1. /\ base \in Seq(Line) /\ before \in Seq(Line) /\ after \in Seq(Line)
          /\ result = ApplyUnifiedDiff(base, hunks)
      BY DEF ReviewInv
    <2>2. hunks \in Seq(Hunk)
      BY HunksRead
    <2> DEFINE grown == Len(ApplyHunks(base, hunks).out) - ApplyHunks(base, hunks).cursor
    <2>3. ApplyHunks(base, hunks).ok /\ Len(result.text) - Len(base) = grown
      <3>1. ApplyUnifiedDiff(base, hunks).ok
        BY <2>1
      <3> QED
        BY <2>1, <2>2, <3>1, WrittenLength
    <2>4. \A k \in DOMAIN hunks : Verified(base, hunks[k])
      <3>1. DOMAIN hunks = 1..Len(hunks)
        BY <2>2, LenProperties
      <3> QED
        BY <2>1, <2>2, <2>3, <3>1, HunksVerified
    <2>5. ASSUME Carried
          PROVE  Len(after) - Len(before) = grown
      <3>1. ApplyUnifiedDiff(before, hunks) = Wrote(after)
        BY <2>5, CarriedHunks
      <3>2. Wrote(after).ok /\ Wrote(after).text = after
        BY DEF Wrote
      <3>3. ApplyUnifiedDiff(before, hunks).ok /\ ApplyUnifiedDiff(before, hunks).text = after
        BY <3>1, <3>2
      <3>4. /\ ApplyHunks(before, hunks).ok
            /\ Len(after) - Len(before)
                 = Len(ApplyHunks(before, hunks).out) - ApplyHunks(before, hunks).cursor
        BY <2>1, <2>2, <3>3, WrittenLength
      <3>5. Len(ApplyHunks(before, hunks).out) - ApplyHunks(before, hunks).cursor = grown
        BY <2>1, <2>2, <2>3, <3>4, SameGrowth
      <3> QED
        BY <3>4, <3>5
    <2> QED
      BY <2>3, <2>4, <2>5
  <1> QED
    BY <1>1, ReviewInductive, PTL

(* Texts stay texts, and the hunks read from a diff are hunks of lines.    *)
THEOREM ReviewTypeCorrect ==
  ReviewSpec => []ReviewTypeOK
  <1>1. ReviewInv => ReviewTypeOK
    <2> SUFFICES ASSUME ReviewInv PROVE ReviewTypeOK
      OBVIOUS
    <2>1. hunks \in Seq(Hunk)
      BY HunksRead
    <2>2. ASSUME NEW k \in DOMAIN hunks
          PROVE  /\ {hunks[k].oldStart, hunks[k].oldLines,
                     hunks[k].newStart, hunks[k].newLines} \subseteq Nat
                 /\ \A l \in DOMAIN hunks[k].lines : hunks[k].lines[l] \in HunkLine
      <3>1. hunks[k] \in Hunk
        BY <2>1, LenProperties, ElementOfSeq
      <3>2. \A l \in DOMAIN hunks[k].lines : hunks[k].lines[l] \in HunkLine
        BY <3>1, LenProperties, ElementOfSeq DEF Hunk
      <3> QED
        BY <3>1, <3>2 DEF Hunk
    <2>3. result = NoText \/ result.text \in Text
      <3>1. CASE stage = "applied"
        <4>1. result = ApplyUnifiedDiff(base, hunks) /\ base \in Seq(Line)
          BY <3>1 DEF ReviewInv
        <4>2. ApplyUnifiedDiff(base, hunks) = NoText \/ ApplyUnifiedDiff(base, hunks).ok
          BY DEF ApplyUnifiedDiff, Wrote
        <4> QED
          BY <2>1, <4>1, <4>2, WrittenLength DEF Text
      <3>2. CASE stage # "applied"
        BY <3>2 DEF ReviewInv
      <3> QED
        BY <3>1, <3>2
    <2>4. /\ stage \in {"written", "rendered", "parsed", "applied"}
          /\ {before, after, base} \subseteq Text
          /\ context \in Contexts
      BY DEF ReviewInv, Text
    <2> QED
      BY <2>2, <2>3, <2>4 DEF ReviewTypeOK, HunkLine
  <1> QED
    BY <1>1, ReviewInductive, PTL
=============================================================================
