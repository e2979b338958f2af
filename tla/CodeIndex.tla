------------------------------ MODULE CodeIndex ------------------------------
(***************************************************************************)
(* The code index of a project: what FileAnalyzer takes from each source   *)
(* file (analyzer.ts), how link() resolves imports to files and names to   *)
(* declarations (indexer.ts), and the builds of a session, which read the  *)
(* files one by one while the user saves them and while other builds run   *)
(* (ProjectSession.buildIndex() of project.ts).                            *)
(* A source is what its syntax binds and uses, once the reader has         *)
(* redacted it; positions, signatures and comments are left out, so that   *)
(* equal references of a file are one.                                     *)
(***************************************************************************)
EXTENDS Naturals, Sequences, FiniteSets, SequencesExt

CONSTANTS
  Path,        \* the files a listing can hold, records [stem, ext]
  Source,      \* what the user can save in a file
  Projects,    \* the projects a session can start with
  Nothing,     \* no file, no name, no declaration
  Extension,   \* RESOLVE_EXTENSIONS, in the order they are tried
  Emitted,     \* extensions a specifier writes for the source's own
  IndexOf(_),  \* stem of the index file of a directory
  TooLarge,    \* sources above a limit of the reader, in bytes or in lines
  Builds,      \* calls of buildIndex()
  Saves,       \* bound on the user's saves
  MaxMissed    \* bound on the files a build misses though it could take them

VARIABLES
  disk,      \* source of each file
  build,     \* what each call has done
  index,     \* the session's index
  latest,    \* the call it is of
  changed,   \* calls that may have missed a save
  missed,    \* files each call did not find, or could not read
  saves

vars == <<disk, build, index, latest, changed, missed, saves>>

\* What a file can hold, at first or once it is saved.
Held == (Source \cup UNION {{project[p] : p \in DOMAIN project} : project \in Projects}) \ {Nothing}
IndexAssumption ==
  /\ Nothing \notin Path \cup Builds
  /\ IsFiniteSet(Path)
  /\ Projects \subseteq [Path -> Held \cup {Nothing}]
  /\ Extension \in Seq(STRING)
  /\ \A s \in Held : IsFiniteSet(s.decls) /\ s.exports \in Seq(ToSet(s.exports))

-----------------------------------------------------------------------------
(* FileAnalyzer: one file's symbols, references, imports and exports.      *)
Id(p, container, name) == <<p, container, name>>
File(p) == Id(p, Nothing, Nothing)
Symbol(p, container, name, exported) ==
  [id |-> Id(p, container, name), name |-> name, container |-> container, exported |-> exported]
Reference(name, kind, member, in) ==
  [name |-> name, kind |-> kind, member |-> member, in |-> in, target |-> Nothing,
   external |-> FALSE]

Symbols(p, s) ==
  {Symbol(p, Nothing, d.name, d.exported) : d \in s.decls}
  \cup UNION {{Symbol(p, d.name, m.name, FALSE) : m \in d.members} : d \in s.decls}

\* Names a scope binds are not recorded; a member is nobody's local. A property
\* is read in its class, a method in itself, an anonymous default in its file.
Uses(in, bound, uses) ==
  {Reference(u.name, u.kind, u.member, in) : u \in {v \in uses : v.member \/ v.name \notin bound}}
UsesOf(p, d) ==
  Uses(IF d.name = "default" THEN File(p) ELSE Id(p, Nothing, d.name),
       IF d.kind = "function" /\ d.name # "default" THEN d.bound ELSE {}, d.uses)
  \cup UNION {Uses(Id(p, IF m.method THEN d.name ELSE Nothing, IF m.method THEN m.name ELSE d.name),
                   IF m.method THEN m.bound ELSE {}, m.uses) : m \in d.members}

\* `import { a as b }` is a reference to b, `export { a as b }` one to a.
References(p, s) ==
  {Reference(i.as, "import", FALSE, File(p)) : i \in {j \in s.imports : j.form = "named"}}
  \cup {Reference(e.local, "export", FALSE, File(p)) :
          e \in {x \in ToSet(s.exports) : x.name # "*" /\ x.local # Nothing}}
  \cup UNION {UsesOf(p, d) : d \in s.decls}

Import(form, from, name, as) ==
  [form |-> form, from |-> from, name |-> name, as |-> as, file |-> Nothing]
Imports(s) ==
  {Import(i.form, i.from, i.name, i.as) : i \in s.imports}
  \cup {Import("reExport", e.from, IF e.name = "*" THEN "*" ELSE e.local,
               IF e.name = "*" THEN Nothing ELSE e.name) :
          e \in {x \in ToSet(s.exports) : x.from # Nothing}}

\* A declaration that carries `export` is one of the exports.
Export(name, local, from) == [name |-> name, local |-> local, from |-> from, file |-> Nothing]
Exports(s) ==
  LET declared == {d \in s.decls : d.exported} IN
  [i \in DOMAIN s.exports |-> Export(s.exports[i].name, s.exports[i].local, s.exports[i].from)]
  \o SetToSeq({Export(IF d.default THEN "default" ELSE d.name, d.name, Nothing) : d \in declared})

Analyzed(p, s) ==
  [path |-> p, symbols |-> Symbols(p, s), references |-> References(p, s),
   imports |-> Imports(s), exports |-> Exports(s)]

-----------------------------------------------------------------------------
(* link(): specifiers to files, then names to declarations.                *)
IsExternal(specifier) == specifier.package
First(ps, among) ==
  LET found == {i \in DOMAIN ps : ps[i] \in among}
  IN IF found = {} THEN Nothing ELSE ps[Min(found)]

\* `./x` and `./x.js` both stand for x.ts; a directory stands for its index.
Candidates(specifier) ==
  LET On(stem) == [i \in DOMAIN Extension |-> [stem |-> stem, ext |-> Extension[i]]] IN
  << [stem |-> specifier.stem, ext |-> specifier.ext] >>
  \o (IF specifier.ext \in Emitted \cup {""} THEN On(specifier.stem) ELSE <<>>)
  \o (IF specifier.ext = "" THEN On(IndexOf(specifier.stem)) ELSE <<>>)
ResolveSpecifier(specifier, paths) ==
  IF IsExternal(specifier) THEN Nothing ELSE First(Candidates(specifier), paths)

PathsOf(files) == {f.path : f \in files}
FileAt(files, p) == CHOOSE f \in files : f.path = p

\* A record that does not resolve (any more) is left as it was.
WithImports(files) ==
  LET at(r) == LET p == ResolveSpecifier(r.from, PathsOf(files))
               IN IF p = Nothing THEN r ELSE [r EXCEPT !.file = p]
  IN {[f EXCEPT !.imports = {at(r) : r \in f.imports},
                !.exports = [i \in DOMAIN f.exports |->
                   IF f.exports[i].from = Nothing THEN f.exports[i] ELSE at(f.exports[i])]] :
        f \in files}

MaxExportDepth == 10

\* What files export, and what they declare of their own.
ExportsOf(files) == [p \in PathsOf(files) |-> FileAt(files, p).exports]
Declared(files) ==
  [p \in PathsOf(files) |-> {s.name : s \in {t \in FileAt(files, p).symbols : t.container = Nothing}}]

\* resolveIn(): the declaration that asking a file for a name leads to.
ResolveIn(exports, declared, path, name) ==
  LET In[depth \in 0 .. MaxExportDepth + 1, p \in DOMAIN exports \cup {Nothing}, n \in STRING] ==
        IF depth > MaxExportDepth \/ p = Nothing THEN Nothing
        ELSE LET named == SelectSeq(exports[p], LAMBDA e : e.name = n)
                 local == IF named = <<>> THEN n ELSE Head(named).local
                 stars == SelectSeq(exports[p], LAMBDA e : e.name = "*")
                 found == SelectSeq([i \in DOMAIN stars |-> In[depth + 1, stars[i].file, n]],
                                    LAMBDA d : d # Nothing)
             IN IF named # <<>> /\ Head(named).from # Nothing
                THEN In[depth + 1, Head(named).file, local]
                ELSE IF local \in declared[p] THEN Id(p, Nothing, local)
                ELSE IF found = <<>> THEN Nothing ELSE Head(found)
  IN In[0, path, name]

\* buildExportTable(): only names that a file exports one by one are asked for.
Exported(files, p, name) ==
  IF p # Nothing /\ \E e \in ToSet(FileAt(files, p).exports) : e.name = name /\ name # "*"
  THEN ResolveIn(ExportsOf(files), Declared(files), p, name) ELSE Nothing

Bindings(files, f) ==
  {i \in f.imports : i.file # Nothing /\ i.name \notin {"*", Nothing}
                     /\ Exported(files, i.file, i.name) # Nothing}
Bound(i) == IF i.as = Nothing THEN i.name ELSE i.as

\* What an imported name stands for, else a declaration of the file itself.
Target(files, f, name) ==
  LET imported == {Exported(files, i.file, i.name) :
                     i \in {b \in Bindings(files, f) : Bound(b) = name}}
  IN IF imported # {} THEN CHOOSE d \in imported : TRUE
     ELSE IF \E s \in f.symbols : s.container = Nothing /\ s.name = name
          THEN Id(f.path, Nothing, name) ELSE Nothing
FromPackage(f, name) == \E i \in f.imports : IsExternal(i.from) /\ Bound(i) = name /\ name # "*"

\* A member's owner is not known; a name that leads nowhere stays as it was.
Resolved(files, f, r) ==
  LET target == Target(files, f, r.name) IN
  IF r.member THEN r
  ELSE IF target # Nothing THEN [r EXCEPT !.target = target]
  ELSE IF FromPackage(f, r.name) THEN [r EXCEPT !.external = TRUE] ELSE r

Link(files) ==
  LET with == WithImports(files) IN
  {[f EXCEPT !.references = {Resolved(with, f, r) : r \in f.references}] : f \in with}

\* Seeded bug: only the file that was read again is linked again.
UpdatedAlone(files, p, s) ==
  LET others == {f \in files : f.path # p}
  IN others \cup {f \in Link(others \cup {Analyzed(p, s)}) : f.path = p}

\* updateFile(): one file read again, and all of them linked again.
Updated(files, p, s) == Link({f \in files : f.path # p} \cup {Analyzed(p, s)})

-----------------------------------------------------------------------------
(* The builds of a session.                                                *)
Idle == [state |-> "idle", todo |-> <<>>, got |-> {}]
Present == {p \in Path : disk[p] # Nothing}
Readable == {p \in Path : disk[p] \notin TooLarge \cup {Nothing}}

Init ==
  /\ disk \in Projects
  /\ build = [b \in Builds |-> Idle]
  /\ index = {} /\ latest = Nothing /\ changed = {} /\ saves = 0
  /\ missed = [b \in Builds |-> {}]

Save(p) ==
  /\ saves < Saves
  /\ \E s \in (Source \cup {Nothing}) \ {disk[p]} : disk' = [disk EXCEPT ![p] = s]
  /\ saves' = saves + 1
  /\ changed' = changed \cup {b \in Builds : build[b].state # "idle"}
  /\ UNCHANGED <<build, index, latest, missed>>

\* The listing stops at its limit, which directories and other files count for,
\* and passes over directories it cannot read; build() does not ask whether it
\* was cut.
List(b) ==
  /\ build[b].state = "idle"
  /\ \E listed \in SUBSET Present :
       /\ Cardinality(Present \ listed) <= MaxMissed
       /\ build' = [build EXCEPT ![b].state = "reading", ![b].todo = SetToSeq(listed)]
       /\ missed' = [missed EXCEPT ![b] = Present \ listed]
  /\ UNCHANGED <<disk, index, latest, changed, saves>>

\* A file that is gone, too large, or cannot be read is skipped.
Read(b) ==
  /\ build[b].state = "reading" /\ build[b].todo # <<>>
  /\ \E fails \in BOOLEAN :
       LET p == Head(build[b].todo)
           read == IF fails \/ p \notin Readable THEN {} ELSE {Analyzed(p, disk[p])}
       IN /\ fails => Cardinality(missed[b]) < MaxMissed
          /\ build' = [build EXCEPT ![b].todo = Tail(@), ![b].got = @ \cup read]
          /\ missed' = IF fails THEN [missed EXCEPT ![b] = @ \cup {p}] ELSE missed
  /\ UNCHANGED <<disk, index, latest, changed, saves>>

\* Seeded bug: an index is published before it is linked.
FinishUnlinked(b) ==
  /\ build[b].state = "reading" /\ build[b].todo = <<>>
  /\ index' = build[b].got /\ latest' = b
  /\ build' = [build EXCEPT ![b].state = "done"]
  /\ UNCHANGED <<disk, changed, missed, saves>>

\* The graph is built of the index in the same step (CodeGraph); the store
\* gets a projection of both, which is never read back.
Finish(b) ==
  /\ build[b].state = "reading" /\ build[b].todo = <<>>
  /\ index' = Link(build[b].got) /\ latest' = b
  /\ build' = [build EXCEPT ![b].state = "done"]
  /\ UNCHANGED <<disk, changed, missed, saves>>

Next ==
  \/ \E p \in Path : Save(p)
  \/ \E b \in Builds : List(b) \/ Read(b) \/ Finish(b)

Spec == Init /\ [][Next]_vars

-----------------------------------------------------------------------------
(* What the language binds a name to, over the links of an index.  Meant   *)
(* follows at most n files; stars and exports of imported names only when  *)
(* every way is followed.                                                  *)
Meant(files, every, path, name) ==
  LET M[n \in 0 .. Cardinality(files), p \in PathsOf(files) \cup {Nothing}, x \in STRING] ==
        IF n = 0 \/ p = Nothing THEN {}
        ELSE LET f == FileAt(files, p)
                 named == {e \in ToSet(f.exports) : e.name = x}
                 stars == {e \in ToSet(f.exports) : e.name = "*" /\ x # "default" /\ every}
                 own(e) == {s.id : s \in {t \in f.symbols : t.container = Nothing /\ t.name = e.local}}
                 passed(e) == {i \in f.imports : every /\ Bound(i) = e.local /\ i.form \in {"named", "default"}}
             IN IF named = {} THEN UNION {M[n - 1, e.file, x] : e \in stars}
                ELSE UNION {IF e.from # Nothing THEN M[n - 1, e.file, e.local]
                            ELSE own(e) \cup UNION {M[n - 1, i.file, i.name] : i \in passed(e)} :
                              e \in named}
  IN M[Cardinality(files), path, name]

Meaning(files, every, f, name) ==
  {s.id : s \in {t \in f.symbols : t.container = Nothing /\ t.name = name}}
  \cup UNION {Meant(files, every, i.file, i.name) :
                i \in {j \in f.imports : Bound(j) = name /\ j.form \in {"named", "default"}}}

\* Names a re-export claims although it binds nothing in its file.
Claimed(f) == {Bound(i) : i \in {j \in f.imports : j.form = "reExport"}}
IsPrivate(files, id) ==
  \E s \in FileAt(files, id[1]).symbols : s.id = id /\ ~s.exported

(* A reference names the declaration the language binds its name to, and   *)
(* every name that is handed on name by name is resolved (link()).  Left   *)
(* out are a name the file re-exports, an import of what is not exported,  *)
(* and a private declaration resolveIn() takes for the export of its file. *)
NamesMeanTheirDeclaration ==
  \A f \in index : \A r \in {x \in f.references : ~x.member /\ x.name \notin Claimed(f)} :
    /\ \/ r.target \in Meaning(index, TRUE, f, r.name) \cup {Nothing}
       \/ Meaning(index, TRUE, f, r.name) = {} /\ \E i \in f.imports : Bound(i) = r.name
       \/ r.target[1] # f.path /\ IsPrivate(index, r.target)
    /\ Meaning(index, FALSE, f, r.name) \subseteq {r.target}

(* Once a build is over that no save overtook, the index is that of the    *)
(* files the reader takes, but for those the listing left out and those it *)
(* could not read (Indexer.build()).  A build that a save overtook leaves  *)
(* the index behind the files when it is the last to end.                  *)
IndexCatchesUp ==
  latest # Nothing /\ latest \notin changed =>
    index = Link({Analyzed(p, disk[p]) : p \in Readable \ missed[latest]})

Unlinked(f) ==
  [f EXCEPT !.references = {[r EXCEPT !.target = Nothing, !.external = FALSE] : r \in @},
            !.imports = {[i EXCEPT !.file = Nothing] : i \in @},
            !.exports = [i \in DOMAIN @ |-> [@[i] EXCEPT !.file = Nothing]]]

(* Reading one file again loses nothing: what linking from nothing would   *)
(* resolve, in any file, the updated index resolves the same               *)
(* (Indexer.updateFile(), of a file within the limits).                    *)
UpdatesLoseNothing ==
  \A p \in Readable :
    LET updated == Updated(index, p, disk[p])
        fresh == Link({Unlinked(f) : f \in updated})
    IN \A f \in fresh :
         LET g == FileAt(updated, f.path) IN
         /\ g.imports = f.imports /\ g.exports = f.exports
         /\ \A r \in f.references : r.target # Nothing =>
              \E x \in g.references : [x EXCEPT !.external = FALSE] = r
=============================================================================
