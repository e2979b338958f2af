----------------------------- MODULE PromptBudget -----------------------------
(***************************************************************************)
(* What is put into a prompt under a budget: the declarations of the code  *)
(* that a question is about (retrieval.ts), the skills that apply to a run *)
(* (registry.ts of the skill engine) and what was remembered of earlier    *)
(* runs (store.ts of packages/memory).                                     *)
(* Names and ids are numbers in the order they are sorted; a token is a    *)
(* sequence of parts of a word, so that one may begin another.  Patterns   *)
(* that tell credentials from facts are data, wording is left out.         *)
(***************************************************************************)
EXTENDS Integers, Sequences, FiniteSets, SequencesExt, Selection

Bytes(seq) == FoldLeft(LAMBDA n, x : n + x.bytes, 0, seq)

\* collect() and select(): in order of rank, what still fits. A skill that comes
\* first is taken however large it is.
Fits(taken, x, most, bytes, first) ==
  /\ Len(taken) < most
  /\ Bytes(taken) + x.bytes <= bytes \/ (first /\ taken = <<>>)
Filled(ranked, most, bytes, first) ==
  FoldLeft(LAMBDA taken, x : IF Fits(taken, x, most, bytes, first) THEN Append(taken, x) ELSE taken,
           <<>>, ranked)

-----------------------------------------------------------------------------
(* retrieve(): an index is its declarations, the imports between its files *)
(* and who uses what how often.                                            *)
\* Scores times twelve for each term, which makes all of them whole.
Unit(query) == 12 * IF query.terms = <<>> THEN 1 ELSE Len(query.terms)
SeedSymbol == 100
SeedFile == 40
ExpandedBy(query, hops) == (8 * Unit(query)) \div hops

Overlaps(tokens, term) == \E t \in tokens : IsPrefix(t, term) \/ IsPrefix(term, t)

\* The first field a term is found in counts: a name says what a thing is.
FieldWeight(symbol, term) ==
  CASE Overlaps(symbol.name, term) -> 6
    [] ~Overlaps(symbol.name, term) /\ Overlaps(symbol.path, term) -> 3
    [] ~Overlaps(symbol.name \cup symbol.path, term) /\ Overlaps(symbol.doc, term) -> 2
    [] ~Overlaps(symbol.name \cup symbol.path \cup symbol.doc, term)
       /\ Overlaps(symbol.signature, term) -> 1
    [] OTHER -> 0
TextScore(symbol, terms) ==
  IF symbol.inner THEN 0
  ELSE FoldLeft(LAMBDA n, t : n + FieldWeight(symbol, t), 0, terms)
       * (IF symbol.exported THEN 18 ELSE 12)

\* The hop at which a file is met, breadth first and either way along imports.
\* Seeded bug: imports are followed one way.
Imported(index, files) ==
  {g \in index.files : \E f \in files : <<f, g>> \in index.imports}
Neighbours(index, files) ==
  {g \in index.files : \E f \in files : {<<f, g>>, <<g, f>>} \cap index.imports # {}}
Met(index, files, hops) ==
  LET M[n \in 0 .. hops] == IF n = 0 THEN files ELSE M[n - 1] \cup Neighbours(index, M[n - 1])
  IN M[hops]
Hops(index, query, file) ==
  {n \in 1 .. query.depth : file \in Met(index, query.files, n) \ Met(index, query.files, n - 1)}

SeedScore(index, query, s) ==
  (IF s.id \in query.symbols THEN SeedSymbol * Unit(query) ELSE 0)
  + ExpandedBy(query, 1)
    * Cardinality({i \in DOMAIN index.uses : index.uses[i].from = s.id /\ index.uses[i].to \in query.symbols})
  + (IF ~s.inner /\ s.file \in query.files THEN SeedFile * Unit(query) ELSE 0)
  + (IF s.inner \/ ~s.exported THEN 0
     ELSE FoldSet(LAMBDA n, total : total + ExpandedBy(query, n), 0, Hops(index, query, s.file)))
RetrievalScore(index, query, s) == SeedScore(index, query, s) + TextScore(s, query.terms)

RankedSymbols(index, query) ==
  LET scored == {[of |-> s, score |-> RetrievalScore(index, query, s)] : s \in index.symbols}
      order == Ranked({e \in scored : e.score > 0},
                 LAMBDA l, r : l.score > r.score \/ (l.score = r.score /\ l.of.id < r.of.id))
  IN [i \in DOMAIN order |-> order[i].of]
Retrieve(index, query) ==
  Filled(RankedSymbols(index, query), query.maxItems, query.maxBytes, FALSE)

-----------------------------------------------------------------------------
(* SkillRegistry: skills in the order they are added, one for each name.   *)
AddSkill(skills, skill) ==
  IF \E s \in skills : s.name = skill.name /\ s.source = "project" /\ skill.source = "shipped"
  THEN skills
  ELSE {s \in skills : s.name # skill.name} \cup {skill}
Registry(added) == FoldLeft(AddSkill, {}, added)

\* scoreOne(): a skill for what the project does not have is wrong for it,
\* whatever the words.
\* Seeded bug: not even what was asked for, when a dependency is missing.
NotForAnyway(skill, context) ==
  skill.requires # {} /\ skill.requires \cap context.dependencies = {}
NotFor(skill, context) ==
  /\ skill.requires # {} /\ skill.requires \cap context.dependencies = {}
  /\ skill.name \notin context.requested
SkillScore(skill, context) ==
  IF NotFor(skill, context) THEN 0
  ELSE (IF skill.name \in context.requested THEN 1000 ELSE 0)
       + (IF skill.always THEN 500 ELSE 0)
       + 60 * Cardinality(skill.requires \cap context.dependencies)
       + (IF context.task \in skill.tasks THEN 30 ELSE 0)
       + 20 * Cardinality(skill.extensions \cap context.extensions)
       + 8 * Cardinality(skill.keywords \cap context.terms)
       + LET hits == Cardinality({i \in DOMAIN skill.words : skill.words[i] \in context.terms})
         IN 4 * (IF hits < 3 THEN hits ELSE 3)

RankedSkills(skills, context) ==
  LET scored == {[of |-> s, score |-> SkillScore(s, context)] : s \in skills}
      order == Ranked({e \in scored : e.score > 0},
                 LAMBDA l, r : \/ l.score > r.score
                               \/ l.score = r.score /\ l.of.bytes < r.of.bytes
                               \/ /\ l.score = r.score /\ l.of.bytes = r.of.bytes
                                  /\ l.of.name < r.of.name)
  IN [i \in DOMAIN order |-> order[i].of]
SelectSkills(skills, context, most, bytes) ==
  Filled(RankedSkills(skills, context), most, bytes, TRUE)

-----------------------------------------------------------------------------
(* The memory store: an entry for each scope and key.                      *)
ScopePrecedence == <<"task", "project", "global">>
NoEntries == [id \in {} |-> {}]
Put(entries, e) ==
  [id \in DOMAIN entries \cup {<<e.scope, e.key>>} |-> IF id = <<e.scope, e.key>> THEN e ELSE entries[id]]
Without(entries, gone) == [id \in DOMAIN entries \ gone |-> entries[id]]

Entry(op, created) ==
  [scope |-> op.scope, key |-> op.key, value |-> op.value, bytes |-> op.bytes,
   created |-> created, updated |-> op.at]
\* A belief keeps the time it was formed; what looks like a credential or is no
\* valid entry is refused.
Remember(entries, op) ==
  IF op.credential \/ ~op.valid THEN entries
  ELSE Put(entries, Entry(op, IF <<op.scope, op.key>> \in DOMAIN entries
                              THEN entries[<<op.scope, op.key>>].created ELSE op.at))
\* Seeded bug: what was persisted is taken as it is.
HydrateUnchecked(entries, op) == Put(entries, Entry(op, op.at))
\* One persisted entry; it replaces what is there.
Hydrate(entries, op) ==
  IF ~op.valid \/ op.credential THEN entries ELSE Put(entries, Entry(op, op.at))
Forget(entries, op) == Without(entries, {<<op.scope, op.key>>})
ForgetScope(entries, scope) == Without(entries, {id \in DOMAIN entries : id[1] = scope})
Step(entries, op) ==
  CASE op.do = "remember" -> Remember(entries, op)
    [] op.do = "hydrate" -> Hydrate(entries, op)
    [] op.do = "forget" -> Forget(entries, op)
    [] op.do = "forgetScope" -> ForgetScope(entries, op.scope)
After(ops) == FoldLeft(Step, NoEntries, ops)

RecallAll(entries, key) ==
  LET holding == Picked(ScopePrecedence,
                        {i \in DOMAIN ScopePrecedence : <<ScopePrecedence[i], key>> \in DOMAIN entries})
  IN [i \in DOMAIN holding |-> entries[<<holding[i], key>>]]
Keys(entries) == {id[2] : id \in DOMAIN entries}
Effective(entries) == {Head(RecallAll(entries, key)) : key \in Keys(entries)}

\* The latest first, until one does not fit: the rest is left out with it.
Render(entries, most, chars) ==
  LET ranked == Ranked(Effective(entries),
        LAMBDA l, r : l.updated > r.updated \/ (l.updated = r.updated /\ l.key < r.key))
      fitting == {n \in 0 .. Len(ranked) : n <= most /\ (n <= 1 \/ Bytes(SubSeq(ranked, 1, n)) <= chars)}
  IN SubSeq(ranked, 1, CHOOSE n \in fitting : \A m \in fitting : m <= n)

-----------------------------------------------------------------------------
(* What retrieve(), the registry and the memory store are given, as far as *)
(* their answers depend on it; the proofs assume it of their input.        *)
\* An index: declarations with an id of their own, in files of it, and the
\* imports between those.
ImportsAmongFiles(code) == code.imports \subseteq code.files \X code.files
IsCode(code) ==
  /\ IsFiniteSet(code.symbols) /\ IsFiniteSet(DOMAIN code.uses) /\ ImportsAmongFiles(code)
  /\ \A s \in code.symbols : /\ s.id \in Int /\ s.bytes \in Nat /\ s.file \in code.files
                             /\ s.inner \in BOOLEAN /\ s.exported \in BOOLEAN
  /\ \A s, t \in code.symbols : s.id = t.id => s = t
\* A question. Up to four hops the shares of a score are whole numbers.
IsQuestion(query) ==
  /\ query.terms \in Seq(ToSet(query.terms))
  /\ query.depth \in 0..4 /\ query.maxItems \in Nat /\ query.maxBytes \in Nat

IsSkill(s) ==
  /\ s.name \in Int /\ s.bytes \in Nat /\ s.source \in {"project", "shipped"} /\ s.always \in BOOLEAN
  /\ IsFiniteSet(s.requires) /\ IsFiniteSet(s.extensions) /\ IsFiniteSet(s.keywords)
  /\ IsFiniteSet(DOMAIN s.words)
\* A call of the memory store.
Scope == {"task", "project", "global"}
IsOp(op) ==
  /\ op.do \in {"remember", "hydrate", "forget", "forgetScope"}
  /\ op.scope \in Scope /\ op.key \in Int /\ op.bytes \in Nat /\ op.at \in Int
  /\ op.valid \in BOOLEAN /\ op.credential \in BOOLEAN

-----------------------------------------------------------------------------
(* What is put into a prompt stays in its budget, but for one skill or     *)
(* memory that is larger than it, and nothing is left out that has room.   *)
InBudget(taken, most, bytes, first) ==
  Len(taken) <= most /\ (Bytes(taken) <= bytes \/ (first /\ Len(taken) = 1))
NothingHasRoom(taken, out, most, bytes) ==
  \A x \in out : Len(taken) = most \/ Bytes(taken) + x.bytes > bytes
\* What is left out made room for nothing that ranks below it and is as large.
NothingOvertakes(taken, ranked) ==
  \A i, j \in DOMAIN ranked :
    i < j /\ ranked[i] \notin ToSet(taken) /\ ranked[j] \in ToSet(taken) =>
      ranked[j].bytes < ranked[i].bytes

\* A walk along imports, in either direction, of at most n steps.
Walk(index, from, to, n) ==
  \E k \in 1 .. n : \E w \in [0 .. k -> index.files] :
    /\ w[0] \in from /\ w[k] = to
    /\ \A i \in 1 .. k : {<<w[i - 1], w[i]>>, <<w[i], w[i - 1]>>} \cap index.imports # {}
Named(query, s) == s.id \in query.symbols \/ (~s.inner /\ s.file \in query.files)
UsesNamed(index, query, s) == \E u \in ToSet(index.uses) : u.from = s.id /\ u.to \in query.symbols
Near(index, query, s) == ~s.inner /\ s.exported /\ Walk(index, query.files, s.file, query.depth)
Says(query, s) ==
  ~s.inner /\ \E t \in ToSet(query.terms) :
                Overlaps(s.name \cup s.path \cup s.doc \cup s.signature, t)

(* A question gets the declarations it has to do with, those it names      *)
(* before those that only share its words (retrieve()).                    *)
RetrievalIsRelevant(index, query) ==
  LET ranked == RankedSymbols(index, query) items == Retrieve(index, query) IN
  /\ InBudget(items, query.maxItems, query.maxBytes, FALSE)
  /\ NothingHasRoom(items, ToSet(ranked) \ ToSet(items), query.maxItems, query.maxBytes)
  /\ NothingOvertakes(items, ranked)
  /\ ToSet(ranked) = {s \in index.symbols : \/ Named(query, s) \/ UsesNamed(index, query, s)
                                            \/ Near(index, query, s) /\ s.file \notin query.files
                                            \/ Says(query, s)}
  /\ \A i, j \in DOMAIN ranked :
       /\ Named(query, ranked[i])
       /\ ~Named(query, ranked[j]) /\ ~UsesNamed(index, query, ranked[j])
       => i < j

(* A project's own skill stands for its name whatever is added after it,   *)
(* and a run is given the skills that apply to it: none for a dependency   *)
(* it lacks, unless it asks for that one, and those it asks for before all *)
(* whose words, dependencies and extensions do not add up to the thousand  *)
(* that asking counts for; scoreOne() adds them without a bound (add(),    *)
(* select()).                                                              *)
SkillsApply(added, context, most, bytes) ==
  LET skills == Registry(added)
      ranked == RankedSkills(skills, context)
      taken == SelectSkills(skills, context, most, bytes)
      all(n) == {i \in DOMAIN added : added[i].name = n}
      own(n) == {i \in all(n) : added[i].source = "project"}
  IN /\ skills = {added[Max(IF own(n) # {} THEN own(n) ELSE all(n))] : n \in {s.name : s \in ToSet(added)}}
     /\ InBudget(taken, most, bytes, TRUE)
     /\ NothingHasRoom(taken, ToSet(ranked) \ ToSet(taken), most, bytes)
     /\ NothingOvertakes(taken, ranked)
     /\ \A s \in ToSet(taken) :
          s.requires \cap context.dependencies # {} \/ s.requires = {} \/ s.name \in context.requested
     /\ \A s \in skills :
          s.name \in context.requested \/ (s.always /\ s.requires = {}) => s \in ToSet(ranked)
     /\ \A i, j \in DOMAIN ranked :
          /\ ranked[i].name \in context.requested /\ ranked[j].name \notin context.requested
          /\ SkillScore(ranked[j], context) < 1000
          => i < j

\* The same calls, but for those on one scope.
Outside(ops, scope) == Picked(ops, {i \in DOMAIN ops : ops[i].scope # scope})

(* A task leaves no trace once its scope is dropped; what the store holds  *)
(* is no credential and was last said so; and what a prompt is told of it  *)
(* is in the budget and no older than what it is not told (remember(),     *)
(* forgetScope(), render()).                                               *)
MemoryIsScoped(ops, most, chars) ==
  LET entries == After(ops) told == Render(entries, most, chars) IN
  /\ ForgetScope(entries, "task") = After(Outside(ops, "task"))
  /\ \A id \in DOMAIN entries : \E i \in DOMAIN ops :
       /\ <<ops[i].scope, ops[i].key, ops[i].value>> = id \o <<entries[id].value>>
       /\ ops[i].do \in {"remember", "hydrate"} /\ ~ops[i].credential
       /\ \A j \in i + 1 .. Len(ops) : ops[j].scope = id[1] /\ ops[j].valid /\ ~ops[j].credential =>
            ops[j].do # "forgetScope" /\ ops[j].key # id[2]
  /\ InBudget(told, most, chars, TRUE)
  /\ \A x \in ToSet(told), y \in Effective(entries) \ ToSet(told) : x.updated >= y.updated
=============================================================================
