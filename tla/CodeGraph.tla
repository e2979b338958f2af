------------------------------ MODULE CodeGraph ------------------------------
(***************************************************************************)
(* The graph of an index (graph.ts) and what is asked of it (impact.ts):   *)
(* what a change reaches, and which files import each other in a circle.   *)
(* Nodes are the ids of CodeIndex, those of files included; edges that     *)
(* differ in their count only are one.                                     *)
(***************************************************************************)
EXTENDS CodeIndex

Edge(from, to, kind) == [from |-> from, to |-> to, kind |-> kind]

NodesOf(files) == {File(f.path) : f \in files} \cup UNION {{s.id : s \in f.symbols} : f \in files}

FileEdges(f) ==
  {Edge(File(f.path), File(i.file), IF i.form = "reExport" THEN "reExports" ELSE "imports") :
     i \in {j \in f.imports : j.file # Nothing}}
  \cup {Edge(File(f.path), s.id, "declares") : s \in f.symbols}

\* The file of a declaration depends on what the declaration does.
SymbolEdges(f) ==
  {Edge(s.id, Id(f.path, Nothing, s.container), "memberOf") :
     s \in {t \in f.symbols : t.container # Nothing}}
  \cup UNION {{Edge(r.in, r.target, r.kind), Edge(File(f.path), r.target,
                 IF r.in = File(f.path) THEN r.kind ELSE "references")} :
                r \in {x \in f.references : x.target # Nothing}}

\* An edge from a node to itself, or to one the index lacks, is dropped.
EdgesOf(files) ==
  {e \in UNION {FileEdges(f) \cup SymbolEdges(f) : f \in files} :
     e.from # e.to /\ {e.from, e.to} \subseteq NodesOf(files)}

-----------------------------------------------------------------------------
(* reach(): breadth first against the edges, until the cap.                *)
Structural == {"declares", "memberOf"}
\* Seeded bug: a file depends on whatever it declares.
DependentsAny(edges, id) == {e.from : e \in {x \in edges : x.to = id}}
Dependents(edges, id) == {e.from : e \in {x \in edges : x.to = id /\ x.kind \notin Structural}}

\* One node of the frontier after the other, one neighbour after the other.
Visit(edges, cap, depth, acc, id) ==
  FoldLeft(LAMBDA a, n :
             IF n \in DOMAIN a.seen \/ a.full THEN a
             ELSE [seen |-> a.seen @@ (n :> depth), next |-> Append(a.next, n),
                   full |-> Cardinality(DOMAIN a.seen) + 1 >= cap],
           acc, SetToSeq(Dependents(edges, id)))
Level(edges, cap, acc, depth) ==
  IF acc.full THEN acc
  ELSE FoldLeft(LAMBDA a, id : Visit(edges, cap, depth, a, id),
                [acc EXCEPT !.next = <<>>], acc.next)
Reach(edges, start, depth, cap) ==
  FoldLeft(LAMBDA a, d : Level(edges, cap, a, d),
           [seen |-> (start :> 0), next |-> <<start>>, full |-> FALSE],
           [d \in 1 .. depth |-> d]).seen

(* analyzeImpact()                                                         *)
Impact(files, target, depth, cap) ==
  LET reached == Reach(EdgesOf(files), target, depth, cap)
      affected == DOMAIN reached \ {target}
      opened == {id[1] : id \in affected \cup {target}}
  IN [affected |-> affected, distance |-> reached, files |-> opened,
      truncated |-> Cardinality(affected) >= cap - 1,
      blindSpots |-> {<<f.path, r.name>> : <<f, r>> \in
        {x \in UNION {{f} \X f.references : f \in {g \in files : g.path \in opened}} :
           x[2].name = target[3] /\ x[2].target = Nothing /\ ~x[2].external}}]

-----------------------------------------------------------------------------
(* findImportCycles(): depth first, one circle for every import back into  *)
(* the path that is being followed.                                        *)
ImportsOf(edges, p) ==
  {e.to[1] : e \in {x \in edges : x.from = File(p) /\ x.kind \in {"imports", "reExports"}}}

RECURSIVE VisitAll(_, _, _, _)
VisitFile(edges, acc, stack, p) ==
  IF p \in acc.done THEN acc
  ELSE IF \E i \in DOMAIN stack : stack[i] = p
  THEN [acc EXCEPT !.cycles =
          Append(@, SubSeq(stack, CHOOSE i \in DOMAIN stack : stack[i] = p, Len(stack)))]
  ELSE LET inner == VisitAll(edges, acc, Append(stack, p), SetToSeq(ImportsOf(edges, p)))
       IN [inner EXCEPT !.done = @ \cup {p}]
VisitAll(edges, acc, stack, ps) ==
  IF ps = <<>> THEN acc
  ELSE VisitAll(edges, VisitFile(edges, acc, stack, Head(ps)), stack, Tail(ps))

ImportCycles(files) ==
  VisitAll(EdgesOf(files), [done |-> {}, cycles |-> <<>>], <<>>, SetToSeq(PathsOf(files))).cycles

\* findUnreferencedSymbols(): declared, contained or exposed, but not used.
Unreferenced(files) ==
  {s \in UNION {f.symbols : f \in files} :
     \A e \in EdgesOf(files) : e.to = s.id =>
       e.kind \in Structural \cup {"import", "export"}}

-----------------------------------------------------------------------------
(* What uses what, over the meaning of names and not over edges: a         *)
(* declaration uses what it or a member of it names.                       *)
UsedIn(files, f, in) ==
  UNION {Meaning(files, FALSE, f, r.name) :
           r \in {x \in f.references : /\ ~x.member /\ x.name \notin Claimed(f)
                                       /\ x.in[1] = in[1] /\ in \in {x.in, Id(f.path, Nothing, x.in[2])}}}
UsersWithin(files, target, n) ==
  LET users == {d \in NodesOf(files) : d[2] = Nothing /\ d[3] # Nothing}
      uses == UNION {{d} \X UsedIn(files, FileAt(files, d[1]), d) : d \in users}
      R[k \in 0 .. n] == IF k = 0 THEN {target}
                         ELSE R[k - 1] \cup {pair[1] : pair \in {q \in uses : q[2] \in R[k - 1]}}
  IN R[n]

(* A change reaches the file of everything that uses what is changed,      *)
(* directly or not, or the report says that it is partial; what it says is *)
(* affected depends on the change (analyzeImpact()).                       *)
ImpactReachesUsers ==
  LET edges == EdgesOf(index) IN
  \A target \in {s.id : s \in UNION {f.symbols : f \in index}}, cap \in {2, 100} :
    LET report == Impact(index, target, Cardinality(NodesOf(index)), cap) IN
    /\ report.truncated
         \/ {u[1] : u \in UsersWithin(index, target, Cardinality(index))} \subseteq report.files
    /\ \A id \in report.affected : \E e \in edges :
         /\ e.from = id /\ e.kind \notin Structural /\ e.to \in DOMAIN report.distance
         /\ report.distance[id] = report.distance[e.to] + 1

(* Files that import each other in a circle are reported, and what is      *)
(* reported is such a circle (findImportCycles()).                         *)
CirclesAreFound ==
  LET edges == EdgesOf(index)
      cycles == ToSet(ImportCycles(index))
      Ahead[n \in 0 .. Cardinality(index)] ==
        [p \in PathsOf(index) |-> IF n = 0 THEN ImportsOf(edges, p)
           ELSE Ahead[n - 1][p] \cup UNION {Ahead[n - 1][q] : q \in Ahead[n - 1][p]}]
      circular == {p \in PathsOf(index) : p \in Ahead[Cardinality(index)][p]}
  IN /\ \A c \in cycles : \A i \in DOMAIN c : c[(i % Len(c)) + 1] \in ImportsOf(edges, c[i])
     /\ (circular # {}) = (cycles # {})
     /\ \A p \in circular : \E c \in cycles :
          \A i \in DOMAIN c : c[i] = p \/ c[i] \in Ahead[Cardinality(index)][p]
=============================================================================
