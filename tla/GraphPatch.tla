----------------------------- MODULE GraphPatch -----------------------------
(***************************************************************************)
(* The repository graph of a language adapter: compiled once from all      *)
(* files and then patched, file by file, as the adapter is told of changed *)
(* contents.  A patch resolves again only the files it holds to be         *)
(* affected: the changed ones, those with an edge to a symbol that is gone *)
(* and those that call a name which a changed file defines.                *)
(*                                                                         *)
(* An adapter is of one language, and so is its graph.  The paths of Files *)
(* differ in more than their case.  A content stands for a source text and *)
(* its hash, TreeOf for what the parser of the language makes of it.       *)
(***************************************************************************)
EXTENDS GraphCompile, Bags

CONSTANTS
  EventMethods, ConfigCalls, ModelBases, TestNames, TestBases,   \* of PythonFacts
  Contents,
  TreeOf,         \* [Contents -> trees]
  Unparsable,     \* contents that are no syntax tree
  ContentsOf,     \* [Languages -> [Files -> SUBSET Contents]]: what a file may hold
  Absent,
  MaxChanges,     \* bound on the files that differ between two revisions
  MaxRevisions    \* bound on the patches of one graph

Languages == {"python", "typescript", "java"}

ASSUME ContentsAssumption ==
  /\ ContentsOf \in [Languages -> [Files -> SUBSET Contents]]
  /\ Absent \notin Contents
  /\ Unparsable \subseteq Contents

VARIABLES
  language,  \* of the adapter
  told,      \* the content of each file, as the adapter was last told
  graph,     \* RepositoryGraph
  raised,    \* validate has raised
  revision

vars == <<language, told, graph, raised, revision>>

Python == INSTANCE PythonFacts
TypeScript == INSTANCE TypeScriptFacts
Java == INSTANCE JavaFacts

ContentsIn(l) == UNION {ContentsOf[l][f] : f \in Files}

\* _index_single_file
FactsOf ==
  [c \in Contents |->
     IF c \in Unparsable THEN NoFacts
     ELSE IF c \in ContentsIn("python") THEN Python!FileIndex(TreeOf[c])
     ELSE IF c \in ContentsIn("typescript") THEN TypeScript!FileIndex(TreeOf[c])
     ELSE Java!FileIndex(TreeOf[c])]

\* FileContribution
Contribution(c) == [source_hash |-> c, facts |-> FactsOf[c]]

\* a text is of one language and ends; in TypeScript the function that is the value
\* of a variable has its name
ASSUME TreesAssumption ==
  /\ \A l, m \in Languages : l # m => ContentsIn(l) \intersect ContentsIn(m) = {}
  /\ \A c \in ContentsIn("python") \ Unparsable : Python!IsTree(TreeOf[c])
  /\ \A c \in ContentsIn("typescript") \ Unparsable :
       TypeScript!IsTree(TreeOf[c]) /\ TypeScript!ValuesNamed(TreeOf[c])
  /\ \A c \in ContentsIn("java") \ Unparsable : Java!IsText(TreeOf[c])

\* None is no contribution
ASSUME AbsentAssumption == \A c \in Contents : Contribution(c) # Absent

\* None is no identifier
ASSUME NoneAssumption ==
  \A c \in Contents, f \in Files :
    None \notin SymbolsIn(f, FactsOf[c]) \union ImportsIn(f, FactsOf[c])

Contribs(files) == [f \in DOMAIN files |-> files[f].facts]

Scope(files, symbols, imports, refs, named) ==
  LET open == [contribs |-> Contribs(files), symbols |-> symbols, imports |-> imports,
               refs |-> refs, named |-> named]
  IN [contribs |-> open.contribs, symbols |-> symbols, imports |-> imports,
      refs |-> refs, named |-> named, bases |-> Bases(open)]

\* the tables that hang on files: call edges, type edges and constructs
CallsIn(scope, fs) == SetToBag(UNION {FileCalls(scope, f) : f \in fs})
TypesIn(contribs, fs) == SetToBag(UNION {FileTypes(f, contribs[f]) : f \in fs})
ConstructsIn(contribs, fs) == SetToBag(UNION {FileConstructs(f, contribs[f]) : f \in fs})

AllSymbols(contribs, fs) == UNION {SymbolsIn(f, contribs[f]) : f \in fs}
AllImports(contribs, fs) == UNION {ImportsIn(f, contribs[f]) : f \in fs}

\* _build_index: files that do not parse are left out
Parsing(repo) == {f \in Files : repo[f] # Absent /\ repo[f] \notin Unparsable}

Indexed(repo) == [f \in Parsing(repo) |-> Contribution(repo[f])]

\* compile_graph
CompileGraph(files, order) ==
  LET fs == DOMAIN files
      contribs == Contribs(files)
      symbols == AllSymbols(contribs, fs)
      imports == AllImports(contribs, fs)
      named == CompileCandidates(symbols, imports, order)
      refs == [f \in fs |-> References(f, contribs[f].imports, named)]
  IN [files |-> files, symbols |-> symbols, imports |-> imports, refs |-> refs,
      calls |-> CallsIn(Scope(files, symbols, imports, refs, named), fs),
      types |-> TypesIn(contribs, fs), constructs |-> ConstructsIn(contribs, fs)]

(***************************************************************************)
(* GraphPatcher.patch.  "changed" gives changed paths their contribution,  *)
(* Absent for a deleted file.                                              *)
(***************************************************************************)
NewFacts(new) == IF new = Absent THEN NoFacts ELSE new.facts

AddedNames(changed) ==
  UNION {{s.name : s \in NewFacts(changed[f]).symbols} : f \in DOMAIN changed}

\* symbols whose name is gone from their file, and all imports of a changed file
Deleted(g, changed) ==
  UNION {LET old == g.files[f].facts
             kept == {s.name : s \in NewFacts(changed[f]).symbols}
         IN {id \in SymbolsIn(f, old) : NameOf(id) \notin kept} \union ImportsIn(f, old) :
           f \in DOMAIN changed \intersect DOMAIN g.files}

\* callers_of and importers_of
Users(g, ids) ==
  {e.file : e \in {e \in BagToSet(g.calls) : e.to \in ids}}
  \union {f \in DOMAIN g.refs : \E i \in DOMAIN g.refs[f] : g.refs[f][i][2] \in ids}

\* Mutant of Waiting: only calls that have no edge yet wait for a name
WaitingUnresolved(g, names) ==
  {f \in DOMAIN g.files : \E c \in g.files[f].facts.calls :
     /\ c.callee \in names
     /\ \A e \in BagToSet(g.calls) : e.file # f \/ e.call # c}

\* Mutant of Waiting: no file waits for a name
WaitingNone(g, names) == {}

\* waiting_files_for: every file that calls the name, resolved or not
Waiting(g, names) ==
  {f \in DOMAIN g.files : \E c \in g.files[f].facts.calls : c.callee \in names}

Affected(g, changed) ==
  DOMAIN changed \union Users(g, Deleted(g, changed)) \union Waiting(g, AddedNames(changed))

\* Mutant of Elsewhere: what affected files contributed stays
Everywhere(rows, fs) == rows

\* the rows of files that are not affected; an edge to a symbol that is gone is
\* a row of an affected file
Elsewhere(rows, fs) == [e \in {e \in DOMAIN rows : e.file \notin fs} |-> rows[e]]

\* of statements with the same first name a patch keeps the last
Kept(idx) ==
  Those(idx.imports,
    {i \in DOMAIN idx.imports : \A j \in DOMAIN idx.imports :
       j > i => idx.imports[j].names[1] # idx.imports[i].names[1]})

Patched(files, changed) ==
  [f \in (DOMAIN files \ DOMAIN changed) \union {f \in DOMAIN changed : changed[f] # Absent} |->
     IF f \in DOMAIN changed THEN changed[f] ELSE files[f]]

\* the affected files that are still there
Renewed(g, changed) == Affected(g, changed) \intersect DOMAIN Patched(g.files, changed)

\* symbols and imports of affected files are taken out and, from what their
\* contributions are now, put in again
PatchedSymbols(g, changed) ==
  {id \in g.symbols : FileOf(id) \notin Affected(g, changed)}
  \union AllSymbols(Contribs(Patched(g.files, changed)), Renewed(g, changed))

PatchedImports(g, changed) ==
  {id \in g.imports : FileOf(id) \notin Affected(g, changed)}
  \union AllImports(Contribs(Patched(g.files, changed)), Renewed(g, changed))

\* "named" is the naming that the order of the tables makes
Patch(g, changed, named) ==
  LET affected == Affected(g, changed)
      deleted == Deleted(g, changed)
      files == Patched(g.files, changed)
      contribs == Contribs(files)
      fs == Renewed(g, changed)
      symbols == PatchedSymbols(g, changed)
      imports == PatchedImports(g, changed)
      refs == [f \in DOMAIN files |->
                 IF f \in affected THEN References(f, Kept(contribs[f]), named)
                 ELSE Those(g.refs[f], {i \in DOMAIN g.refs[f] : g.refs[f][i][2] \notin deleted})]
  IN [files |-> files, symbols |-> symbols, imports |-> imports, refs |-> refs,
      calls |-> Elsewhere(g.calls, affected)
                (+) CallsIn(Scope(files, symbols, imports, refs, named), fs),
      types |-> Elsewhere(g.types, affected) (+) TypesIn(contribs, fs),
      constructs |-> Elsewhere(g.constructs, affected) (+) ConstructsIn(contribs, fs)]

\* validate: the table of symbols has another size than the contributions say
Mismatch(g) ==
  Cardinality(g.symbols) # Cardinality(AllSymbols(Contribs(g.files), DOMAIN g.files))

(***************************************************************************)
(* The calls of the adapter.                                               *)
(***************************************************************************)
Repos == {r \in [Files -> Contents \union {Absent}] :
            \A f \in Files : r[f] \in ContentsOf[language][f] \union {Absent}}

Differ(a, b) == {f \in Files : a[f] # b[f]}

Init ==
  /\ language \in Languages
  /\ told \in Repos
  /\ \E order \in Orders : graph = CompileGraph(Indexed(told), order)
  /\ raised = FALSE
  /\ revision = 0

Apply(changed) ==
  /\ IF DOMAIN changed = {}
     THEN graph' = graph
     ELSE \E again \in SetToSeqs(Renewed(graph, changed)) :
          \E named \in PatchNamings(PatchedSymbols(graph, changed),
                                    PatchedImports(graph, changed), again) :
            graph' = Patch(graph, changed, named)
  /\ raised' = (DOMAIN changed # {} /\ Mismatch(graph'))
  /\ revision' = revision + 1
  /\ UNCHANGED language

New(content) == IF content = Absent THEN Absent ELSE Contribution(content)

\* compile_incremental with all files of the head: files with the hash of their
\* contribution are skipped, files of the graph the head has not are deleted
Incremental(head) ==
  /\ ~raised /\ revision < MaxRevisions
  /\ Cardinality(Differ(told, head)) <= MaxChanges
  /\ told' = head
  /\ LET paths == {f \in Files :
           IF head[f] = Absent THEN f \in DOMAIN graph.files
           ELSE f \notin DOMAIN graph.files \/ graph.files[f].source_hash # head[f]}
     IN Apply([f \in paths |-> New(head[f])])

\* compile_incremental with changed files only: a file that could not be fetched
\* counts as deleted, and a file is parsed again even if it is the same
ChangedOnly(fs, head) ==
  /\ ~raised /\ revision < MaxRevisions
  /\ Cardinality(fs) <= MaxChanges /\ Differ(told, head) \subseteq fs
  /\ told' = head
  /\ Apply([f \in fs |-> New(head[f])])

Next ==
  \E head \in Repos :
    \/ Incremental(head)
    \/ \E fs \in SUBSET Files : ChangedOnly(fs, head)

Spec == Init /\ [][Next]_vars
-----------------------------------------------------------------------------
Full(order) == CompileGraph(Indexed(told), order)

SomeOrder == CHOOSE order \in Orders : TRUE

Parsed == Parsing(told)

\* Whatever was patched before, the contributions of the files and the tables of
\* symbols, imports, types and constructs are those of a full compile of what the
\* adapter was told, each row once, and validate never raises.
GraphTablesExact ==
  LET full == Full(SomeOrder) IN
    /\ ~raised
    /\ Restrict(graph.files, Parsed) = full.files
    /\ graph.symbols = full.symbols /\ graph.imports = full.imports
    /\ graph.types = full.types /\ graph.constructs = full.constructs

\* the contribution of a file, which GraphTablesExact says is that of its content
FactsIn(f) == graph.files[f].facts

FirstNames(fs) == {id[3] : id \in AllImports(Contribs(graph.files), fs)}

\* imports of the file that start with the name name nothing else
Single(f, n) ==
  \A imp \in ToSet(FactsIn(f).imports) : imp.names[1] = n => Len(imp.names) = 1

Target(g, f, c) ==
  LET found == {e \in BagToSet(g.calls) : e.file = f /\ e.call = c}
  IN IF found = {} THEN None ELSE (CHOOSE e \in found : TRUE).to

\* names that one import of one name brings into the file, if any does
Plain(f, n) ==
  /\ Kept(FactsIn(f)) = FactsIn(f).imports
  /\ n \notin FirstNames(Parsed \ {f}) /\ Single(f, n)

\* no file has two symbols with the name
OnePerFile(n) ==
  \A a, b \in {id \in graph.symbols : NameOf(id) = n} : FileOf(a) = FileOf(b) => a = b

AsCompiled(f, c) ==
  \E order \in Orders : Target(graph, f, c) = Target(Full(order), f, c)

\* A call by plain name leads where a full compile may lead it, in one order of
\* the files or another, unless the name is also the first name of an import of
\* another file, or of an import of several names, or two imports of the file
\* start with one name, or a file has two symbols with the name.
CallsCurrent ==
  \A f \in Parsed : \A c \in FactsIn(f).calls :
    (c.receiver = "" /\ Plain(f, c.callee) /\ OnePerFile(c.callee)) => AsCompiled(f, c)

\* The same where a file has two symbols with the name, as the test of the patch
\* has it: the edges of an incremental compile are those of a full one.  The
\* patch finds the two in any order, a full compile in that of the source.
CallsOrdered ==
  \A f \in Parsed : \A c \in FactsIn(f).calls :
    (c.receiver = "" /\ Plain(f, c.callee)) => AsCompiled(f, c)

\* the edges from the imports of a file to symbols with a name it calls
CalledRefs(g, f) ==
  {e \in ToSet(g.refs[f]) :
     /\ e[2][1] # "import"
     /\ \E c \in FactsIn(f).calls : c.callee = NameOf(e[2])}

\* The imports of a file refer to all and only the symbols of a called name that
\* a full compile finds, unless two imports of the file start with one name.
RefsCurrent ==
  \A f \in Parsed :
    Kept(FactsIn(f)) = FactsIn(f).imports
      => CalledRefs(graph, f) = CalledRefs(Full(SomeOrder), f)

\* calls whose caller is a symbol of the file; in Java the receiver of a call is
\* taken for its caller, so none is claimed
Listed(f, call) ==
  CASE language = "python" -> Python!Listed(TreeOf[told[f]], call)
    [] language = "typescript" -> TypeScript!Listed(TreeOf[told[f]], call)
    [] language = "java" -> FALSE

\* constructs on a symbol of the file: a TypeScript route may name a handler of
\* another file, or a method without its class; Java does that with all its
\* methods, and its repositories are interfaces, which are no symbols
Grounded(f, construct) ==
  CASE language = "python" -> TRUE
    [] language = "typescript" ->
         \E s \in FactsIn(f).symbols :
           s.name = construct.name /\ s.parent = "" /\ s.kind # "class"
    [] language = "java" ->
         construct.kind = "test" \/ (construct.kind = "model" /\ construct.key = "table")

\* The rows of a file and the edges and constructs of the graph hang on symbols
\* that exist: the identifier built on the way up from a call is the one built
\* on the way down to the function.
FactsLand ==
  \A f \in Parsed :
    LET claimed == [FactsIn(f) EXCEPT
                      !.calls = {call \in @ : Listed(f, call)},
                      !.constructs = {k \in @ : Grounded(f, k)}]
    IN /\ CallRows(f, claimed) \union EndpointRows(f, claimed) \union ModelRows(f, claimed)
            \subseteq DefinedRows(f, claimed)
       /\ \A e \in BagToSet(graph.calls) :
            e.file = f /\ e.call \in claimed.calls => e.from \in graph.symbols
       /\ \A e \in BagToSet(graph.constructs) :
            e.file = f /\ e.fact \in claimed.constructs => e.on \in graph.symbols
=============================================================================
