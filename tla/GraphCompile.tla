---------------------------- MODULE GraphCompile ----------------------------
(***************************************************************************)
(* The semantic compiler: from the facts of all files to a graph of        *)
(* symbols, imports, references and calls.  A callee is looked for in the  *)
(* class of the caller and its bases, behind the receiver, in the file,    *)
(* among the imports of the file, and at last by name in the whole         *)
(* repository, where the first candidate wins.                             *)
(*                                                                         *)
(* Which candidate is the first depends on the order of dictionaries.  A   *)
(* full compile takes file after file ("order"), and in a file the order   *)
(* of the source, for which one fixed order of its symbols stands.  The    *)
(* tables a patch starts from were filled from a set, in any order; the    *)
(* files it takes out and puts in again are listed behind, one by one.     *)
(*                                                                         *)
(* The operators read a scope: a record of the facts of the files          *)
(* (contribs), the identifiers of symbols and imports, the edges of the    *)
(* imports of each file (refs), the candidates of each name (named) and    *)
(* the bases of each class (bases).                                        *)
(***************************************************************************)
EXTENDS FactRows, Sorting

CONSTANTS
  None,
  Files,
  PathHolds     \* <<module, file>>: the path of the file contains the module name

ASSUME FilesAssumption == IsFiniteSet(Files)

Orders == SetToSeqs(Files)

\* _build_symbol_id
SymbolId(f, name, kind, parent) ==
  IF parent # "" THEN <<"member", f, parent, name>>
  ELSE IF kind = "class" THEN <<"class", f, name>>
  ELSE <<"module", f, name>>

\* _create_import_symbol: a statement is named by the first of its names
ImportId(f, imp) == <<"import", f, imp.names[1]>>

IsClass(id) == id[1] = "class"
FileOf(id) == id[2]
NameOf(id) == id[Len(id)]

\* _create_symbol
SymbolsIn(f, idx) == {SymbolId(f, s.name, s.kind, s.parent) : s \in idx.symbols}

ImportsIn(f, idx) == {ImportId(f, idx.imports[i]) : i \in DOMAIN idx.imports}

\* the identifiers of a file that carry a name
NamedIn(ids, f, n) == SetToSeq({id \in ids : FileOf(id) = f /\ NameOf(id) = n})

\* callee_name_to_ids of a full compile: file after file, symbols then imports
CompileCandidates(symbols, imports, order) ==
  [n \in {NameOf(id) : id \in symbols \union imports} |->
     FlattenSeq([i \in DOMAIN order |->
       NamedIn(symbols, order[i], n) \o NamedIn(imports, order[i], n)])]

\* how a table may list what carries a name: what was in it before in any order,
\* then the files that were put in again, in their order
Listings(ids, again, n) ==
  LET before == {id \in ids : FileOf(id) \notin ToSet(again) /\ NameOf(id) = n}
  IN {s \o FlattenSeq([i \in DOMAIN again |-> NamedIn(ids, again[i], n)]) :
        s \in SetToSeqs(before)}

\* all symbols of the name, and then all imports
SymbolsFirst(symbols, imports, again, n) ==
  {s \o i : s \in Listings(symbols, again, n), i \in Listings(imports, again, n)}

\* every choice of one listing for each name
Chosen(listings) ==
  LET several == {n \in DOMAIN listings : Cardinality(listings[n]) > 1}
      choices == {c \in [several -> UNION {listings[n] : n \in several}] :
                    \A n \in several : c[n] \in listings[n]}
  IN {[n \in DOMAIN listings |-> IF n \in several THEN c[n]
                                 ELSE CHOOSE s \in listings[n] : TRUE] : c \in choices}

\* callee_name_to_ids of a patch
PatchNamings(symbols, imports, again) ==
  Chosen([n \in {NameOf(id) : id \in symbols \union imports} |->
            SymbolsFirst(symbols, imports, again, n)])

Candidates(named, n) == IF n \in DOMAIN named THEN named[n] ELSE <<>>

\* _resolve_import_references_fast: the edges of one import statement
ImportEdges(f, imp, named) ==
  LET here(id) == id # ImportId(f, imp) /\ <<imp.module, FileOf(id)>> \in PathHolds
      edges(n) ==
        LET found == Candidates(named, n)
            targets == Those(found, {i \in DOMAIN found : here(found[i])})
        IN [i \in DOMAIN targets |-> <<ImportId(f, imp), targets[i]>>]
  IN FlattenSeq([k \in DOMAIN imp.names |-> edges(imp.names[k])])

\* the reference edges of a file
References(f, statements, named) ==
  FlattenSeq([i \in DOMAIN statements |-> ImportEdges(f, statements[i], named)])

\* resolved_imports: the last edge of an import decides
Imported(refs, f, n) ==
  LET edges == IF f \in DOMAIN refs
               THEN {i \in DOMAIN refs[f] : refs[f][i][1] = <<"import", f, n>>} ELSE {}
  IN IF edges = {} THEN None ELSE refs[f][Max(edges)][2]

\* resolve_base_class_id
BaseClass(scope, f, base) ==
  LET imported == Imported(scope.refs, f, base)
      found == Candidates(scope.named, base)
      classes == {i \in DOMAIN found : IsClass(found[i])}
  IN IF <<"class", f, base>> \in scope.symbols THEN <<"class", f, base>>
     ELSE IF imported # None \/ classes = {} THEN imported
     ELSE found[Min(classes)]

\* class_bases_map: what extends something, by the identifier of its source
Extending(types) == SelectSeq(types, LAMBDA r : r.kind = "extends")

Derived(contribs) ==
  UNION {{<<"class", f, r.source>> : r \in ToSet(Extending(contribs[f].types))} :
           f \in DOMAIN contribs}

\* resolved_inheritance_map
BasesOf(scope, class) ==
  LET f == FileOf(class)
      rels == SelectSeq(Extending(scope.contribs[f].types),
                        LAMBDA r : r.source = NameOf(class))
  IN SelectSeq([i \in DOMAIN rels |-> BaseClass(scope, f, rels[i].target)],
               LAMBDA id : id # None)

Bases(scope) == [class \in Derived(scope.contribs) |-> BasesOf(scope, class)]

Identifiers == Seq(STRING \union Files)

\* the search through the bases, breadth first; a class seen before is skipped
Inherited(scope, start, method) ==
  LET search[queue \in Seq(Identifiers), seen \in SUBSET Identifiers] ==
        IF queue = <<>> THEN None
        ELSE LET class == Head(queue)
                 found == <<"member", FileOf(class), NameOf(class), method>>
                 bases == IF class \in DOMAIN scope.bases THEN scope.bases[class] ELSE <<>>
             IN IF class \in seen \/ ~IsClass(class) THEN search[Tail(queue), seen]
                ELSE IF found \in scope.symbols THEN found
                ELSE search[Tail(queue) \o bases, seen \union {class}]
  IN search[<<start>>, {}]

\* self.m() and cls.m()
OfSelf(scope, f, call) ==
  IF call.receiver \in {"self", "cls"} /\ call.owner # ""
  THEN Inherited(scope, <<"class", f, call.owner>>, call.callee)
  ELSE None

\* C.m() and module.m(), C or module imported
OfImported(scope, f, call) ==
  LET behind == Imported(scope.refs, f, call.receiver)
  IN IF call.receiver = "" \/ behind = None THEN None
     ELSE IF behind[1] \in {"class", "member"}
     THEN Inherited(scope, behind, call.callee)
     ELSE LET id == <<"module", FileOf(behind), call.callee>>
          IN IF id \in scope.symbols THEN id ELSE None

\* C.m(), C a class of the file
OfLocalClass(scope, f, call) ==
  LET id == <<"member", f, call.receiver, call.callee>>
  IN IF {<<"class", f, call.receiver>>, id} \subseteq scope.symbols THEN id ELSE None

\* the name alone, in the file
OfFile(scope, f, call) ==
  LET local == {<<"module", f, call.callee>>, <<"class", f, call.callee>>}
               \intersect scope.symbols
  IN IF local = {} THEN None ELSE CHOOSE id \in local : TRUE

\* _resolve_callee_id: the first answer counts
Callee(scope, f, call) ==
  LET answers ==
        << OfSelf(scope, f, call), OfImported(scope, f, call), OfLocalClass(scope, f, call),
           OfFile(scope, f, call), Imported(scope.refs, f, call.callee) >>
        \o Candidates(scope.named, call.callee)
      given == {i \in DOMAIN answers : answers[i] # None}
  IN IF given = {} THEN None ELSE answers[Min(given)]

\* the call edges of a file
FileCalls(scope, f) ==
  {e \in {[file |-> f, from |-> SymbolId(f, c.caller, "function", c.owner), call |-> c,
           to |-> Callee(scope, f, c)] : c \in scope.contribs[f].calls} : e.to # None}

\* _create_type_edge
FileTypes(f, idx) ==
  {[file |-> f, at |-> i, rel |-> idx.types[i]] : i \in DOMAIN idx.types}

\* the identifier is built as the kind of fact says
ConstructOn(f, c) ==
  SymbolId(f, c.name,
    CASE c.kind = "model" -> "class"
      [] c.kind = "test" -> c.key
      [] OTHER -> "function", "")

\* _create_entry_point and its like: nothing is made of a fact without a name
FileConstructs(f, idx) ==
  {[file |-> f, fact |-> c, on |-> ConstructOn(f, c)] :
     c \in {d \in idx.constructs : d.name # ""}}
=============================================================================
