-------------------------- MODULE GraphPatchProofs --------------------------
(***************************************************************************)
(* Theorems about the graph of an adapter, for every set of files and      *)
(* contents, every syntax tree and any number of patches.                  *)
(*                                                                         *)
(* The inductive invariant says which contribution each file has and that  *)
(* the tables hold the rows of the contributions, those of files that a    *)
(* full compile would leave out included.  A patch keeps it since a row    *)
(* names its file, and since the changed files are all affected.           *)
(*                                                                         *)
(* That calls and constructs hang on symbols rests on the way up a tree:   *)
(* it leads to nodes before the one it starts from, so the innermost of    *)
(* those above a node is the greatest, and the path to a function goes on  *)
(* as the path from the class around it.                                   *)
(*                                                                         *)
(* That references and calls by plain name are current rests on what can   *)
(* be said of the edges of a file without the order of the candidates:     *)
(* which symbols its imports refer to, and where a call may lead, which is *)
(* to the last symbol of a file that an import meets, to the first symbol  *)
(* of a file, or to an import.  A compile and a patch make such edges for  *)
(* the files they resolve, a patch keeps those of the other files such,    *)
(* and for each target a call may have some order of the files makes a     *)
(* full compile choose it.                                                 *)
(***************************************************************************)
EXTENDS GraphPatch, SortingProofs, FiniteSetTheorems, SequenceTheorems, TLAPS

\* the contributions are those of the contents last told of
ContributionsCurrent ==
  /\ Parsed \subseteq DOMAIN graph.files
  /\ DOMAIN graph.files \subseteq {f \in Files : told[f] # Absent}
  /\ graph.files = [f \in DOMAIN graph.files |-> Contribution(told[f])]

\* the tables of a graph are made of the contributions of its files
Tabled(g) ==
  LET contribs == Contribs(g.files)
      fs == DOMAIN g.files
  IN /\ g.symbols = AllSymbols(contribs, fs)
     /\ g.imports = AllImports(contribs, fs)
     /\ g.types = TypesIn(contribs, fs)
     /\ g.constructs = ConstructsIn(contribs, fs)

TablesInv ==
  /\ language \in Languages
  /\ told \in Repos
  /\ ContributionsCurrent
  /\ Tabled(graph)
  /\ ~raised

-----------------------------------------------------------------------------
(* Rows and their files.                                                   *)

\* An identifier names the file it was built for.
LEMMA IdsNameFile ==
  ASSUME NEW f, NEW idx
  PROVE  /\ \A id \in SymbolsIn(f, idx) : FileOf(id) = f
         /\ \A id \in ImportsIn(f, idx) : FileOf(id) = f
<1>1. \A n, k, p : FileOf(SymbolId(f, n, k, p)) = f
  <2> SUFFICES ASSUME NEW n, NEW k, NEW p PROVE FileOf(SymbolId(f, n, k, p)) = f
    OBVIOUS
  <2>1. CASE p # ""
    BY <2>1 DEF SymbolId, FileOf
  <2>2. CASE p = "" /\ k = "class"
    BY <2>2 DEF SymbolId, FileOf
  <2>3. CASE p = "" /\ k # "class"
    BY <2>3 DEF SymbolId, FileOf
  <2> QED BY <2>1, <2>2, <2>3
<1>2. \A imp : FileOf(ImportId(f, imp)) = f
  BY DEF ImportId, FileOf
<1> QED BY <1>1, <1>2 DEF SymbolsIn, ImportsIn

\* So do the rows of types and constructs.
LEMMA RowsNameFile ==
  ASSUME NEW f, NEW idx
  PROVE  /\ \A e \in FileTypes(f, idx) : e.file = f
         /\ \A e \in FileConstructs(f, idx) : e.file = f
<1>1. \A e \in FileTypes(f, idx) : e.file = f
  BY DEF FileTypes
<1>2. \A e \in FileConstructs(f, idx) : e.file = f
  <2> SUFFICES ASSUME NEW c, NEW e, e = [file |-> f, fact |-> c, on |-> ConstructOn(f, c)]
               PROVE  e.file = f
    BY DEF FileConstructs
  <2> QED OBVIOUS
<1> QED BY <1>1, <1>2

\* A file without facts has no rows.
LEMMA NoRows ==
  ASSUME NEW f
  PROVE  /\ SymbolsIn(f, NoFacts) = {} /\ ImportsIn(f, NoFacts) = {}
         /\ FileTypes(f, NoFacts) = {} /\ FileConstructs(f, NoFacts) = {}
BY DEF NoFacts, SymbolsIn, ImportsIn, FileTypes, FileConstructs

\* Bags that hold each row once, one of rows of other files and one of rows of
\* these, add up to a bag that holds each row once.
LEMMA BagJoined ==
  ASSUME NEW S, NEW O, NEW T, NEW fs,
         \A e : e \in O <=> e \in S /\ e.file \notin fs,
         \A e \in T : e.file \in fs
  PROVE  /\ [e \in {e \in S : e.file \notin fs} |-> 1] = [e \in O |-> 1]
         /\ [e \in O \union T |->
              (IF e \in O THEN 1 ELSE 0) + (IF e \in T THEN 1 ELSE 0)] = [e \in O \union T |-> 1]
OBVIOUS

-----------------------------------------------------------------------------
(* What a compile and a patch make of the tables.                          *)

LEMMA CompileTables ==
  ASSUME NEW files, NEW order
  PROVE  /\ CompileGraph(files, order).files = files
         /\ Tabled(CompileGraph(files, order))
BY DEF CompileGraph, Tabled

\* What is left of a table outside the affected files, and what these give anew,
\* is the table of all files.
LEMMA SymbolsPatched ==
  ASSUME NEW files, NEW changed, NEW affected, DOMAIN changed \subseteq affected,
         NEW kept,
         \A id : id \in kept <=>
           id \in AllSymbols(Contribs(files), DOMAIN files) /\ FileOf(id) \notin affected
  PROVE  kept \union AllSymbols(Contribs(Patched(files, changed)),
                            affected \intersect DOMAIN Patched(files, changed))
           = AllSymbols(Contribs(Patched(files, changed)), DOMAIN Patched(files, changed))
<1> DEFINE new == Patched(files, changed)
<1>1. \A f \in DOMAIN files \ affected : f \in DOMAIN new /\ Contribs(new)[f] = Contribs(files)[f]
  BY DEF Patched, Contribs
<1>2. \A f \in DOMAIN new \ affected : f \in DOMAIN files
  BY DEF Patched
<1> HIDE DEF new
<1>3. kept = UNION {SymbolsIn(f, Contribs(files)[f]) : f \in DOMAIN files \ affected}
  BY IdsNameFile DEF AllSymbols
<1>4. UNION {SymbolsIn(f, Contribs(files)[f]) : f \in DOMAIN files \ affected}
        = AllSymbols(Contribs(new), DOMAIN new \ affected)
  BY <1>1, <1>2 DEF AllSymbols
<1>5. AllSymbols(Contribs(new), DOMAIN new \ affected)
        \union AllSymbols(Contribs(new), affected \intersect DOMAIN new)
      = AllSymbols(Contribs(new), DOMAIN new)
  BY DEF AllSymbols
<1> QED BY <1>3, <1>4, <1>5 DEF new

LEMMA ImportsPatched ==
  ASSUME NEW files, NEW changed, NEW affected, DOMAIN changed \subseteq affected,
         NEW kept,
         \A id : id \in kept <=>
           id \in AllImports(Contribs(files), DOMAIN files) /\ FileOf(id) \notin affected
  PROVE  kept \union AllImports(Contribs(Patched(files, changed)),
                            affected \intersect DOMAIN Patched(files, changed))
           = AllImports(Contribs(Patched(files, changed)), DOMAIN Patched(files, changed))
<1> DEFINE new == Patched(files, changed)
<1>1. \A f \in DOMAIN files \ affected : f \in DOMAIN new /\ Contribs(new)[f] = Contribs(files)[f]
  BY DEF Patched, Contribs
<1>2. \A f \in DOMAIN new \ affected : f \in DOMAIN files
  BY DEF Patched
<1> HIDE DEF new
<1>3. kept = UNION {ImportsIn(f, Contribs(files)[f]) : f \in DOMAIN files \ affected}
  BY IdsNameFile DEF AllImports
<1>4. UNION {ImportsIn(f, Contribs(files)[f]) : f \in DOMAIN files \ affected}
        = AllImports(Contribs(new), DOMAIN new \ affected)
  BY <1>1, <1>2 DEF AllImports
<1>5. AllImports(Contribs(new), DOMAIN new \ affected)
        \union AllImports(Contribs(new), affected \intersect DOMAIN new)
      = AllImports(Contribs(new), DOMAIN new)
  BY DEF AllImports
<1> QED BY <1>3, <1>4, <1>5 DEF new

LEMMA RowsPatched ==
  ASSUME NEW files, NEW changed, NEW affected, DOMAIN changed \subseteq affected,
         NEW new, new = Patched(files, changed)
  PROVE  /\ Elsewhere(TypesIn(Contribs(files), DOMAIN files), affected)
              (+) TypesIn(Contribs(new), affected \intersect DOMAIN new)
            = TypesIn(Contribs(new), DOMAIN new)
         /\ Elsewhere(ConstructsIn(Contribs(files), DOMAIN files), affected)
              (+) ConstructsIn(Contribs(new), affected \intersect DOMAIN new)
            = ConstructsIn(Contribs(new), DOMAIN new)
<1> DEFINE types(contribs, fs) == UNION {FileTypes(f, contribs[f]) : f \in fs}
           constructs(contribs, fs) == UNION {FileConstructs(f, contribs[f]) : f \in fs}
<1>1. \A f \in DOMAIN files \ affected : f \in DOMAIN new /\ Contribs(new)[f] = Contribs(files)[f]
  BY DEF Patched, Contribs
<1>2. \A f \in DOMAIN new \ affected : f \in DOMAIN files
  BY DEF Patched
<1>3. \A e : e \in types(Contribs(files), DOMAIN files \ affected)
              <=> e \in types(Contribs(files), DOMAIN files) /\ e.file \notin affected
  BY RowsNameFile
<1>4. \A e : e \in constructs(Contribs(files), DOMAIN files \ affected)
              <=> e \in constructs(Contribs(files), DOMAIN files) /\ e.file \notin affected
  BY RowsNameFile
<1>5. types(Contribs(files), DOMAIN files \ affected)
        \union types(Contribs(new), affected \intersect DOMAIN new)
      = types(Contribs(new), DOMAIN new)
  BY <1>1, <1>2
<1>6. constructs(Contribs(files), DOMAIN files \ affected)
        \union constructs(Contribs(new), affected \intersect DOMAIN new)
      = constructs(Contribs(new), DOMAIN new)
  BY <1>1, <1>2
<1>7. /\ \A e \in types(Contribs(new), affected \intersect DOMAIN new) : e.file \in affected
      /\ \A e \in constructs(Contribs(new), affected \intersect DOMAIN new) : e.file \in affected
  BY RowsNameFile
<1> HIDE DEF types, constructs
<1>8. Elsewhere(SetToBag(types(Contribs(files), DOMAIN files)), affected)
        (+) SetToBag(types(Contribs(new), affected \intersect DOMAIN new))
      = SetToBag(types(Contribs(new), DOMAIN new))
  <2> DEFINE S == types(Contribs(files), DOMAIN files)
             O == types(Contribs(files), DOMAIN files \ affected)
             T == types(Contribs(new), affected \intersect DOMAIN new)
  <2>1. /\ \A e : e \in O <=> e \in S /\ e.file \notin affected
        /\ \A e \in T : e.file \in affected
    BY <1>3, <1>7
  <2>2. O \union T = types(Contribs(new), DOMAIN new)
    BY <1>5
  <2> HIDE DEF S, O, T
  <2>3. /\ [e \in {e \in S : e.file \notin affected} |-> 1] = [e \in O |-> 1]
        /\ [e \in O \union T |->
             (IF e \in O THEN 1 ELSE 0) + (IF e \in T THEN 1 ELSE 0)] = [e \in O \union T |-> 1]
    BY <2>1, BagJoined
  <2>4. Elsewhere(SetToBag(S), affected) (+) SetToBag(T) = SetToBag(O \union T)
    BY <2>3 DEF Elsewhere, SetToBag, (+)
  <2> QED BY <2>2, <2>4 DEF S, O, T
<1>9. Elsewhere(SetToBag(constructs(Contribs(files), DOMAIN files)), affected)
        (+) SetToBag(constructs(Contribs(new), affected \intersect DOMAIN new))
      = SetToBag(constructs(Contribs(new), DOMAIN new))
  <2> DEFINE S == constructs(Contribs(files), DOMAIN files)
             O == constructs(Contribs(files), DOMAIN files \ affected)
             T == constructs(Contribs(new), affected \intersect DOMAIN new)
  <2>1. /\ \A e : e \in O <=> e \in S /\ e.file \notin affected
        /\ \A e \in T : e.file \in affected
    BY <1>4, <1>7
  <2>2. O \union T = constructs(Contribs(new), DOMAIN new)
    BY <1>6
  <2> HIDE DEF S, O, T
  <2>3. /\ [e \in {e \in S : e.file \notin affected} |-> 1] = [e \in O |-> 1]
        /\ [e \in O \union T |->
             (IF e \in O THEN 1 ELSE 0) + (IF e \in T THEN 1 ELSE 0)] = [e \in O \union T |-> 1]
    BY <2>1, BagJoined
  <2>4. Elsewhere(SetToBag(S), affected) (+) SetToBag(T) = SetToBag(O \union T)
    BY <2>3 DEF Elsewhere, SetToBag, (+)
  <2> QED BY <2>2, <2>4 DEF S, O, T
<1> QED BY <1>8, <1>9 DEF types, constructs, TypesIn, ConstructsIn

\* A patch keeps the tables those of the contributions.
LEMMA PatchTables ==
  ASSUME NEW g, Tabled(g), NEW changed, NEW named
  PROVE  /\ Patch(g, changed, named).files = Patched(g.files, changed)
         /\ Tabled(Patch(g, changed, named))
<1> DEFINE affected == Affected(g, changed)
           new == Patched(g.files, changed)
           p == Patch(g, changed, named)
<1>1. DOMAIN changed \subseteq affected
  BY DEF Affected
<1>2. /\ p.files = new
      /\ p.symbols = {id \in g.symbols : FileOf(id) \notin affected}
                     \union AllSymbols(Contribs(new), affected \intersect DOMAIN new)
      /\ p.imports = {id \in g.imports : FileOf(id) \notin affected}
                     \union AllImports(Contribs(new), affected \intersect DOMAIN new)
      /\ p.types = Elsewhere(g.types, affected)
                   (+) TypesIn(Contribs(new), affected \intersect DOMAIN new)
      /\ p.constructs = Elsewhere(g.constructs, affected)
                        (+) ConstructsIn(Contribs(new), affected \intersect DOMAIN new)
  BY DEF Patch, PatchedSymbols, PatchedImports, Renewed
<1> HIDE DEF affected, new, p
<1>3. /\ g.symbols = AllSymbols(Contribs(g.files), DOMAIN g.files)
      /\ g.imports = AllImports(Contribs(g.files), DOMAIN g.files)
      /\ g.types = TypesIn(Contribs(g.files), DOMAIN g.files)
      /\ g.constructs = ConstructsIn(Contribs(g.files), DOMAIN g.files)
  BY DEF Tabled
<1>4. /\ p.symbols = AllSymbols(Contribs(new), DOMAIN new)
      /\ p.imports = AllImports(Contribs(new), DOMAIN new)
  <2> DEFINE symbols == {id \in g.symbols : FileOf(id) \notin affected}
             imports == {id \in g.imports : FileOf(id) \notin affected}
  <2>1. /\ \A id : id \in symbols <=>
             id \in AllSymbols(Contribs(g.files), DOMAIN g.files) /\ FileOf(id) \notin affected
        /\ \A id : id \in imports <=>
             id \in AllImports(Contribs(g.files), DOMAIN g.files) /\ FileOf(id) \notin affected
    BY <1>3
  <2>2. /\ p.symbols = symbols \union AllSymbols(Contribs(new), affected \intersect DOMAIN new)
        /\ p.imports = imports \union AllImports(Contribs(new), affected \intersect DOMAIN new)
    BY <1>2
  <2> HIDE DEF symbols, imports
  <2>3. symbols \union AllSymbols(Contribs(new), affected \intersect DOMAIN new)
          = AllSymbols(Contribs(new), DOMAIN new)
    BY <1>1, <2>1, SymbolsPatched DEF new
  <2>4. imports \union AllImports(Contribs(new), affected \intersect DOMAIN new)
          = AllImports(Contribs(new), DOMAIN new)
    BY <1>1, <2>1, ImportsPatched DEF new
  <2> QED BY <2>2, <2>3, <2>4
<1>5. /\ p.types = TypesIn(Contribs(new), DOMAIN new)
      /\ p.constructs = ConstructsIn(Contribs(new), DOMAIN new)
  BY <1>1, <1>2, <1>3, RowsPatched DEF new
<1> QED BY <1>2, <1>4, <1>5 DEF Tabled, new, p

-----------------------------------------------------------------------------
(* The invariant.                                                          *)

\* A content that is no syntax tree has no facts.
LEMMA UnparsableHasNoFacts ==
  ASSUME NEW c \in Unparsable
  PROVE  Contribution(c).facts = NoFacts
BY ContentsAssumption DEF Contribution, FactsOf

LEMMA ReposAreFunctions ==
  ASSUME language \in Languages, NEW r \in Repos
  PROVE  /\ r \in [Files -> Contents \union {Absent}]
         /\ DOMAIN r = Files
BY DEF Repos

LEMMA InitInv == Init => TablesInv
<1> SUFFICES ASSUME Init PROVE TablesInv
  OBVIOUS
<1>1. language \in Languages /\ told \in Repos /\ ~raised
  BY DEF Init
<1>2. PICK order \in Orders : graph = CompileGraph(Indexed(told), order)
  BY DEF Init
<1>3. graph.files = Indexed(told) /\ Tabled(graph)
  BY <1>2, CompileTables
<1>4. ContributionsCurrent
  BY <1>3 DEF ContributionsCurrent, Indexed, Parsed, Parsing
<1> QED BY <1>1, <1>3, <1>4 DEF TablesInv

\* Told of a new revision by the contributions of the files it says have changed,
\* the graph has the contributions of the new one.
LEMMA ApplyInv ==
  ASSUME TablesInv, NEW head \in Repos, NEW fs \in SUBSET Files,
         told' = head, Apply([f \in fs |-> New(head[f])]),
         \A f \in DOMAIN graph.files \ fs : head[f] = told[f],
         \A f \in Files \ fs : head[f] = Absent \/ f \in DOMAIN graph.files
                                \/ head[f] = told[f]
  PROVE  TablesInv'
<1> DEFINE changed == [f \in fs |-> New(head[f])]
<1>1. language \in Languages /\ told \in Repos /\ language' = language
  BY DEF TablesInv, Apply
<1>2. head \in [Files -> Contents \union {Absent}] /\ told \in [Files -> Contents \union {Absent}]
  BY <1>1, ReposAreFunctions
<1>3. graph'.files = Patched(graph.files, changed) /\ Tabled(graph)'
  <2>1. CASE fs = {}
    <3>1. graph' = graph
      BY <2>1 DEF Apply
    <3>2. Patched(graph.files, changed) = graph.files
      BY <2>1 DEF Patched, TablesInv, ContributionsCurrent
    <3> QED BY <3>1, <3>2 DEF TablesInv, Tabled
  <2>2. CASE fs # {}
    <3>1. PICK named : graph' = Patch(graph, changed, named)
      BY <2>2 DEF Apply
    <3> HIDE DEF changed
    <3>2. Patch(graph, changed, named).files = Patched(graph.files, changed)
          /\ Tabled(Patch(graph, changed, named))
      BY PatchTables DEF TablesInv
    <3> QED BY <3>1, <3>2 DEF Tabled
  <2> QED BY <2>1, <2>2
<1>4. \A f \in fs : New(head[f]) # Absent <=> head[f] # Absent
  BY <1>2, AbsentAssumption DEF New
<1>5. /\ DOMAIN changed = fs
      /\ \A f \in fs : changed[f] = New(head[f])
  OBVIOUS
<1> HIDE DEF changed
<1>6. DOMAIN graph.files \subseteq {f \in Files : told[f] # Absent}
  BY DEF TablesInv, ContributionsCurrent
<1>7. DOMAIN graph'.files = (DOMAIN graph.files \ fs) \union {f \in fs : head[f] # Absent}
  BY <1>3, <1>4, <1>5 DEF Patched
<1>8. DOMAIN graph'.files \subseteq {f \in Files : head[f] # Absent}
  BY <1>6, <1>7
<1>9. \A f \in DOMAIN graph'.files : graph'.files[f] = Contribution(head[f])
  BY <1>1, <1>3, <1>4, <1>5, <1>7 DEF Patched, TablesInv, ContributionsCurrent, New
<1>10. graph'.files = [f \in DOMAIN graph'.files |-> graph'.files[f]]
  BY <1>3 DEF Patched
<1>11. Parsing(head) \subseteq DOMAIN graph'.files
  BY <1>7 DEF TablesInv, ContributionsCurrent, Parsing, Parsed
<1>12. ContributionsCurrent'
  BY <1>8, <1>9, <1>10, <1>11 DEF ContributionsCurrent, Parsed
<1>13. head \in Repos'
  BY <1>1 DEF Repos
<1>14. ~Mismatch(graph')
  BY <1>3 DEF Mismatch, Tabled
<1>15. ~raised'
  BY <1>14 DEF Apply
<1> QED BY <1>1, <1>3, <1>12, <1>13, <1>15 DEF TablesInv

LEMMA IncrementalInv ==
  ASSUME TablesInv, NEW head \in Repos, Incremental(head)
  PROVE  TablesInv'
<1> DEFINE fs == {f \in Files : IF head[f] = Absent THEN f \in DOMAIN graph.files
                   ELSE f \notin DOMAIN graph.files \/ graph.files[f].source_hash # head[f]}
<1>1. told' = head /\ Apply([f \in fs |-> New(head[f])])
  BY DEF Incremental
<1>2. \A f \in DOMAIN graph.files \ fs : head[f] = told[f]
  BY DEF TablesInv, ContributionsCurrent, Contribution
<1>3. \A f \in Files \ fs : head[f] = Absent \/ f \in DOMAIN graph.files
  OBVIOUS
<1> HIDE DEF fs
<1>4. fs \in SUBSET Files
  BY DEF fs
<1> QED BY <1>1, <1>2, <1>3, <1>4, ApplyInv

LEMMA ChangedOnlyInv ==
  ASSUME TablesInv, NEW head \in Repos, NEW fs \in SUBSET Files, ChangedOnly(fs, head)
  PROVE  TablesInv'
<1>1. told' = head /\ Apply([f \in fs |-> New(head[f])])
  BY DEF ChangedOnly
<1>2. \A f \in Files \ fs : head[f] = told[f]
  BY DEF ChangedOnly, Differ
<1>3. DOMAIN graph.files \subseteq Files
  BY DEF TablesInv, ContributionsCurrent
<1> QED BY <1>1, <1>2, <1>3, ApplyInv

LEMMA NextInv == TablesInv /\ [Next]_vars => TablesInv'
<1> SUFFICES ASSUME TablesInv, [Next]_vars PROVE TablesInv'
  OBVIOUS
<1>1. CASE UNCHANGED vars
  BY <1>1 DEF vars, TablesInv, Repos, ContributionsCurrent, Parsed, Parsing, Tabled
<1>2. ASSUME NEW head \in Repos, Incremental(head)
      PROVE  TablesInv'
  BY <1>2, IncrementalInv
<1>3. ASSUME NEW head \in Repos, NEW fs \in SUBSET Files, ChangedOnly(fs, head)
      PROVE  TablesInv'
  BY <1>3, ChangedOnlyInv
<1> QED BY <1>1, <1>2, <1>3 DEF Next

\* The tables of the current contributions are those of a full compile: the files
\* that only a patch has entered do not parse, so they have no rows.
LEMMA ExactFromInv == TablesInv => GraphTablesExact
<1> SUFFICES ASSUME TablesInv PROVE GraphTablesExact
  OBVIOUS
<1> DEFINE full == Full(SomeOrder)
           fs == DOMAIN graph.files
<1>1. full.files = Indexed(told) /\ Tabled(full)
  BY CompileTables DEF Full
<1>2. /\ Parsed \subseteq fs /\ fs \subseteq Files
      /\ \A f \in fs : graph.files[f] = Contribution(told[f])
  BY DEF TablesInv, ContributionsCurrent
<1>3. \A f \in fs \ Parsed : Contribs(graph.files)[f] = NoFacts
  <2>1. \A f \in fs \ Parsed : told[f] \in Unparsable
    BY <1>2 DEF TablesInv, ContributionsCurrent, Parsed, Parsing
  <2> QED BY <1>2, <2>1, UnparsableHasNoFacts DEF Contribs
<1>4. /\ DOMAIN full.files = Parsed
      /\ \A f \in Parsed : full.files[f] = graph.files[f]
      /\ full.files = [f \in Parsed |-> full.files[f]]
  BY <1>1, <1>2 DEF Indexed, Parsed
<1>5. \A f \in Parsed : Contribs(full.files)[f] = Contribs(graph.files)[f]
  BY <1>2, <1>4 DEF Contribs
<1>6. Restrict(graph.files, Parsed) = full.files
  BY <1>4 DEF Restrict
<1> HIDE DEF full, fs
<1>7. AllSymbols(Contribs(graph.files), fs) = AllSymbols(Contribs(full.files), Parsed)
  BY <1>2, <1>3, <1>5, NoRows DEF AllSymbols
<1>8. AllImports(Contribs(graph.files), fs) = AllImports(Contribs(full.files), Parsed)
  BY <1>2, <1>3, <1>5, NoRows DEF AllImports
<1>9. TypesIn(Contribs(graph.files), fs) = TypesIn(Contribs(full.files), Parsed)
  <2>1. UNION {FileTypes(f, Contribs(graph.files)[f]) : f \in fs}
          = UNION {FileTypes(f, Contribs(full.files)[f]) : f \in Parsed}
    BY <1>2, <1>3, <1>5, NoRows
  <2> QED BY <2>1 DEF TypesIn
<1>10. ConstructsIn(Contribs(graph.files), fs) = ConstructsIn(Contribs(full.files), Parsed)
  <2>1. UNION {FileConstructs(f, Contribs(graph.files)[f]) : f \in fs}
          = UNION {FileConstructs(f, Contribs(full.files)[f]) : f \in Parsed}
    BY <1>2, <1>3, <1>5, NoRows
  <2> QED BY <2>1 DEF ConstructsIn
<1>11. ~raised /\ Tabled(graph)
  BY DEF TablesInv
<1> QED BY <1>1, <1>4, <1>6, <1>7, <1>8, <1>9, <1>10, <1>11 DEF GraphTablesExact, Tabled, full, fs

\* Whatever was patched, the tables of symbols, imports, types and constructs are
\* those of a full compile, each row once, and validate does not raise: for every
\* set of files, whatever they hold and however often the graph is patched.
THEOREM GraphTablesExactHolds == Spec => []GraphTablesExact
<1>1. Spec => []TablesInv
  BY InitInv, NextInv, PTL DEF Spec
<1> QED BY <1>1, ExactFromInv, PTL

-----------------------------------------------------------------------------
(* Trees.                                                                  *)

Tree(t) == Python!IsTree(t)

\* a way up a tree
IsClimb(t, w, m, n, a) ==
  /\ w \in [0 .. m -> 0 .. Len(t)] /\ w[0] = n /\ w[m] = a
  /\ \A i \in 0 .. (m - 1) : w[i] # 0 /\ w[i + 1] = t[w[i]].up

Reached(t, n) ==
  {a \in 0 .. Len(t) : \E m \in Nat \ {0} : \E w : IsClimb(t, w, m, n, a)}

LEMMA ReachedFromNode ==
  ASSUME NEW t, Tree(t), NEW n \in 1 .. Len(t)
  PROVE  Reached(t, n) = {t[n].up} \union Reached(t, t[n].up)
<1>0. Len(t) \in Nat /\ t[n].up \in 0 .. Len(t) /\ n \in Nat /\ n # 0 /\ n \in 0 .. Len(t)
  BY DEF Tree, Python!IsTree
<1>1. ASSUME NEW a \in Reached(t, n), a # t[n].up
      PROVE  a \in Reached(t, t[n].up)
  <2>1. PICK m \in Nat \ {0} : \E w : IsClimb(t, w, m, n, a)
    BY <1>1 DEF Reached
  <2>2. PICK w : IsClimb(t, w, m, n, a)
    BY <2>1
  <2>3. m # 1
    <3> SUFFICES ASSUME m = 1 PROVE FALSE
      OBVIOUS
    <3>1. w[0] = n /\ w[1] = a /\ w[0 + 1] = t[w[0]].up
      BY <2>2 DEF IsClimb
    <3> QED
      BY <1>1, <3>1
  <2> DEFINE v == [i \in 0 .. (m - 1) |-> w[i + 1]]
  <2>4. m - 1 \in Nat \ {0}
    BY <2>3
  <2>5. v \in [0 .. (m - 1) -> 0 .. Len(t)]
    BY <2>2 DEF IsClimb
  <2>6. v[0] = t[n].up /\ v[m - 1] = a
    <3>1. v[0] = w[0 + 1] /\ v[m - 1] = w[m - 1 + 1] /\ m - 1 + 1 = m
      BY <2>4
    <3>2. w[0 + 1] = t[w[0]].up /\ w[0] = n /\ w[m] = a
      BY <2>2, <2>4 DEF IsClimb
    <3> QED
      BY <3>1, <3>2
  <2>7. ASSUME NEW i \in 0 .. (m - 1 - 1)
        PROVE  v[i] # 0 /\ v[i + 1] = t[v[i]].up
    <3>1. i + 1 \in 0 .. (m - 1) /\ i \in 0 .. (m - 1)
      BY <2>4
    <3>2. v[i] = w[i + 1] /\ v[i + 1] = w[i + 1 + 1]
      BY <3>1
    <3> QED
      BY <2>2, <3>1, <3>2 DEF IsClimb
  <2> HIDE DEF v
  <2>8. IsClimb(t, v, m - 1, t[n].up, a)
    BY <2>5, <2>6, <2>7 DEF IsClimb
  <2>9. a \in 0 .. Len(t)
    BY <1>1 DEF Reached
  <2> QED
    BY <2>4, <2>8, <2>9 DEF Reached
<1>2. t[n].up \in Reached(t, n)
  <2> DEFINE w == [i \in 0 .. 1 |-> IF i = 0 THEN n ELSE t[n].up]
  <2>1. IsClimb(t, w, 1, n, t[n].up)
    <3>1. w \in [0 .. 1 -> 0 .. Len(t)] /\ w[0] = n /\ w[1] = t[n].up
      BY <1>0
    <3>2. \A i \in 0 .. (1 - 1) : i = 0
      OBVIOUS
    <3> HIDE DEF w
    <3> QED
      BY <1>0, <3>1, <3>2 DEF IsClimb
  <2> HIDE DEF w
  <2> QED
    BY <1>0, <2>1 DEF Reached
<1>3. ASSUME NEW a \in Reached(t, t[n].up)
      PROVE  a \in Reached(t, n)
  <2>1. PICK m \in Nat \ {0} : \E w : IsClimb(t, w, m, t[n].up, a)
    BY <1>3 DEF Reached
  <2>2. PICK w : IsClimb(t, w, m, t[n].up, a)
    BY <2>1
  <2> DEFINE v == [i \in 0 .. (m + 1) |-> IF i = 0 THEN n ELSE w[i - 1]]
  <2>3. v \in [0 .. (m + 1) -> 0 .. Len(t)]
    BY <1>0, <2>2 DEF IsClimb
  <2>4. v[0] = n /\ v[m + 1] = w[m] /\ w[m] = a
    BY <2>2 DEF IsClimb
  <2>5. ASSUME NEW i \in 0 .. (m + 1 - 1)
        PROVE  v[i] # 0 /\ v[i + 1] = t[v[i]].up
    <3>1. CASE i = 0
      <4>1. v[0] = n /\ v[1] = w[0] /\ w[0] = t[n].up
        BY <2>2 DEF IsClimb
      <4> QED
        BY <1>0, <3>1, <4>1
    <3>2. CASE i # 0
      <4>1. i - 1 \in 0 .. (m - 1) /\ i - 1 + 1 = i
        BY <3>2
      <4>2. v[i] = w[i - 1] /\ v[i + 1] = w[i]
        BY <3>2
      <4>3. w[i - 1] # 0 /\ w[i - 1 + 1] = t[w[i - 1]].up
        BY <2>2, <4>1 DEF IsClimb
      <4> QED
        BY <4>1, <4>2, <4>3
    <3> QED
      BY <3>1, <3>2
  <2> HIDE DEF v
  <2>6. IsClimb(t, v, m + 1, n, a)
    BY <2>3, <2>4, <2>5 DEF IsClimb
  <2>7. m + 1 \in Nat \ {0} /\ a \in 0 .. Len(t)
    BY <1>3 DEF Reached
  <2> QED
    BY <2>6, <2>7 DEF Reached
<1> QED
  BY <1>1, <1>2, <1>3

LEMMA ReachedFromModule ==
  ASSUME NEW t
  PROVE  Reached(t, 0) = {}
<1> SUFFICES ASSUME NEW m \in Nat \ {0}, NEW w, NEW a, IsClimb(t, w, m, 0, a) PROVE FALSE
  BY DEF Reached
<1>1. 0 \in 0 .. (m - 1)
  OBVIOUS
<1> QED
  BY <1>1 DEF IsClimb

\* what the recursion of Above computes
Climb(t) ==
  CHOOSE above :
    above = [k \in 0..Len(t) |-> IF k = 0 THEN {} ELSE {t[k].up} \union above[t[k].up]]

LEMMA ClimbExists ==
  ASSUME NEW t, Tree(t)
  PROVE  Climb(t) = [k \in 0..Len(t) |->
                       IF k = 0 THEN {} ELSE {t[k].up} \union Climb(t)[t[k].up]]
<1> DEFINE f == [k \in 0..Len(t) |-> Reached(t, k)]
<1>1. \A k \in 1 .. Len(t) : t[k].up \in 0 .. Len(t)
  BY DEF Tree, Python!IsTree
<1>2. \A k \in 0 .. Len(t) :
        Reached(t, k) = IF k = 0 THEN {} ELSE {t[k].up} \union f[t[k].up]
  BY <1>1, ReachedFromNode, ReachedFromModule
<1>3. f = [k \in 0..Len(t) |-> IF k = 0 THEN {} ELSE {t[k].up} \union f[t[k].up]]
  BY <1>2
<1> HIDE DEF f
<1> QED
  BY <1>3 DEF Climb

\* the nodes a node lies in
Up(t, n) == Climb(t)[n] \ {0}

LEMMA UpIsAbove ==
  ASSUME NEW t, NEW n
  PROVE  Python!Above(t, n) = Up(t, n) /\ TypeScript!Above(t, n) = Up(t, n)
<1>1. Python!Above(t, n) = Up(t, n)
  BY DEF Python!Above, Climb, Up
<1>2. TypeScript!Above(t, n) = Up(t, n)
  BY DEF TypeScript!Above, Climb, Up
<1> QED
  BY <1>1, <1>2

LEMMA UpStep ==
  ASSUME NEW t, Tree(t), NEW n \in 1 .. Len(t)
  PROVE  /\ t[n].up \in 0 .. (n - 1)
         /\ t[n].up = 0 => Up(t, n) = {}
         /\ t[n].up # 0 => t[n].up \in 1 .. Len(t) /\ Up(t, n) = {t[n].up} \union Up(t, t[n].up)
<1>1. t[n].up \in 0 .. (n - 1) /\ Len(t) \in Nat /\ n \in 0 .. Len(t) /\ n # 0
  BY DEF Tree, Python!IsTree
<1>2. Climb(t)[n] = {t[n].up} \union Climb(t)[t[n].up]
  BY <1>1, ClimbExists
<1>3. Climb(t)[0] = {}
  BY <1>1, ClimbExists
<1>4. t[n].up # 0 => t[n].up \in 1 .. Len(t)
  BY <1>1
<1> QED
  BY <1>1, <1>2, <1>3, <1>4 DEF Up

LEMMA UpBefore ==
  ASSUME NEW t, Tree(t), NEW n \in 1 .. Len(t)
  PROVE  Up(t, n) \subseteq 1 .. (n - 1)
<1> DEFINE T == {k \in 1 .. Len(t) : ~(Up(t, k) \subseteq 1 .. (k - 1))}
<1>1. SUFFICES ASSUME T # {} PROVE FALSE
  OBVIOUS
<1>2. T \in SUBSET Nat
  OBVIOUS
<1>3. PICK m \in T : \A k \in T : m <= k
  <2> HIDE DEF T
  <2> QED
    BY <1>1, <1>2, LeastNumber
<1>4. m \in 1 .. Len(t) /\ m \in Nat /\ ~(Up(t, m) \subseteq 1 .. (m - 1))
  OBVIOUS
<1>5. t[m].up # 0 /\ t[m].up \in 1 .. Len(t) /\ Up(t, m) = {t[m].up} \union Up(t, t[m].up)
      /\ t[m].up \in 0 .. (m - 1)
  BY <1>4, UpStep
<1>6. t[m].up \notin T
  BY <1>3, <1>4, <1>5
<1>7. Up(t, t[m].up) \subseteq 1 .. (t[m].up - 1)
  BY <1>5, <1>6
<1> QED
  BY <1>4, <1>5, <1>7

\* What lies around a node that lies around n lies around n.
LEMMA UpTransitive ==
  ASSUME NEW t, Tree(t), NEW n \in 1 .. Len(t), NEW a \in Up(t, n)
  PROVE  Up(t, a) \subseteq Up(t, n)
<1> DEFINE T == {k \in 1 .. Len(t) : \E b \in Up(t, k) : ~(Up(t, b) \subseteq Up(t, k))}
<1>1. SUFFICES ASSUME T # {} PROVE FALSE
  OBVIOUS
<1>2. T \in SUBSET Nat
  OBVIOUS
<1>3. PICK m \in T : \A k \in T : m <= k
  <2> HIDE DEF T
  <2> QED
    BY <1>1, <1>2, LeastNumber
<1>4. PICK b \in Up(t, m) : ~(Up(t, b) \subseteq Up(t, m))
  OBVIOUS
<1>5. m \in 1 .. Len(t) /\ m \in Nat
  OBVIOUS
<1>6. t[m].up # 0 /\ t[m].up \in 1 .. Len(t) /\ Up(t, m) = {t[m].up} \union Up(t, t[m].up)
      /\ t[m].up \in 0 .. (m - 1)
  BY <1>4, <1>5, UpStep
<1>7. t[m].up \notin T
  BY <1>3, <1>5, <1>6
<1>8. b \in Up(t, t[m].up)
  BY <1>4, <1>6
<1> QED
  BY <1>4, <1>6, <1>7, <1>8

\* The nodes around a node lie around each other.
LEMMA UpChain ==
  ASSUME NEW t, Tree(t), NEW n \in 1 .. Len(t), NEW a \in Up(t, n), NEW b \in Up(t, n), b < a
  PROVE  b \in Up(t, a)
<1> DEFINE T == {k \in 1 .. Len(t) : \E c, d \in Up(t, k) : d < c /\ d \notin Up(t, c)}
<1>1. SUFFICES ASSUME T # {} PROVE FALSE
  OBVIOUS
<1>2. T \in SUBSET Nat
  OBVIOUS
<1>3. PICK m \in T : \A k \in T : m <= k
  <2> HIDE DEF T
  <2> QED
    BY <1>1, <1>2, LeastNumber
<1>4. PICK c \in Up(t, m), d \in Up(t, m) : d < c /\ d \notin Up(t, c)
  OBVIOUS
<1>5. m \in 1 .. Len(t) /\ m \in Nat
  OBVIOUS
<1>6. t[m].up # 0 /\ t[m].up \in 1 .. Len(t) /\ Up(t, m) = {t[m].up} \union Up(t, t[m].up)
      /\ t[m].up \in 0 .. (m - 1)
  BY <1>4, <1>5, UpStep
<1>7. t[m].up \notin T
  BY <1>3, <1>5, <1>6
<1>8. Up(t, t[m].up) \subseteq 1 .. (t[m].up - 1)
  BY <1>6, UpBefore
<1>9. CASE c = t[m].up
  BY <1>4, <1>6, <1>9
<1>10. CASE c # t[m].up
  <2>1. c \in Up(t, t[m].up)
    BY <1>6, <1>10
  <2>2. c \in 1 .. (t[m].up - 1)
    BY <1>8, <2>1
  <2>3. d # t[m].up
    BY <1>4, <1>6, <2>2
  <2>4. d \in Up(t, t[m].up)
    BY <1>6, <2>3
  <2> QED
    BY <1>4, <1>6, <1>7, <2>1, <2>4
<1> QED
  BY <1>9, <1>10

LEMMA InnermostIs ==
  ASSUME NEW n \in Nat, NEW S \in SUBSET (1 .. n), S # {}
  PROVE  Python!Innermost(S) \in S /\ \A k \in S : Python!Innermost(S) >= k
<1>1. \E m \in S : \A k \in S : k <= m
  <2>1. PICK m \in S : \A k \in S : m >= k
    BY GreatestNumber
  <2>2. \A k \in S : k \in Nat /\ m \in Nat
    OBVIOUS
  <2> QED
    BY <2>1, <2>2
<1>2. Python!Innermost(S) \in S /\ \A k \in S : k <= Python!Innermost(S)
  BY <1>1 DEF Python!Innermost
<1> QED
  BY <1>2

LEMMA UnderIs ==
  ASSUME NEW t, Tree(t), NEW n \in 1 .. Len(t), NEW kinds
  PROVE  /\ Python!Under(t, n, kinds) = {a \in Up(t, n) : t[a].kind \in kinds}
         /\ TypeScript!Under(t, n, kinds) = {a \in Up(t, n) : t[a].kind \in kinds}
         /\ Python!Under(t, n, kinds) \in SUBSET (1 .. (n - 1))
         /\ Python!Under(t, n, kinds) \in SUBSET (1 .. Len(t))
<1>1. /\ Python!Under(t, n, kinds) = {a \in Up(t, n) : t[a].kind \in kinds}
      /\ TypeScript!Under(t, n, kinds) = {a \in Up(t, n) : t[a].kind \in kinds}
  BY UpIsAbove DEF Python!Under, TypeScript!Under
<1>2. Up(t, n) \subseteq 1 .. (n - 1) /\ Len(t) \in Nat
  BY UpBefore DEF Tree, Python!IsTree
<1> QED
  BY <1>1, <1>2

-----------------------------------------------------------------------------
(* The facts of a file.                                                    *)

\* the facts have a symbol that is no class
HasFunction(idx, name, parent) ==
  \E s \in idx.symbols : s.name = name /\ s.parent = parent /\ (parent = "" => s.kind # "class")

HasClass(idx, name) == \E s \in idx.symbols : s.name = name /\ s.parent = "" /\ s.kind = "class"

\* A listed call of Python is made by a function or method among the symbols: the
\* class around the innermost function is the one that lists it.
LEMMA PythonCallers ==
  ASSUME NEW t, Tree(t), NEW c \in Python!CallsOf(t), Python!Listed(t, c)
  PROVE  HasFunction(Python!FileIndex(t), c.caller, c.owner)
<1>0. Len(t) \in Nat /\ DOMAIN t = 1 .. Len(t)
  BY DEF Tree, Python!IsTree
<1>1. PICK n \in Python!CallSites(t) :
        c = [at |-> n, caller |-> Python!CallerOf(t, n), owner |-> Python!OwnerOf(t, n),
             callee |-> t[n].name, receiver |-> t[n].receiver]
  BY DEF Python!CallsOf
<1> DEFINE g == Python!Innermost(Python!Under(t, n, Python!Functions_))
           around == Python!Under(t, g, Python!Functions_ \union {"class"})
<1>2. c.caller = t[g].name /\ c.owner = Python!OwnerOf(t, n) /\ c.at = n
  BY <1>1 DEF Python!CallerOf
<1>3. g \in (Python!Nodes(t, Python!Functions_) \intersect Python!Dispatched(t)) \union Python!Methods(t)
  BY <1>2 DEF Python!Listed
<1>4. g \in 1 .. Len(t) /\ t[g].kind \in Python!Functions_
  BY <1>0, <1>3 DEF Python!Nodes, Python!Methods
<1>5. c.owner = IF around = {} \/ t[Python!Innermost(around)].kind # "class" THEN ""
                ELSE t[Python!Innermost(around)].name
  BY <1>2 DEF Python!OwnerOf
<1> HIDE DEF g
<1>6. around = {a \in Up(t, g) : t[a].kind \in Python!Functions_ \union {"class"}}
      /\ around \in SUBSET (1 .. Len(t))
  BY <1>4, UnderIs
<1> HIDE DEF around
<1>7. around # {} => Python!Innermost(around) \in around
                     /\ \A k \in around : Python!Innermost(around) >= k
  BY <1>0, <1>6, InnermostIs
<1>8. CASE g \in Python!Nodes(t, Python!Functions_) \intersect Python!Dispatched(t)
  <2>1. \A a \in Up(t, g) : t[a].kind # "class"
    <3>1. Python!Under(t, g, {"class"}) = {}
      BY <1>8 DEF Python!Dispatched
    <3> QED
      BY <1>4, <3>1, UnderIs
  <2>2. c.owner = ""
    BY <1>5, <1>6, <1>7, <2>1
  <2>3. [name |-> t[g].name, kind |-> "function", parent |-> ""] \in Python!SymbolsOf(t)
    BY <1>8 DEF Python!SymbolsOf
  <2> QED
    BY <1>2, <2>2, <2>3 DEF HasFunction, Python!FileIndex
<1>9. CASE g \in Python!Methods(t)
  <2> DEFINE p == t[g].up
  <2>1. p \in Python!Classes(t)
    BY <1>9 DEF Python!Methods
  <2>2. p \in 1 .. Len(t) /\ t[p].kind = "class"
    BY <1>0, <2>1 DEF Python!Classes, Python!Nodes
  <2>3. Up(t, g) = {p} \union Up(t, p)
    BY <1>4, <2>2, UpStep
  <2>4. Up(t, p) \subseteq 1 .. (p - 1)
    BY <2>2, UpBefore
  <2> HIDE DEF p
  <2>5. p \in around /\ \A k \in around : k <= p
    BY <1>6, <2>2, <2>3, <2>4
  <2>6. Python!Innermost(around) = p
    BY <1>6, <1>7, <2>2, <2>5
  <2>7. c.owner = t[p].name
    BY <1>5, <2>2, <2>5, <2>6
  <2>8. [name |-> t[g].name, kind |-> "method", parent |-> t[p].name] \in Python!SymbolsOf(t)
    BY <1>9 DEF Python!SymbolsOf, p
  <2> QED
    BY <1>2, <2>7, <2>8 DEF HasFunction, Python!FileIndex
<1> QED
  BY <1>3, <1>8, <1>9

\* So is one of TypeScript, by a function, by the variable of an arrow function or by a
\* method: no class comes between the last name of the climb and the call.
LEMMA TypeScriptCallers ==
  ASSUME NEW t, Tree(t), TypeScript!ValuesNamed(t), NEW c \in TypeScript!CallsOf(t),
         TypeScript!Listed(t, c)
  PROVE  HasFunction(TypeScript!FileIndex(t), c.caller, c.owner)
<1>0. Len(t) \in Nat /\ DOMAIN t = 1 .. Len(t)
  BY DEF Tree, Python!IsTree
<1>1. PICK n \in {k \in TypeScript!Nodes(t, {"call"}) : TypeScript!Climbed(t, k) # {}} :
        c = [at |-> n, caller |-> TypeScript!CallerOf(t, n), owner |-> TypeScript!OwnerOf(t, n),
             callee |-> t[n].name, receiver |-> t[n].receiver]
  BY DEF TypeScript!CallsOf
<1> DEFINE climbed == TypeScript!Climbed(t, n)
           classes == TypeScript!Under(t, n, {"class"})
           g == TypeScript!Outermost(climbed)
<1>2. c.caller = t[g].name /\ c.owner = TypeScript!OwnerOf(t, n) /\ c.at = n
  BY <1>1 DEF TypeScript!CallerOf
<1>3. g \in TypeScript!Methods(t)
            \union (TypeScript!Dispatched(t) \intersect TypeScript!Nodes(t, {"function", "arrow"}))
  BY <1>2 DEF TypeScript!Listed
<1>4. n \in 1 .. Len(t)
  BY <1>0 DEF TypeScript!Nodes
<1>5. Up(t, n) \subseteq 1 .. Len(t)
  BY <1>0, <1>4, UpBefore
<1>6. g \in climbed
  <2>1. climbed \subseteq Up(t, n)
    BY UpIsAbove DEF TypeScript!Climbed
  <2>2. climbed \in SUBSET Nat /\ climbed # {}
    BY <1>1, <1>5, <2>1
  <2> HIDE DEF climbed
  <2>3. \E m \in climbed : \A k \in climbed : m <= k
    BY <2>2, LeastNumber
  <2> QED
    BY <2>3 DEF TypeScript!Outermost
<1> HIDE DEF g
<1>7. g \in Up(t, n) /\ t[g].name # "" /\ \A k \in classes : k < g
  BY <1>6, UpIsAbove DEF TypeScript!Climbed, TypeScript!Callers, TypeScript!Nodes
<1>8. classes = {a \in Up(t, n) : t[a].kind = "class"} /\ g \in 1 .. Len(t)
  <2>1. classes = {a \in Up(t, n) : t[a].kind \in {"class"}}
    BY <1>4, UnderIs
  <2> HIDE DEF classes
  <2> QED
    BY <1>5, <1>7, <2>1
<1> HIDE DEF classes, climbed
<1>9. \A k \in classes : k \in Up(t, g)
  BY <1>4, <1>7, <1>8, UpChain
<1>10. c.owner = IF classes = {} THEN "" ELSE t[TypeScript!Innermost(classes)].name
  BY <1>2 DEF TypeScript!OwnerOf, classes
<1>11. CASE g \in TypeScript!Methods(t)
  <2> DEFINE p == t[g].up
  <2>1. p \in TypeScript!Classes(t)
    BY <1>11 DEF TypeScript!Methods
  <2>2. p \in 1 .. Len(t) /\ t[p].kind = "class"
    BY <1>0, <2>1 DEF TypeScript!Classes, TypeScript!Nodes
  <2>3. Up(t, g) = {p} \union Up(t, p)
    BY <1>8, <2>2, UpStep
  <2>4. Up(t, p) \subseteq 1 .. (p - 1)
    BY <2>2, UpBefore
  <2>5. p \in Up(t, n)
    BY <1>4, <1>7, <2>3, UpTransitive
  <2> HIDE DEF p
  <2>6. p \in classes /\ \A k \in classes : k <= p
    BY <1>8, <1>9, <2>2, <2>3, <2>4, <2>5
  <2>7. TypeScript!Innermost(classes) = p
    <3>1. TypeScript!Innermost(classes) \in classes
          /\ \A k \in classes : k <= TypeScript!Innermost(classes)
      BY <2>6 DEF TypeScript!Innermost
    <3>2. TypeScript!Innermost(classes) \in 1 .. Len(t)
      BY <1>5, <1>8, <3>1
    <3>3. TypeScript!Innermost(classes) <= p /\ p <= TypeScript!Innermost(classes)
      BY <2>6, <3>1
    <3> QED
      BY <1>0, <2>2, <3>2, <3>3
  <2>8. c.owner = t[p].name
    BY <1>10, <2>6, <2>7
  <2>9. [name |-> t[g].name, kind |-> "method", parent |-> t[p].name] \in TypeScript!SymbolsOf(t)
    BY <1>11 DEF TypeScript!SymbolsOf, p
  <2> QED
    BY <1>2, <2>8, <2>9 DEF HasFunction, TypeScript!FileIndex
<1>12. CASE g \in TypeScript!Dispatched(t) /\ t[g].kind \in {"function", "arrow"}
  <2>1. \A a \in Up(t, g) : t[a].kind # "class"
    <3>1. TypeScript!Under(t, g, {"class"}) = {}
      BY <1>12 DEF TypeScript!Dispatched
    <3> QED
      BY <1>8, <3>1, UnderIs
  <2>2. c.owner = ""
    BY <1>8, <1>9, <1>10, <2>1
  <2>3. CASE t[g].kind = "function"
    <3>1. g \in TypeScript!Declared(t)
      BY <1>0, <1>8, <1>12, <2>3 DEF TypeScript!Declared, TypeScript!Nodes
    <3>2. [name |-> t[g].name, kind |-> "function", parent |-> ""] \in TypeScript!SymbolsOf(t)
      BY <2>3, <3>1 DEF TypeScript!SymbolsOf
    <3> QED
      BY <1>2, <2>2, <3>2 DEF HasFunction, TypeScript!FileIndex
  <2>4. CASE t[g].kind = "arrow"
    <3> DEFINE p == t[g].up
    <3>1. p \in TypeScript!Nodes(t, {"variable"}) /\ t[p].name = t[g].name
      BY <1>0, <1>7, <1>8, <2>4 DEF TypeScript!ValuesNamed, TypeScript!Nodes
    <3>2. p \in 1 .. Len(t) /\ t[p].kind = "variable"
      BY <1>0, <3>1 DEF TypeScript!Nodes
    <3>3. Up(t, p) \subseteq Up(t, g)
      BY <1>8, <3>2, UpStep
    <3> HIDE DEF p
    <3>4. TypeScript!Under(t, p, {"class"}) = {}
      BY <2>1, <3>2, <3>3, UnderIs
    <3>5. p \in TypeScript!Declared(t)
      BY <1>0, <3>1, <3>2, <3>4 DEF TypeScript!Declared, TypeScript!Nodes, TypeScript!Dispatched
    <3>6. [name |-> t[p].name, kind |-> "variable", parent |-> ""] \in TypeScript!SymbolsOf(t)
      BY <3>2, <3>5 DEF TypeScript!SymbolsOf
    <3> QED
      BY <1>2, <2>2, <3>1, <3>6 DEF HasFunction, TypeScript!FileIndex
  <2> QED
    BY <1>12, <2>3, <2>4
<1> QED
  BY <1>3, <1>11, <1>12 DEF TypeScript!Nodes

\* A fact hangs on a symbol of the kind it says.
Lands(idx, k) ==
  \/ k.kind = "route" /\ HasFunction(idx, k.name, "")
  \/ k.kind = "model" /\ HasClass(idx, k.name)
  \/ k.kind = "test" /\ k.key = "function" /\ HasFunction(idx, k.name, "")
  \/ k.kind = "test" /\ k.key = "class" /\ HasClass(idx, k.name)
  \/ k.kind \notin {"route", "model", "test"} /\ k.name = ""

\* The fields of a fact.
LEMMA FactFields ==
  ASSUME NEW k, NEW kind, NEW name, NEW key, k = [kind |-> kind, name |-> name, key |-> key]
  PROVE  k.kind = kind /\ k.name = name /\ k.key = key
OBVIOUS

LEMMA PythonConstructs ==
  ASSUME NEW t, NEW k \in Python!FileIndex(t).constructs
  PROVE  Lands(Python!FileIndex(t), k)
<1> DEFINE idx == Python!FileIndex(t)
           outer == Python!Nodes(t, Python!Functions_) \intersect Python!Dispatched(t)
<1>1. idx.symbols = Python!SymbolsOf(t)
      /\ idx.constructs = Python!RoutesOf(t) \union Python!ModelsOf(t) \union Python!EventsOf(t)
                          \union Python!ConfigsOf(t) \union Python!TestsOf(t)
  BY DEF Python!FileIndex
<1> HIDE DEF idx
<1>2. \A n \in outer : HasFunction(idx, t[n].name, "")
  <2> SUFFICES ASSUME NEW n \in outer PROVE HasFunction(idx, t[n].name, "")
    OBVIOUS
  <2>1. [name |-> t[n].name, kind |-> "function", parent |-> ""] \in idx.symbols
    BY <1>1 DEF Python!SymbolsOf
  <2> QED
    BY <2>1 DEF HasFunction
<1>3. \A n \in Python!Classes(t) : HasClass(idx, t[n].name)
  <2> SUFFICES ASSUME NEW n \in Python!Classes(t) PROVE HasClass(idx, t[n].name)
    OBVIOUS
  <2>1. [name |-> t[n].name, kind |-> "class", parent |-> ""] \in idx.symbols
    BY <1>1 DEF Python!SymbolsOf
  <2> QED
    BY <2>1 DEF HasClass
<1>4. CASE k \in Python!RoutesOf(t)
  <2>1. PICK n \in outer : k.kind = "route" /\ k.name = t[n].name
    BY <1>4 DEF Python!RoutesOf
  <2> QED
    BY <1>2, <2>1 DEF Lands, idx
<1>5. CASE k \in Python!ModelsOf(t)
  <2> DEFINE with == {c \in Python!Classes(t) :
                        \E b \in DOMAIN t[c].bases : t[c].bases[b] \in ModelBases}
  <2>a. k \in {[kind |-> "model", name |-> t[n].name, key |-> ""] : n \in with}
    BY <1>5 DEF Python!ModelsOf
  <2>b. with \subseteq Python!Classes(t)
    OBVIOUS
  <2> HIDE DEF with
  <2>0. \E n \in with : k = [kind |-> "model", name |-> t[n].name, key |-> ""]
    BY <2>a, Zenon
  <2>1. PICK n \in Python!Classes(t) : k.kind = "model" /\ k.name = t[n].name
    <3>1. PICK n \in with : k = [kind |-> "model", name |-> t[n].name, key |-> ""]
      BY <2>0
    <3> QED
      BY <2>b, <3>1
  <2> QED
    BY <1>3, <2>1 DEF Lands, idx
<1>6. CASE k \in Python!EventsOf(t) \union Python!ConfigsOf(t)
  <2>1. \A r \in Python!EventsOf(t) : \E x : r = [kind |-> "event", name |-> "", key |-> x]
    BY Zenon DEF Python!EventsOf
  <2>2. \A r \in Python!ConfigsOf(t) : \E x : r = [kind |-> "config", name |-> "", key |-> x]
    <3> DEFINE config == {c \in Python!Nodes(t, {"call"}) \intersect Python!Dispatched(t) :
                            <<t[c].receiver, t[c].name>> \in ConfigCalls}
    <3>1. Python!ConfigsOf(t) = {[kind |-> "config", name |-> "", key |-> t[n].receiver] :
                                   n \in config}
      BY DEF Python!ConfigsOf
    <3> HIDE DEF config
    <3> QED
      BY <3>1
  <2>3. k.kind \in {"event", "config"} /\ k.name = ""
    <3>1. \E kind \in {"event", "config"} : \E x : k = [kind |-> kind, name |-> "", key |-> x]
      BY <1>6, <2>1, <2>2, Zenon
    <3> QED
      BY <3>1, FactFields, Zenon
  <2> QED
    BY <2>3 DEF Lands
<1>7. CASE k \in Python!TestsOf(t)
  <2> DEFINE named == {f \in outer : t[f].name \in TestNames}
  <2>0. \/ \E n \in named : k = [kind |-> "test", name |-> t[n].name, key |-> "function"]
        \/ \E n \in Python!TestClasses(t) :
             k = [kind |-> "test", name |-> t[n].name, key |-> "class"]
    <3>1. \/ k \in {[kind |-> "test", name |-> t[n].name, key |-> "function"] : n \in named}
          \/ k \in {[kind |-> "test", name |-> t[n].name, key |-> "class"] :
                     n \in Python!TestClasses(t)}
      BY <1>7 DEF Python!TestsOf
    <3> HIDE DEF named
    <3> QED
      BY <3>1, Zenon
  <2>a. Python!TestClasses(t) \subseteq Python!Classes(t) /\ named \subseteq outer
    BY DEF Python!TestClasses
  <2> HIDE DEF named
  <2>1. \/ \E n \in outer : k = [kind |-> "test", name |-> t[n].name, key |-> "function"]
        \/ \E n \in Python!Classes(t) : k = [kind |-> "test", name |-> t[n].name, key |-> "class"]
    <3>1. \A n : n \in named => n \in outer
      BY <2>a
    <3>2. \A n : n \in Python!TestClasses(t) => n \in Python!Classes(t)
      BY <2>a
    <3> QED
      BY <2>0, <3>1, <3>2, Zenon
  <2>2. CASE \E n \in outer : k = [kind |-> "test", name |-> t[n].name, key |-> "function"]
    <3>1. PICK n \in outer : k = [kind |-> "test", name |-> t[n].name, key |-> "function"]
      BY <2>2
    <3>2. k.kind = "test" /\ k.key = "function" /\ k.name = t[n].name
      BY <3>1
    <3> QED
      BY <1>2, <3>2 DEF Lands, idx
  <2>3. CASE \E n \in Python!Classes(t) : k = [kind |-> "test", name |-> t[n].name, key |-> "class"]
    <3>1. PICK n \in Python!Classes(t) :
            k = [kind |-> "test", name |-> t[n].name, key |-> "class"]
      BY <2>3
    <3>2. k.kind = "test" /\ k.key = "class" /\ k.name = t[n].name
      BY <3>1
    <3> QED
      BY <1>3, <3>2 DEF Lands, idx
  <2> QED
    BY <2>1, <2>2, <2>3
<1> QED
  BY <1>1, <1>4, <1>5, <1>6, <1>7 DEF idx

LEMMA JavaConstructs ==
  ASSUME NEW t, NEW k \in Java!FileIndex(t).constructs,
         k.kind = "test" \/ (k.kind = "model" /\ k.key = "table")
  PROVE  Lands(Java!FileIndex(t), k)
<1> DEFINE idx == Java!FileIndex(t)
<1>1. idx.symbols = Java!SymbolsOf(t)
      /\ idx.constructs = Java!RoutesOf(t) \union Java!ModelsOf(t) \union Java!EventsOf(t)
                          \union Java!ConfigsOf(t) \union Java!TestsOf(t)
  BY DEF Java!FileIndex
<1> HIDE DEF idx
<1>2. \A n \in Java!Classes(t) : HasClass(idx, t[n].class)
  <2> SUFFICES ASSUME NEW n \in Java!Classes(t) PROVE HasClass(idx, t[n].class)
    OBVIOUS
  <2>1. [name |-> t[n].class, kind |-> "class", parent |-> ""] \in idx.symbols
    BY <1>1 DEF Java!SymbolsOf
  <2> QED
    BY <2>1 DEF HasClass
<1>3. CASE k \in Java!ModelsOf(t)
  <2>1. PICK n \in Java!Classes(t) : k.kind = "model" /\ k.name = t[n].class
    BY <1>3 DEF Java!ModelsOf, Java!Entities
  <2> QED
    BY <1>2, <2>1 DEF Lands, idx
<1>4. CASE k \in Java!TestsOf(t)
  <2>1. PICK n \in Java!Classes(t) : k.kind = "test" /\ k.key = "class" /\ k.name = t[n].class
    BY <1>4 DEF Java!TestsOf
  <2> QED
    BY <1>2, <2>1 DEF Lands, idx
<1>5. k \notin Java!RoutesOf(t) \union Java!EventsOf(t) \union Java!ConfigsOf(t)
  <2>1. \A r \in Java!RoutesOf(t) : r.kind = "route"
    <3>1. \A r \in Java!RoutesOf(t) : \E x, y : r = [kind |-> "route", name |-> x, key |-> y]
      BY Zenon DEF Java!RoutesOf
    <3> QED
      BY <3>1
  <2>2. \A r \in Java!EventsOf(t) : r.kind = "event"
    <3>1. \A r \in Java!EventsOf(t) : \E x, y : r = [kind |-> "event", name |-> x, key |-> y]
      BY Zenon DEF Java!EventsOf
    <3> QED
      BY <3>1
  <2>3. \A r \in Java!ConfigsOf(t) : r.kind = "config"
    <3>1. \A r \in Java!ConfigsOf(t) : \E x, y : r = [kind |-> "config", name |-> x, key |-> y]
      BY Zenon DEF Java!ConfigsOf
    <3> QED
      BY <3>1
  <2> QED
    BY <2>1, <2>2, <2>3
<1> QED
  BY <1>1, <1>3, <1>4, <1>5 DEF idx

-----------------------------------------------------------------------------
(* Facts land on symbols.                                                  *)

\* The identifiers of rows are those of the symbols.
LEMMA FunctionRow ==
  ASSUME NEW f, NEW idx, NEW name, NEW parent, HasFunction(idx, name, parent)
  PROVE  /\ SymbolId(f, name, "function", parent) \in SymbolsIn(f, idx)
         /\ Fqn(f, name, "", parent) \in DefinedRows(f, idx)
<1>1. PICK s \in idx.symbols : s.name = name /\ s.parent = parent
                               /\ (parent = "" => s.kind # "class")
  BY DEF HasFunction
<1>2. SymbolId(f, name, "function", parent) = SymbolId(f, s.name, s.kind, s.parent)
  BY <1>1 DEF SymbolId
<1>3. Fqn(f, name, "", parent) = Fqn(f, s.name, s.kind, s.parent)
  BY <1>1 DEF Fqn
<1> QED
  BY <1>2, <1>3 DEF SymbolsIn, DefinedRows

LEMMA ClassRow ==
  ASSUME NEW f, NEW idx, NEW name, HasClass(idx, name)
  PROVE  /\ SymbolId(f, name, "class", "") \in SymbolsIn(f, idx)
         /\ Fqn(f, name, "class", "") \in DefinedRows(f, idx)
<1>1. PICK s \in idx.symbols : s.name = name /\ s.parent = "" /\ s.kind = "class"
  BY DEF HasClass
<1> QED
  BY <1>1 DEF SymbolsIn, DefinedRows

LEMMA ConstructRow ==
  ASSUME NEW f, NEW idx, NEW k, Lands(idx, k), k.name # ""
  PROVE  ConstructOn(f, k) \in SymbolsIn(f, idx)
<1>1. CASE k.kind = "route" /\ HasFunction(idx, k.name, "")
  BY <1>1, FunctionRow DEF ConstructOn
<1>2. CASE k.kind = "model" /\ HasClass(idx, k.name)
  BY <1>2, ClassRow DEF ConstructOn
<1>3. CASE k.kind = "test" /\ k.key = "function" /\ HasFunction(idx, k.name, "")
  BY <1>3, FunctionRow DEF ConstructOn
<1>4. CASE k.kind = "test" /\ k.key = "class" /\ HasClass(idx, k.name)
  BY <1>4, ClassRow DEF ConstructOn
<1> QED
  BY <1>1, <1>2, <1>3, <1>4 DEF Lands

\* The facts of a file that parses are those of its tree in the language.
LEMMA FactsOfFile ==
  ASSUME TablesInv, NEW f \in Parsed
  PROVE  LET t == TreeOf[told[f]] IN
         /\ language = "python" => Tree(t) /\ FactsIn(f) = Python!FileIndex(t)
         /\ language = "typescript" =>
              Tree(t) /\ TypeScript!ValuesNamed(t) /\ FactsIn(f) = TypeScript!FileIndex(t)
         /\ language = "java" => FactsIn(f) = Java!FileIndex(t)
<1> DEFINE c == told[f]
<1>1. f \in Files /\ c # Absent /\ c \notin Unparsable
  BY DEF Parsed, Parsing
<1>2. language \in Languages /\ c \in ContentsOf[language][f]
  BY <1>1 DEF TablesInv, Repos
<1>3. c \in ContentsIn(language) /\ c \in Contents
  BY <1>1, <1>2, ContentsAssumption DEF ContentsIn
<1>4. \A l \in Languages : c \in ContentsIn(l) => l = language
  BY <1>2, <1>3, TreesAssumption
<1>5. FactsIn(f) = FactsOf[c]
  BY DEF TablesInv, ContributionsCurrent, FactsIn, Contribution
<1> HIDE DEF c
<1>6. FactsOf[c] = IF c \in ContentsIn("python") THEN Python!FileIndex(TreeOf[c])
                   ELSE IF c \in ContentsIn("typescript") THEN TypeScript!FileIndex(TreeOf[c])
                   ELSE Java!FileIndex(TreeOf[c])
  BY <1>1, <1>3 DEF FactsOf
<1>7. CASE language = "python"
  <2>1. Tree(TreeOf[c])
    BY <1>1, <1>3, <1>7, TreesAssumption DEF Tree
  <2> QED
    BY <1>3, <1>5, <1>6, <1>7, <2>1 DEF c
<1>8. CASE language = "typescript"
  <2>1. TypeScript!IsTree(TreeOf[c]) /\ TypeScript!ValuesNamed(TreeOf[c])
    BY <1>1, <1>3, <1>8, TreesAssumption
  <2>2. Tree(TreeOf[c])
    BY <2>1 DEF Tree, Python!IsTree, TypeScript!IsTree
  <2>3. c \notin ContentsIn("python")
    BY <1>4, <1>8 DEF Languages
  <2> QED
    BY <1>3, <1>5, <1>6, <1>8, <2>1, <2>2, <2>3 DEF c
<1>9. CASE language = "java"
  <2>1. c \notin ContentsIn("python") /\ c \notin ContentsIn("typescript")
    BY <1>4, <1>9 DEF Languages
  <2> QED
    BY <1>5, <1>6, <1>9, <2>1 DEF c
<1> QED
  BY <1>2, <1>7, <1>8, <1>9 DEF Languages

\* In a file that parses, the caller of a listed call and the carrier of a grounded
\* fact are symbols of the file.
LEMMA ClaimedFacts ==
  ASSUME TablesInv, NEW f \in Parsed
  PROVE  /\ \A c \in FactsIn(f).calls : Listed(f, c) => HasFunction(FactsIn(f), c.caller, c.owner)
         /\ \A k \in FactsIn(f).constructs : Grounded(f, k) => Lands(FactsIn(f), k)
<1> DEFINE t == TreeOf[told[f]]
<1>1. /\ language = "python" => Tree(t) /\ FactsIn(f) = Python!FileIndex(t)
      /\ language = "typescript" =>
           Tree(t) /\ TypeScript!ValuesNamed(t) /\ FactsIn(f) = TypeScript!FileIndex(t)
      /\ language = "java" => FactsIn(f) = Java!FileIndex(t)
  BY FactsOfFile
<1>2. language \in {"python", "typescript", "java"}
  BY DEF TablesInv, Languages
<1>3. CASE language = "python"
  <2>1. \A c \in Python!CallsOf(t) :
          Python!Listed(t, c) => HasFunction(Python!FileIndex(t), c.caller, c.owner)
    BY <1>1, <1>3, PythonCallers
  <2>2. \A c : Listed(f, c) <=> Python!Listed(t, c)
    BY <1>3 DEF Listed
  <2>3. Python!FileIndex(t).calls = Python!CallsOf(t)
    BY DEF Python!FileIndex
  <2>4. \A k \in Python!FileIndex(t).constructs : Lands(Python!FileIndex(t), k)
    BY PythonConstructs
  <2> HIDE DEF t
  <2> QED
    BY <1>1, <1>3, <2>1, <2>2, <2>3, <2>4
<1>4. CASE language = "typescript"
  <2>1. \A c \in TypeScript!CallsOf(t) :
          TypeScript!Listed(t, c) => HasFunction(TypeScript!FileIndex(t), c.caller, c.owner)
    BY <1>1, <1>4, TypeScriptCallers
  <2>2. \A c : Listed(f, c) <=> TypeScript!Listed(t, c)
    BY <1>4 DEF Listed
  <2>3. TypeScript!FileIndex(t).calls = TypeScript!CallsOf(t)
    BY DEF TypeScript!FileIndex
  <2>4. \A k \in TypeScript!FileIndex(t).constructs : k.kind = "route"
    <3>1. \A k \in TypeScript!RoutesOf(t) : \E x, y : k = [kind |-> "route", name |-> x, key |-> y]
      <4> DEFINE routed(n) == {[kind |-> "route", name |-> r[2], key |-> r[1]] : r \in t[n].routes}
                 marked(n) == {[kind |-> "route", name |-> t[n].name, key |-> r] :
                                 r \in t[n].routes}
                 methods == TypeScript!Nodes(t, {"method"}) \ TypeScript!Dispatched(t)
      <4>1. TypeScript!RoutesOf(t) = (UNION {routed(n) : n \in TypeScript!Nodes(t, {"call"})})
                                     \union (UNION {marked(n) : n \in methods})
        BY DEF TypeScript!RoutesOf
      <4>2. \A n : \A k \in routed(n) : \E x, y : k = [kind |-> "route", name |-> x, key |-> y]
        BY Zenon
      <4>3. \A n : \A k \in marked(n) : \E x, y : k = [kind |-> "route", name |-> x, key |-> y]
        BY Zenon
      <4> HIDE DEF routed, marked, methods
      <4> QED
        <5>1. SUFFICES ASSUME NEW k \in TypeScript!RoutesOf(t)
                       PROVE  \E x, y : k = [kind |-> "route", name |-> x, key |-> y]
          OBVIOUS
        <5>2. \/ k \in UNION {routed(n) : n \in TypeScript!Nodes(t, {"call"})}
              \/ k \in UNION {marked(n) : n \in methods}
          BY <4>1, Zenon
        <5>3. (\E n : k \in routed(n)) \/ (\E n : k \in marked(n))
          BY <5>2, Zenon
        <5> QED
          BY <4>2, <4>3, <5>3, Zenon
    <3>2. TypeScript!FileIndex(t).constructs = TypeScript!RoutesOf(t)
      BY DEF TypeScript!FileIndex
    <3> QED
      BY <3>1, <3>2
  <2>5. \A k : Grounded(f, k) => HasFunction(FactsIn(f), k.name, "")
    BY <1>4 DEF Grounded, HasFunction
  <2> HIDE DEF t
  <2> QED
    BY <1>1, <1>4, <2>1, <2>2, <2>3, <2>4, <2>5 DEF Lands
<1>5. CASE language = "java"
  <2>1. \A c : ~Listed(f, c)
    BY <1>5 DEF Listed
  <2>2. \A k : Grounded(f, k) => k.kind = "test" \/ (k.kind = "model" /\ k.key = "table")
    BY <1>5 DEF Grounded
  <2>3. \A k \in Java!FileIndex(t).constructs :
          k.kind = "test" \/ (k.kind = "model" /\ k.key = "table") => Lands(Java!FileIndex(t), k)
    BY JavaConstructs
  <2> HIDE DEF t
  <2> QED
    BY <1>1, <1>5, <2>1, <2>2, <2>3
<1> QED
  BY <1>2, <1>3, <1>4, <1>5

\* A call edge starts at the identifier that the fact of the call gives.
CallsNamed(g) ==
  \A e \in BagToSet(g.calls) :
    e.from = SymbolId(e.file, e.call.caller, "function", e.call.owner)

LEMMA EdgesNamed ==
  ASSUME NEW scope, NEW fs
  PROVE  \A e \in BagToSet(CallsIn(scope, fs)) :
           e.from = SymbolId(e.file, e.call.caller, "function", e.call.owner)
<1>1. ASSUME NEW f, NEW e \in FileCalls(scope, f)
      PROVE  e.from = SymbolId(e.file, e.call.caller, "function", e.call.owner)
  <2>1. PICK c \in scope.contribs[f].calls :
          e = [file |-> f, from |-> SymbolId(f, c.caller, "function", c.owner), call |-> c,
               to |-> Callee(scope, f, c)]
    BY <1>1 DEF FileCalls
  <2> QED
    BY <2>1
<1>2. BagToSet(CallsIn(scope, fs)) = UNION {FileCalls(scope, f) : f \in fs}
  BY DEF CallsIn, SetToBag, BagToSet
<1> QED
  BY <1>1, <1>2

LEMMA CompileNamed ==
  ASSUME NEW files, NEW order
  PROVE  CallsNamed(CompileGraph(files, order))
<1>1. \E scope, fs : CompileGraph(files, order).calls = CallsIn(scope, fs)
  BY DEF CompileGraph
<1> QED
  BY <1>1, EdgesNamed DEF CallsNamed

LEMMA PatchNamed ==
  ASSUME NEW g, CallsNamed(g), NEW changed, NEW named
  PROVE  CallsNamed(Patch(g, changed, named))
<1> DEFINE p == Patch(g, changed, named)
<1>1. PICK affected, scope, fs :
        p.calls = Elsewhere(g.calls, affected) (+) CallsIn(scope, fs)
  BY DEF Patch
<1>2. BagToSet(p.calls) = BagToSet(Elsewhere(g.calls, affected)) \union BagToSet(CallsIn(scope, fs))
  BY <1>1 DEF (+), BagToSet
<1>3. BagToSet(Elsewhere(g.calls, affected)) \subseteq BagToSet(g.calls)
  BY DEF Elsewhere, BagToSet
<1> HIDE DEF p
<1>4. \A e \in BagToSet(p.calls) :
        e.from = SymbolId(e.file, e.call.caller, "function", e.call.owner)
  BY <1>2, <1>3, EdgesNamed DEF CallsNamed
<1> QED
  BY <1>4 DEF CallsNamed, p

LEMMA NamedInv == Spec => []CallsNamed(graph)
<1>1. Init => CallsNamed(graph)
  BY CompileNamed DEF Init
<1>2. CallsNamed(graph) /\ [Next]_vars => CallsNamed(graph)'
  <2> SUFFICES ASSUME CallsNamed(graph), [Next]_vars PROVE CallsNamed(graph)'
    OBVIOUS
  <2>1. CASE UNCHANGED vars
    BY <2>1 DEF vars, CallsNamed
  <2>2. ASSUME NEW changed, Apply(changed)
        PROVE  CallsNamed(graph)'
    <3>1. graph' = graph \/ \E named : graph' = Patch(graph, changed, named)
      BY <2>2 DEF Apply
    <3> QED
      BY <3>1, PatchNamed DEF CallsNamed
  <2>3. CASE Next
    BY <2>2, <2>3 DEF Next, Incremental, ChangedOnly
  <2> QED
    BY <2>1, <2>3
<1> QED
  BY <1>1, <1>2, PTL DEF Spec

\* The symbols of a file that parses are in the table.
LEMMA LandFromInv == TablesInv /\ CallsNamed(graph) => FactsLand
<1> SUFFICES ASSUME TablesInv, CallsNamed(graph), NEW f \in Parsed
             PROVE  LET claimed == [FactsIn(f) EXCEPT
                                      !.calls = {call \in @ : Listed(f, call)},
                                      !.constructs = {k \in @ : Grounded(f, k)}]
                    IN /\ CallRows(f, claimed) \union EndpointRows(f, claimed)
                            \union ModelRows(f, claimed) \subseteq DefinedRows(f, claimed)
                       /\ \A e \in BagToSet(graph.calls) :
                            e.file = f /\ e.call \in claimed.calls => e.from \in graph.symbols
                       /\ \A e \in BagToSet(graph.constructs) :
                            e.file = f /\ e.fact \in claimed.constructs => e.on \in graph.symbols
  BY DEF FactsLand
<1> DEFINE idx == FactsIn(f)
           claimed == [idx EXCEPT !.calls = {call \in @ : Listed(f, call)},
                                  !.constructs = {k \in @ : Grounded(f, k)}]
<1>1. /\ DefinedRows(f, claimed) = DefinedRows(f, idx)
      /\ claimed.calls = {call \in idx.calls : Listed(f, call)}
      /\ claimed.constructs = {k \in idx.constructs : Grounded(f, k)}
  <2>1. \E a, b, c, d, e : idx = [symbols |-> a, imports |-> b, calls |-> c, types |-> d,
                                  constructs |-> e]
    BY FactsOfFile DEF TablesInv, Languages, Python!FileIndex, TypeScript!FileIndex, Java!FileIndex
  <2> HIDE DEF idx
  <2>2. /\ claimed.symbols = idx.symbols
        /\ claimed.calls = {call \in idx.calls : Listed(f, call)}
        /\ claimed.constructs = {k \in idx.constructs : Grounded(f, k)}
    BY <2>1
  <2> QED
    BY <2>2 DEF DefinedRows
<1>2. /\ \A c \in idx.calls : Listed(f, c) => HasFunction(idx, c.caller, c.owner)
      /\ \A k \in idx.constructs : Grounded(f, k) => Lands(idx, k)
  BY ClaimedFacts
<1>3. f \in DOMAIN graph.files /\ Contribs(graph.files)[f] = idx
  BY DEF TablesInv, ContributionsCurrent, Contribs, FactsIn
<1>4. SymbolsIn(f, idx) \subseteq graph.symbols
  BY <1>3 DEF TablesInv, Tabled, AllSymbols
<1> HIDE DEF idx
<1>5. /\ \A c \in claimed.calls : c \in idx.calls /\ HasFunction(idx, c.caller, c.owner)
      /\ \A k \in claimed.constructs : k \in idx.constructs /\ Lands(idx, k)
  BY <1>1, <1>2
<1> HIDE DEF claimed
<1>6. CallRows(f, claimed) \subseteq DefinedRows(f, idx)
  BY <1>5, FunctionRow DEF CallRows
<1>7. EndpointRows(f, claimed) \subseteq DefinedRows(f, idx)
  <2>1. \A k \in ConstructsOf(claimed, "route") : HasFunction(idx, k.name, "")
    BY <1>5 DEF ConstructsOf, Lands
  <2> QED
    BY <2>1, FunctionRow DEF EndpointRows
<1>8. ModelRows(f, claimed) \subseteq DefinedRows(f, idx)
  <2>1. \A k \in ConstructsOf(claimed, "model") : HasClass(idx, k.name)
    BY <1>5 DEF ConstructsOf, Lands
  <2> QED
    BY <2>1, ClassRow DEF ModelRows
<1>9. ASSUME NEW e \in BagToSet(graph.calls), e.file = f, e.call \in claimed.calls
      PROVE  e.from \in graph.symbols
  <2>1. e.from = SymbolId(f, e.call.caller, "function", e.call.owner)
    BY <1>9 DEF CallsNamed
  <2>2. HasFunction(idx, e.call.caller, e.call.owner)
    BY <1>5, <1>9
  <2> QED
    BY <1>4, <2>1, <2>2, FunctionRow
<1>10. ASSUME NEW e \in BagToSet(graph.constructs), e.file = f, e.fact \in claimed.constructs
       PROVE  e.on \in graph.symbols
  <2>1. BagToSet(graph.constructs)
          = UNION {FileConstructs(x, Contribs(graph.files)[x]) : x \in DOMAIN graph.files}
    BY DEF TablesInv, Tabled, ConstructsIn, SetToBag, BagToSet
  <2>2. PICK x \in DOMAIN graph.files : e \in FileConstructs(x, Contribs(graph.files)[x])
    BY <2>1
  <2>3. e.on = ConstructOn(x, e.fact) /\ e.file = x /\ e.fact.name # ""
    <3>1. PICK c \in {d \in Contribs(graph.files)[x].constructs : d.name # ""} :
            e = [file |-> x, fact |-> c, on |-> ConstructOn(x, c)]
      BY <2>2 DEF FileConstructs
    <3> QED
      BY <3>1
  <2> QED
    BY <1>4, <1>5, <1>10, <2>3, ConstructRow
<1> QED
  BY <1>1, <1>6, <1>7, <1>8, <1>9, <1>10 DEF claimed, idx

\* The callers of calls and the carriers of constructs are symbols of the graph, and
\* rows of endpoints, models and calls are those of defined symbols, for every tree
\* that a parser may give and however often the graph is patched.
THEOREM FactsLandHolds == Spec => []FactsLand
<1>1. Spec => []TablesInv
  BY InitInv, NextInv, PTL DEF Spec
<1> QED BY <1>1, NamedInv, LandFromInv, PTL

-----------------------------------------------------------------------------
(* References and calls.                                                   *)

\* what identifiers say of themselves
LEMMA IdsTell ==
  ASSUME NEW f, NEW n, NEW k, NEW p, NEW imp
  PROVE  /\ FileOf(SymbolId(f, n, k, p)) = f /\ NameOf(SymbolId(f, n, k, p)) = n
         /\ SymbolId(f, n, k, p)[1] \in {"member", "class", "module"}
         /\ ImportId(f, imp)[1] = "import" /\ FileOf(ImportId(f, imp)) = f
         /\ NameOf(ImportId(f, imp)) = imp.names[1]
         /\ ImportId(f, imp) = <<"import", f, imp.names[1]>>
<1>1. \A a, b, c, d : /\ <<a, b, c, d>>[1] = a /\ <<a, b, c, d>>[2] = b
                      /\ Len(<<a, b, c, d>>) = 4 /\ <<a, b, c, d>>[4] = d
  OBVIOUS
<1>2. \A a, b, c : /\ <<a, b, c>>[1] = a /\ <<a, b, c>>[2] = b
                   /\ Len(<<a, b, c>>) = 3 /\ <<a, b, c>>[3] = c
  OBVIOUS
<1>3. ImportId(f, imp) = <<"import", f, imp.names[1]>>
  BY DEF ImportId
<1>4. /\ SymbolId(f, n, k, p) \in {<<"member", f, p, n>>, <<"class", f, n>>, <<"module", f, n>>}
  BY DEF SymbolId
<1>5. \A id \in {<<"member", f, p, n>>, <<"class", f, n>>, <<"module", f, n>>} :
        FileOf(id) = f /\ NameOf(id) = n /\ id[1] \in {"member", "class", "module"}
  <2>1. <<"member", f, p, n>>[1] = "member" /\ FileOf(<<"member", f, p, n>>) = f
        /\ NameOf(<<"member", f, p, n>>) = n
    BY <1>1 DEF FileOf, NameOf
  <2>2. <<"class", f, n>>[1] = "class" /\ FileOf(<<"class", f, n>>) = f
        /\ NameOf(<<"class", f, n>>) = n
    BY <1>2 DEF FileOf, NameOf
  <2>3. <<"module", f, n>>[1] = "module" /\ FileOf(<<"module", f, n>>) = f
        /\ NameOf(<<"module", f, n>>) = n
    BY <1>2 DEF FileOf, NameOf
  <2> QED
    BY <2>1, <2>2, <2>3
<1>6. ImportId(f, imp)[1] = "import" /\ FileOf(ImportId(f, imp)) = f
      /\ NameOf(ImportId(f, imp)) = imp.names[1]
  BY <1>2, <1>3 DEF FileOf, NameOf
<1> QED
  BY <1>3, <1>4, <1>5, <1>6, Zenon

\* the identifiers are of files, and of each file there are finitely many
Identified(symbols, imports) ==
  /\ \A id \in symbols : id[1] \in {"member", "class", "module"} /\ FileOf(id) \in Files
  /\ \A id \in imports : id[1] = "import" /\ FileOf(id) \in Files
                         /\ id = <<"import", FileOf(id), NameOf(id)>>
  /\ \A f \in Files : /\ IsFiniteSet({id \in symbols : FileOf(id) = f})
                      /\ IsFiniteSet({id \in imports : FileOf(id) = f})

\* No symbol is an import.
LEMMA TagsDiffer ==
  ASSUME NEW symbols, NEW imports, Identified(symbols, imports)
  PROVE  \A id \in symbols : id \notin imports
<1>1. "member" # "import" /\ "class" # "import" /\ "module" # "import"
  OBVIOUS
<1> QED
  BY <1>1 DEF Identified

\* What a file has under a name, as a sequence.
LEMMA NamedInIs ==
  ASSUME NEW ids, NEW f, NEW n, IsFiniteSet({id \in ids : FileOf(id) = f})
  PROVE  /\ NamedIn(ids, f, n) \in Seq(ids)
         /\ ToSet(NamedIn(ids, f, n)) = {id \in ids : FileOf(id) = f /\ NameOf(id) = n}
<1> DEFINE A == {id \in ids : FileOf(id) = f /\ NameOf(id) = n}
<1>1. A \subseteq {id \in ids : FileOf(id) = f}
  OBVIOUS
<1>2. IsFiniteSet(A) /\ A \subseteq ids
  <2>1. IsFiniteSet(A)
    BY <1>1, FS_Subset
  <2> QED
    BY <2>1
<1>3. NamedIn(ids, f, n) = SetToSeq(A)
  BY DEF NamedIn
<1> HIDE DEF A
<1>4. SetToSeq(A) \in Seq(A) /\ ToSet(SetToSeq(A)) = A
  BY <1>2, SetAsSequence
<1>5. SetToSeq(A) \in Seq(ids)
  BY <1>2, <1>4, SeqMonotonic
<1> QED
  BY <1>3, <1>4, <1>5 DEF A

\* an order lists the files
LEMMA OrdersList ==
  ASSUME NEW order \in Orders
  PROVE  /\ Cardinality(Files) \in Nat /\ order \in [1 .. Cardinality(Files) -> Files]
         /\ DOMAIN order = 1 .. Cardinality(Files)
         /\ \A f \in Files : \E i \in 1 .. Cardinality(Files) : order[i] = f
<1> DEFINE n == Cardinality(Files)
<1>1. n \in Nat
  BY FilesAssumption, FS_CardinalityType
<1>2. order \in [1 .. n -> Files] /\ \A i, j \in 1 .. n : i # j => order[i] # order[j]
  BY DEF Orders, SetToSeqs
<1>3. IsFiniteSet(1 .. n) /\ Cardinality(1 .. n) = n
  BY <1>1, FS_Interval
<1>4. order \in Injection(1 .. n, Files)
  BY <1>2 DEF Injection, IsInjective
<1>5. order \in Surjection(1 .. n, Files)
  BY <1>3, <1>4, FilesAssumption, FS_Injection
<1> QED
  BY <1>1, <1>2, <1>5 DEF Surjection

\* Some order has a given file first, and some has it last.
LEMMA OrderExists ==
  ASSUME NEW f \in Files
  PROVE  /\ Cardinality(Files) \in Nat /\ Cardinality(Files) # 0
         /\ \E order \in Orders : order[1] = f
         /\ \E order \in Orders : order[Cardinality(Files)] = f
<1> DEFINE n == Cardinality(Files)
<1>1. n \in Nat /\ n # 0
  BY FilesAssumption, FS_CardinalityType, FS_EmptySet
<1>2. PICK g \in Bijection(1 .. n, Files) : TRUE
  <2>1. ExistsBijection(1 .. n, Files)
    BY FilesAssumption, FS_CardinalityType
  <2> QED
    BY <2>1 DEF ExistsBijection
<1>3. /\ g \in [1 .. n -> Files] /\ \A i, j \in 1 .. n : i # j => g[i] # g[j]
      /\ \E m \in 1 .. n : g[m] = f
  BY <1>2 DEF Bijection, Injection, Surjection, IsInjective
<1>4. PICK m \in 1 .. n : g[m] = f
  BY <1>3
<1> HIDE DEF n
<1>5. ASSUME NEW a \in 1 .. n PROVE \E order \in Orders : order[a] = f
  <2> DEFINE o == [i \in 1 .. n |-> IF i = a THEN f ELSE IF i = m THEN g[a] ELSE g[i]]
  <2>1. o \in [1 .. n -> Files] /\ o[a] = f
    BY <1>3
  <2>2. \A i, j \in 1 .. n : i # j => o[i] # o[j]
    BY <1>3, <1>4
  <2> HIDE DEF o
  <2>3. o \in Orders
    BY <2>1, <2>2 DEF Orders, SetToSeqs, n
  <2> QED
    BY <2>1, <2>3
<1>6. 1 \in 1 .. n /\ n \in 1 .. n
  BY <1>1
<1> QED
  BY <1>1, <1>5, <1>6 DEF n

\* What holds of the candidates for a name, whichever order they were gathered in.
Gathered(cs, symbols, imports, n) ==
  /\ cs \in Seq(symbols \union imports)
  /\ ToSet(cs) = {id \in symbols \union imports : NameOf(id) = n}
  /\ Len(cs) > 0 =>
       \/ cs[1] \in symbols
       \/ cs[1] \in imports /\ ToSet(NamedIn(symbols, FileOf(cs[1]), n)) = {}

\* A name that nothing carries has no candidates.
LEMMA NoneGathered ==
  ASSUME NEW symbols, NEW imports, NEW n,
         n \notin {NameOf(id) : id \in symbols \union imports}
  PROVE  Gathered(<<>>, symbols, imports, n)
<1>1. <<>> \in Seq(symbols \union imports) /\ Len(<<>>) = 0 /\ ToSet(<<>>) = {}
  BY EmptySeq DEF ToSet
<1>2. ToSet(<<>>) = {id \in symbols \union imports : NameOf(id) = n}
  BY <1>1
<1> QED
  BY <1>1, <1>2 DEF Gathered

\* the candidates of a full compile, file by file
FileCandidates(symbols, imports, order, n) ==
  [i \in DOMAIN order |-> NamedIn(symbols, order[i], n) \o NamedIn(imports, order[i], n)]

\* they are, for each file, what it has under the name
GatheredByFile(symbols, imports, order, n) ==
  /\ FileCandidates(symbols, imports, order, n)
       \in [1 .. Cardinality(Files) -> Seq(symbols \union imports)]
  /\ \A i \in 1 .. Cardinality(Files) :
       /\ order[i] \in Files
       /\ NamedIn(symbols, order[i], n) \in Seq(symbols \union imports)
       /\ NamedIn(imports, order[i], n) \in Seq(symbols \union imports)
       /\ FileCandidates(symbols, imports, order, n)[i]
            = NamedIn(symbols, order[i], n) \o NamedIn(imports, order[i], n)
       /\ ToSet(NamedIn(symbols, order[i], n))
            = {id \in symbols : FileOf(id) = order[i] /\ NameOf(id) = n}
       /\ ToSet(NamedIn(imports, order[i], n))
            = {id \in imports : FileOf(id) = order[i] /\ NameOf(id) = n}

\* So the candidates are those of the files.
LEMMA FileCandidatesAre ==
  ASSUME NEW symbols, NEW imports, Identified(symbols, imports), NEW order \in Orders, NEW n
  PROVE  GatheredByFile(symbols, imports, order, n)
<1> DEFINE N == Cardinality(Files)
           ids == symbols \union imports
<1>1. N \in Nat /\ order \in [1 .. N -> Files] /\ DOMAIN order = 1 .. N
  BY OrdersList
<1>2. ASSUME NEW f \in Files
      PROVE  /\ NamedIn(symbols, f, n) \in Seq(ids) /\ NamedIn(imports, f, n) \in Seq(ids)
             /\ ToSet(NamedIn(symbols, f, n)) = {id \in symbols : FileOf(id) = f /\ NameOf(id) = n}
             /\ ToSet(NamedIn(imports, f, n)) = {id \in imports : FileOf(id) = f /\ NameOf(id) = n}
             /\ NamedIn(symbols, f, n) \o NamedIn(imports, f, n) \in Seq(ids)
  <2>1. IsFiniteSet({id \in symbols : FileOf(id) = f}) /\ IsFiniteSet({id \in imports : FileOf(id) = f})
    BY DEF Identified
  <2>2. NamedIn(symbols, f, n) \in Seq(symbols) /\ NamedIn(imports, f, n) \in Seq(imports)
        /\ ToSet(NamedIn(symbols, f, n)) = {id \in symbols : FileOf(id) = f /\ NameOf(id) = n}
        /\ ToSet(NamedIn(imports, f, n)) = {id \in imports : FileOf(id) = f /\ NameOf(id) = n}
    BY <2>1, NamedInIs
  <2>3. symbols \subseteq ids /\ imports \subseteq ids
    OBVIOUS
  <2> HIDE DEF ids
  <2>4. NamedIn(symbols, f, n) \in Seq(ids) /\ NamedIn(imports, f, n) \in Seq(ids)
    BY <2>2, <2>3, SeqMonotonic
  <2> QED
    BY <2>2, <2>4, ConcatProperties
<1> DEFINE groups == FileCandidates(symbols, imports, order, n)
<1>3. \A i \in 1 .. N : order[i] \in Files
                        /\ groups[i] = NamedIn(symbols, order[i], n) \o NamedIn(imports, order[i], n)
  BY <1>1 DEF FileCandidates
<1>4. groups = [i \in 1 .. N |-> NamedIn(symbols, order[i], n) \o NamedIn(imports, order[i], n)]
  BY <1>1 DEF FileCandidates
<1>5. groups \in [1 .. N -> Seq(ids)]
  <2>1. \A i \in 1 .. N : NamedIn(symbols, order[i], n) \o NamedIn(imports, order[i], n) \in Seq(ids)
    BY <1>2, <1>3
  <2> HIDE DEF groups, ids, N
  <2> QED
    BY <1>4, <2>1
<1> QED
  BY <1>2, <1>3, <1>5 DEF GatheredByFile

\* The candidates of a full compile are all that carry the name.
LEMMA CompileGathered ==
  ASSUME NEW symbols, NEW imports, Identified(symbols, imports), NEW order \in Orders, NEW n
  PROVE  Gathered(Candidates(CompileCandidates(symbols, imports, order), n), symbols, imports, n)
<1> DEFINE N == Cardinality(Files)
           ids == symbols \union imports
           groups == FileCandidates(symbols, imports, order, n)
           cs == FlattenSeq(groups)
           named == CompileCandidates(symbols, imports, order)
<1>1. DOMAIN named = {NameOf(id) : id \in ids}
  BY DEF CompileCandidates
<1>2. n \in DOMAIN named => Candidates(named, n) = cs
  BY DEF CompileCandidates, Candidates, FileCandidates
<1>3. n \notin DOMAIN named => Candidates(named, n) = <<>>
  BY DEF Candidates
<1>4. CASE n \notin DOMAIN named
  <2> HIDE DEF named
  <2>1. Gathered(<<>>, symbols, imports, n)
    BY <1>1, <1>4, NoneGathered
  <2> QED
    BY <1>3, <1>4, <2>1 DEF named
<1>5. CASE n \in DOMAIN named
  <2>0. N \in Nat /\ \A f \in Files : \E i \in 1 .. N : order[i] = f
    BY OrdersList
  <2> HIDE DEF named
  <2>1. GatheredByFile(symbols, imports, order, n)
    BY FileCandidatesAre
  <2>1a. groups \in [1 .. N -> Seq(ids)]
    BY <2>1 DEF GatheredByFile
  <2>1b. ASSUME NEW i \in 1 .. N
         PROVE  /\ order[i] \in Files
                /\ NamedIn(symbols, order[i], n) \in Seq(ids)
                /\ NamedIn(imports, order[i], n) \in Seq(ids)
                /\ groups[i] = NamedIn(symbols, order[i], n) \o NamedIn(imports, order[i], n)
                /\ ToSet(NamedIn(symbols, order[i], n))
                     = {id \in symbols : FileOf(id) = order[i] /\ NameOf(id) = n}
                /\ ToSet(NamedIn(imports, order[i], n))
                     = {id \in imports : FileOf(id) = order[i] /\ NameOf(id) = n}
    BY <2>1 DEF GatheredByFile
  <2> HIDE DEF groups, N
  <2>2. \A id \in ids : FileOf(id) \in Files
    BY DEF Identified
  <2>3. \A id \in symbols : id \notin imports
    BY TagsDiffer
  <2> HIDE DEF ids
  <2>4. cs \in Seq(ids) /\ \A x : x \in ToSet(cs) <=> \E i \in 1 .. N : x \in ToSet(groups[i])
    BY <2>0, <2>1a, FlattenElements
  <2>5. \A i \in 1 .. N : ToSet(groups[i]) = {id \in ids : FileOf(id) = order[i] /\ NameOf(id) = n}
    <3>1. ASSUME NEW i \in 1 .. N
          PROVE  ToSet(groups[i]) = ToSet(NamedIn(symbols, order[i], n))
                                      \union ToSet(NamedIn(imports, order[i], n))
      <4> DEFINE a == NamedIn(symbols, order[i], n)
                 b == NamedIn(imports, order[i], n)
      <4>1. a \in Seq(ids) /\ b \in Seq(ids) /\ groups[i] = a \o b
        BY <2>1b
      <4> HIDE DEF a, b
      <4>2. ToSet(a \o b) = ToSet(a) \union ToSet(b)
        BY <4>1, ConcatElements
      <4>3. groups[i] = a \o b
        BY <4>1
      <4> QED
        BY <4>2, <4>3, Zenon DEF a, b
    <3> QED
      BY <2>1b, <3>1 DEF ids
  <2>6. ToSet(cs) = {id \in ids : NameOf(id) = n}
    <3>1. \A x \in ToSet(cs) : x \in ids /\ NameOf(x) = n
      BY <2>4, <2>5
    <3>2. \A x \in ids : NameOf(x) = n => x \in ToSet(cs)
      BY <2>0, <2>2, <2>4, <2>5
    <3> QED
      BY <3>1, <3>2
  <2>7. ASSUME Len(cs) > 0
        PROVE  \/ cs[1] \in symbols
               \/ cs[1] \in imports /\ ToSet(NamedIn(symbols, FileOf(cs[1]), n)) = {}
    <3>1. PICK i \in 1 .. N : Len(groups[i]) > 0 /\ cs[1] = groups[i][1]
      <4>1. Len(FlattenSeq(groups)) > 0
        BY <2>7
      <4>2. \E i \in 1 .. N : /\ Len(groups[i]) > 0 /\ SameAt(FlattenSeq(groups), 1, groups[i], 1)
                              /\ \A l \in 1 .. N : l < i => Len(groups[l]) = 0
        BY <2>0, <2>1a, <4>1, FlattenHead
      <4> HIDE DEF cs
      <4> QED
        BY <4>2 DEF SameAt, cs
    <3> DEFINE a == NamedIn(symbols, order[i], n)
               b == NamedIn(imports, order[i], n)
    <3>2. /\ a \in Seq(ids) /\ b \in Seq(ids) /\ groups[i] = a \o b /\ order[i] \in Files
          /\ \A x \in ToSet(b) : x \in imports /\ FileOf(x) = order[i]
          /\ \A x \in ToSet(a) : x \in symbols
      BY <2>1b
    <3> HIDE DEF a, b, cs
    <3>3. \/ Len(a) > 0 /\ cs[1] = a[1]
          \/ Len(a) = 0 /\ Len(b) > 0 /\ cs[1] = b[1]
      BY <3>1, <3>2, ConcatHead
    <3>4. CASE Len(a) > 0 /\ cs[1] = a[1]
      BY <3>2, <3>4, HeadIn
    <3>5. CASE Len(a) = 0 /\ Len(b) > 0 /\ cs[1] = b[1]
      <4>1. b[1] \in ToSet(b)
        BY <3>2, <3>5, HeadIn
      <4>2. ToSet(a) = {}
        BY <3>2, <3>5, EmptyIff
      <4>3. cs[1] \in imports /\ FileOf(cs[1]) = order[i]
        BY <3>2, <3>5, <4>1
      <4> QED
        BY <4>2, <4>3 DEF a
    <3> QED
      BY <3>3, <3>4, <3>5
  <2> HIDE DEF cs
  <2>9. Gathered(cs, symbols, imports, n)
    BY <2>4, <2>6, <2>7 DEF Gathered, ids
  <2> QED
    BY <1>2, <1>5, <2>9 DEF named
<1> QED
  BY <1>4, <1>5

\* what is named n in these files, one after another
InOrder(ids, again, n) == [i \in DOMAIN again |-> NamedIn(ids, again[i], n)]

\* identifiers of files, finitely many of each
Filed(ids) ==
  /\ \A f \in Files : IsFiniteSet({id \in ids : FileOf(id) = f})
  /\ \A id \in ids : FileOf(id) \in Files

\* All that carries the name in these files.
LEMMA InOrderAll ==
  ASSUME NEW ids, Filed(ids), NEW again \in Seq(Files), NEW n
  PROVE  /\ FlattenSeq(InOrder(ids, again, n)) \in Seq(ids)
         /\ \A x : x \in ToSet(FlattenSeq(InOrder(ids, again, n)))
                     <=> x \in ids /\ FileOf(x) \in ToSet(again) /\ NameOf(x) = n
<1> DEFINE N == Len(again)
           seqs == InOrder(ids, again, n)
<1>1. N \in Nat /\ again \in [1 .. N -> Files] /\ DOMAIN again = 1 .. N
  BY LenProperties
<1>2. ASSUME NEW f \in Files
      PROVE  /\ NamedIn(ids, f, n) \in Seq(ids)
             /\ ToSet(NamedIn(ids, f, n)) = {id \in ids : FileOf(id) = f /\ NameOf(id) = n}
  <2>1. IsFiniteSet({id \in ids : FileOf(id) = f})
    BY DEF Filed
  <2> QED
    BY <2>1, NamedInIs
<1>3. \A i \in 1 .. N : again[i] \in Files /\ seqs[i] = NamedIn(ids, again[i], n)
  BY <1>1 DEF InOrder
<1>4. seqs = [i \in 1 .. N |-> NamedIn(ids, again[i], n)]
  BY <1>1 DEF InOrder
<1>5. ToSet(again) = {again[i] : i \in 1 .. N}
  BY <1>1 DEF ToSet
<1> HIDE DEF seqs, N
<1>6. \A i \in 1 .. N : NamedIn(ids, again[i], n) \in Seq(ids)
  BY <1>2, <1>3
<1>7. seqs \in [1 .. N -> Seq(ids)]
  BY <1>4, <1>6
<1> DEFINE t == FlattenSeq(seqs)
<1>8. t \in Seq(ids) /\ \A x : x \in ToSet(t) <=> \E i \in 1 .. N : x \in ToSet(seqs[i])
  BY <1>1, <1>7, FlattenElements
<1> HIDE DEF t
<1>9. ASSUME NEW x \in ToSet(t)
      PROVE  x \in ids /\ FileOf(x) \in ToSet(again) /\ NameOf(x) = n
  <2>1. PICK i \in 1 .. N : x \in ToSet(seqs[i])
    BY <1>8, <1>9
  <2>2. again[i] \in Files /\ x \in ToSet(NamedIn(ids, again[i], n))
    BY <1>3, <2>1
  <2>3. again[i] \in ToSet(again)
    BY <1>5
  <2> QED
    BY <1>2, <2>2, <2>3
<1>10. ASSUME NEW x \in ids, FileOf(x) \in ToSet(again), NameOf(x) = n PROVE x \in ToSet(t)
  <2>1. PICK i \in 1 .. N : again[i] = FileOf(x)
    BY <1>5, <1>10
  <2>2. x \in ToSet(NamedIn(ids, again[i], n))
    BY <1>2, <1>3, <1>10, <2>1
  <2> QED
    BY <1>3, <1>8, <2>2
<1> QED
  BY <1>8, <1>9, <1>10 DEF t, seqs

\* A sequence of all elements of a finite set, of which there is one.
LEMMA SeqsList ==
  ASSUME NEW S, IsFiniteSet(S)
  PROVE  /\ SetToSeqs(S) # {}
         /\ \A s \in SetToSeqs(S) : s \in Seq(S) /\ ToSet(s) = S
<1> DEFINE n == Cardinality(S)
<1>1. n \in Nat
  BY FS_CardinalityType
<1>2. PICK g \in Bijection(1 .. n, S) : TRUE
  <2>1. ExistsBijection(1 .. n, S)
    BY FS_CardinalityType
  <2> QED
    BY <2>1 DEF ExistsBijection
<1>3. g \in [1 .. n -> S] /\ \A i, j \in 1 .. n : i # j => g[i] # g[j]
  BY <1>2 DEF Bijection, Injection, IsInjective
<1>4. SetToSeqs(S) # {}
  BY <1>3 DEF SetToSeqs
<1>5. ASSUME NEW s \in SetToSeqs(S) PROVE s \in Seq(S) /\ ToSet(s) = S
  <2>1. s \in [1 .. n -> S] /\ \A i, j \in 1 .. n : i # j => s[i] # s[j]
    BY DEF SetToSeqs
  <2>2. IsFiniteSet(1 .. n) /\ Cardinality(1 .. n) = n
    BY <1>1, FS_Interval
  <2>3. s \in Injection(1 .. n, S)
    BY <2>1 DEF Injection, IsInjective
  <2>4. s \in Surjection(1 .. n, S)
    BY <2>2, <2>3, FS_Injection
  <2>5. \A x \in S : \E i \in 1 .. n : s[i] = x
    BY <2>4 DEF Surjection
  <2> HIDE DEF n
  <2>6. s \in Seq(S)
    BY <1>1, <2>1, SeqDef
  <2> QED
    BY <2>1, <2>5, <2>6 DEF ToSet
<1> QED
  BY <1>4, <1>5

\* Identifiers of finitely many files are finitely many.
LEMMA FiledFinite ==
  ASSUME NEW ids, Filed(ids)
  PROVE  IsFiniteSet(ids)
<1> DEFINE of(f) == {id \in ids : FileOf(id) = f}
           parts == {of(f) : f \in Files}
           map == [f \in Files |-> of(f)]
<1>1. map \in Surjection(Files, parts)
  BY DEF Surjection
<1>2. IsFiniteSet(parts)
  BY <1>1, FilesAssumption, FS_Surjection
<1>3. \A T \in parts : IsFiniteSet(T)
  BY DEF Filed
<1>4. IsFiniteSet(UNION parts)
  BY <1>2, <1>3, FS_UNION
<1>5. ids = UNION parts
  BY DEF Filed
<1> QED
  BY <1>4, <1>5

\* A listing is of all that carries the name, and there is one.
LEMMA ListingsAre ==
  ASSUME NEW ids, Filed(ids), NEW again \in Seq(Files), NEW n
  PROVE  /\ Listings(ids, again, n) # {}
         /\ \A q \in Listings(ids, again, n) :
              q \in Seq(ids) /\ \A x : x \in ToSet(q) <=> x \in ids /\ NameOf(x) = n
<1> DEFINE before == {id \in ids : FileOf(id) \notin ToSet(again) /\ NameOf(id) = n}
           t == FlattenSeq(InOrder(ids, again, n))
<1>1. t \in Seq(ids) /\ \A x : x \in ToSet(t)
                           <=> x \in ids /\ FileOf(x) \in ToSet(again) /\ NameOf(x) = n
  BY InOrderAll
<1>2. Listings(ids, again, n) = {s \o t : s \in SetToSeqs(before)}
  BY DEF Listings, InOrder
<1>3. \A x : x \in before <=> x \in ids /\ FileOf(x) \notin ToSet(again) /\ NameOf(x) = n
  OBVIOUS
<1>4. IsFiniteSet(before)
  <2>1. before \subseteq ids
    OBVIOUS
  <2> HIDE DEF before
  <2> QED
    BY <2>1, FiledFinite, FS_Subset
<1> HIDE DEF before, t
<1>5. /\ SetToSeqs(before) # {}
      /\ \A s \in SetToSeqs(before) : s \in Seq(before) /\ ToSet(s) = before
  BY <1>4, SeqsList
<1>6. ASSUME NEW s \in SetToSeqs(before)
      PROVE  s \o t \in Seq(ids) /\ \A x : x \in ToSet(s \o t) <=> x \in ids /\ NameOf(x) = n
  <2>1. s \in Seq(before) /\ ToSet(s) = before
    BY <1>5
  <2>2. s \in Seq(ids)
    <3>1. before \subseteq ids
      BY <1>3
    <3> QED
      BY <2>1, <3>1, SeqWider
  <2>3. s \o t \in Seq(ids) /\ ToSet(s \o t) = ToSet(s) \union ToSet(t)
    BY <1>1, <2>2, ConcatElements
  <2> QED
    BY <1>1, <1>3, <2>1, <2>3
<1> QED
  BY <1>2, <1>5, <1>6

\* A choice among listings gives each name one of its own.
LEMMA ChosenListings ==
  ASSUME NEW listings, \A n \in DOMAIN listings : listings[n] # {}, NEW named \in Chosen(listings)
  PROVE  /\ DOMAIN named = DOMAIN listings
         /\ \A n \in DOMAIN named : named[n] \in listings[n]
<1> DEFINE several == {n \in DOMAIN listings : Cardinality(listings[n]) > 1}
           choices == {c \in [several -> UNION {listings[n] : n \in several}] :
                         \A n \in several : c[n] \in listings[n]}
<1>1. PICK c \in choices :
        named = [n \in DOMAIN listings |-> IF n \in several THEN c[n]
                                           ELSE CHOOSE s \in listings[n] : TRUE]
  BY Zenon DEF Chosen
<1>2. \A n \in several : c[n] \in listings[n]
  BY <1>1
<1> HIDE DEF several
<1>3. ASSUME NEW n \in DOMAIN listings PROVE named[n] \in listings[n]
  <2>1. CASE n \in several
    BY <1>1, <1>2, <2>1
  <2>2. CASE n \notin several
    <3>1. (CHOOSE s \in listings[n] : TRUE) \in listings[n]
      OBVIOUS
    <3> QED
      BY <1>1, <2>2, <3>1
  <2> QED
    BY <2>1, <2>2
<1>4. DOMAIN named = DOMAIN listings
  BY <1>1
<1> QED
  BY <1>3, <1>4

\* So a naming gives each name a listing of its symbols and one of its imports.
LEMMA NamingLists ==
  ASSUME NEW symbols, NEW imports, Filed(symbols), Filed(imports), NEW again \in Seq(Files),
         NEW named \in PatchNamings(symbols, imports, again)
  PROVE  /\ DOMAIN named = {NameOf(id) : id \in symbols \union imports}
         /\ \A n \in DOMAIN named : named[n] \in SymbolsFirst(symbols, imports, again, n)
<1>1. PICK names : names = {NameOf(id) : id \in symbols \union imports}
  OBVIOUS
<1>2. PICK listings : listings = [n \in names |-> SymbolsFirst(symbols, imports, again, n)]
  OBVIOUS
<1>3. named \in Chosen(listings)
  BY <1>1, <1>2 DEF PatchNamings
<1>4. ASSUME NEW n \in DOMAIN listings PROVE listings[n] # {}
  <2>1. Listings(symbols, again, n) # {} /\ Listings(imports, again, n) # {}
    BY ListingsAre
  <2>2. PICK s \in Listings(symbols, again, n), i \in Listings(imports, again, n) : TRUE
    BY <2>1
  <2>3. s \o i \in SymbolsFirst(symbols, imports, again, n)
    BY <2>2 DEF SymbolsFirst
  <2> QED
    BY <1>2, <2>3
<1>5. /\ DOMAIN named = DOMAIN listings
      /\ \A n \in DOMAIN named : named[n] \in listings[n]
  BY <1>3, <1>4, ChosenListings
<1> QED
  BY <1>1, <1>2, <1>5

\* The candidates of a patch are all that carry the name.
LEMMA PatchGathered ==
  ASSUME NEW symbols, NEW imports, Identified(symbols, imports), NEW again \in Seq(Files),
         NEW named \in PatchNamings(symbols, imports, again), NEW n
  PROVE  Gathered(Candidates(named, n), symbols, imports, n)
<1> DEFINE ids == symbols \union imports
<1>0. Filed(symbols) /\ Filed(imports)
  BY DEF Identified, Filed
<1>1. /\ DOMAIN named = {NameOf(id) : id \in ids}
      /\ \A m \in DOMAIN named : named[m] \in SymbolsFirst(symbols, imports, again, m)
  BY <1>0, NamingLists
<1>2. CASE n \notin DOMAIN named
  <2>1. Gathered(<<>>, symbols, imports, n)
    BY <1>1, <1>2, NoneGathered
  <2> QED
    BY <1>2, <2>1 DEF Candidates
<1>3. CASE n \in DOMAIN named
  <2>1. PICK cs : cs = Candidates(named, n)
    OBVIOUS
  <2>2. PICK a \in Listings(symbols, again, n), b \in Listings(imports, again, n) : cs = a \o b
    BY <1>1, <1>3, <2>1 DEF Candidates, SymbolsFirst
  <2>3. /\ a \in Seq(symbols) /\ b \in Seq(imports)
        /\ \A x : x \in ToSet(a) <=> x \in symbols /\ NameOf(x) = n
        /\ \A x : x \in ToSet(b) <=> x \in imports /\ NameOf(x) = n
    BY <1>0, ListingsAre
  <2>4. a \in Seq(ids) /\ b \in Seq(ids)
    <3>1. symbols \subseteq ids /\ imports \subseteq ids
      OBVIOUS
    <3> HIDE DEF ids
    <3> QED
      BY <2>3, <3>1, SeqWider
  <2>5. cs \in Seq(ids) /\ ToSet(cs) = {id \in ids : NameOf(id) = n}
    <3>1. cs \in Seq(ids) /\ ToSet(cs) = ToSet(a) \union ToSet(b)
      BY <2>2, <2>4, ConcatElements
    <3> QED
      BY <2>3, <3>1
  <2>6. ASSUME Len(cs) > 0
        PROVE  \/ cs[1] \in symbols
               \/ cs[1] \in imports /\ ToSet(NamedIn(symbols, FileOf(cs[1]), n)) = {}
    <3>1. \/ Len(a) > 0 /\ cs[1] = a[1]
          \/ Len(a) = 0 /\ Len(b) > 0 /\ cs[1] = b[1]
      BY <2>2, <2>4, <2>6, ConcatHead
    <3>2. CASE Len(a) > 0 /\ cs[1] = a[1]
      BY <2>3, <3>2, HeadIn
    <3>3. CASE Len(a) = 0 /\ Len(b) > 0 /\ cs[1] = b[1]
      <4>1. cs[1] \in imports
        BY <2>3, <3>3, HeadIn
      <4>2. ToSet(a) = {}
        BY <2>3, <3>3, EmptyIff
      <4>3. IsFiniteSet({id \in symbols : FileOf(id) = FileOf(cs[1])})
        BY <4>1 DEF Identified
      <4>4. ToSet(NamedIn(symbols, FileOf(cs[1]), n))
              = {id \in symbols : FileOf(id) = FileOf(cs[1]) /\ NameOf(id) = n}
        BY <4>3, NamedInIs
      <4> QED
        BY <2>3, <4>1, <4>2, <4>4
    <3> QED
      BY <3>1, <3>2, <3>3
  <2> QED
    BY <2>1, <2>5, <2>6 DEF Gathered
<1> QED
  BY <1>2, <1>3

\* A full compile finds first what the first file of its order defines.
LEMMA CompileFirst ==
  ASSUME NEW symbols, NEW imports, Identified(symbols, imports), NEW order \in Orders, NEW n,
         NEW h \in Files, order[1] = h,
         NEW cs, cs = Candidates(CompileCandidates(symbols, imports, order), n)
  PROVE  /\ Len(NamedIn(symbols, h, n)) > 0 =>
              Len(cs) > 0 /\ SameAt(cs, 1, NamedIn(symbols, h, n), 1)
         /\ Len(NamedIn(symbols, h, n)) = 0 /\ <<"import", h, n>> \in imports =>
              Len(cs) > 0 /\ cs[1] = <<"import", h, n>>
<1> DEFINE N == Cardinality(Files)
           ids == symbols \union imports
           groups == FileCandidates(symbols, imports, order, n)
           a == NamedIn(symbols, h, n)
           b == NamedIn(imports, h, n)
           named == CompileCandidates(symbols, imports, order)
           own == <<"import", h, n>>
<1>0. /\ N \in Nat /\ N # 0 /\ 1 \in 1 .. N
  BY OrderExists
<1>1. GatheredByFile(symbols, imports, order, n)
  BY FileCandidatesAre
<1>2. groups \in [1 .. N -> Seq(ids)]
  BY <1>1 DEF GatheredByFile
<1>3. /\ a \in Seq(ids) /\ b \in Seq(ids) /\ groups[1] = a \o b
      /\ ToSet(a) = {id \in symbols : FileOf(id) = h /\ NameOf(id) = n}
      /\ ToSet(b) = {id \in imports : FileOf(id) = h /\ NameOf(id) = n}
  BY <1>0, <1>1 DEF GatheredByFile
<1>4. cs \in Seq(ids) /\ ToSet(cs) = {id \in ids : NameOf(id) = n}
  <2>1. Gathered(cs, symbols, imports, n)
    BY CompileGathered
  <2> QED
    BY <2>1 DEF Gathered
<1>5. DOMAIN named = {NameOf(id) : id \in ids}
  BY DEF CompileCandidates
<1>6. n \in DOMAIN named => cs = FlattenSeq(groups)
  BY DEF CompileCandidates, Candidates, FileCandidates
<1>7. FileOf(own) = h /\ NameOf(own) = n
  <2>1. own[2] = h /\ Len(own) = 3 /\ own[3] = n
    OBVIOUS
  <2> QED
    BY <2>1 DEF FileOf, NameOf
<1>8. \A x \in ToSet(b) : x = own
  BY <1>3 DEF Identified
<1> HIDE DEF N, groups, named, own
<1>9. ASSUME Len(a) > 0 \/ Len(b) > 0
      PROVE  Len(cs) > 0 /\ SameAt(cs, 1, a \o b, 1)
  <2>1. ToSet(a) \union ToSet(b) # {}
    BY <1>3, <1>9, HeadIn
  <2>2. PICK x \in ids : NameOf(x) = n
    BY <1>3, <2>1
  <2>3. n \in DOMAIN named
    BY <1>5, <2>2
  <2>4. ToSet(cs) # {}
    BY <1>4, <2>2
  <2>5. Len(cs) # 0 /\ Len(cs) \in Nat
    BY <1>4, <2>4, EmptyIff, LenProperties
  <2>6. Len(cs) > 0
    BY <2>5
  <2>7. cs = FlattenSeq(groups)
    BY <1>6, <2>3
  <2>8. PICK i \in 1 .. N : /\ SameAt(FlattenSeq(groups), 1, groups[i], 1)
                            /\ \A l \in 1 .. N : l < i => Len(groups[l]) = 0
    <3>1. Len(FlattenSeq(groups)) > 0
      BY <2>6, <2>7
    <3> QED
      BY <1>0, <1>2, <3>1, FlattenHead
  <2>9. Len(groups[1]) # 0
    <3> HIDE DEF a, b, ids
    <3>1. Len(a \o b) = Len(a) + Len(b) /\ Len(a) \in Nat /\ Len(b) \in Nat
      BY <1>3, ConcatLaid
    <3>2. groups[1] = a \o b
      BY <1>3
    <3> QED
      BY <1>9, <3>1, <3>2
  <2>10. i = 1
    <3>1. ~(1 < i)
      BY <1>0, <2>8, <2>9
    <3> QED
      BY <1>0, <3>1
  <2>11. groups[1] = a \o b
    BY <1>3
  <2> HIDE DEF a, b
  <2> QED
    BY <2>6, <2>7, <2>8, <2>10, <2>11 DEF SameAt
<1>10. ASSUME Len(a) > 0 PROVE Len(cs) > 0 /\ SameAt(cs, 1, a, 1)
  <2>1. Len(cs) > 0 /\ SameAt(cs, 1, a \o b, 1)
    BY <1>9, <1>10
  <2>2. a \in Seq(ids) /\ b \in Seq(ids)
    BY <1>3
  <2> HIDE DEF a, b, ids
  <2>3. Len(a) \in Nat /\ (a \o b)[1] = a[1]
    <3>1. Len(a) \in Nat /\ \A k \in 1 .. Len(a) : (a \o b)[k] = a[k]
      BY <2>2, ConcatLaid
    <3>2. 1 \in 1 .. Len(a)
      BY <1>10, <3>1
    <3> QED
      BY <3>1, <3>2
  <2> QED
    BY <2>1, <2>3 DEF SameAt
<1>11. ASSUME Len(a) = 0, own \in imports PROVE Len(cs) > 0 /\ cs[1] = own
  <2>1. own \in ToSet(b)
    BY <1>3, <1>7, <1>11
  <2>2. Len(b) > 0
    <3>1. Len(b) # 0 /\ Len(b) \in Nat
      BY <1>3, <2>1, EmptyIff, LenProperties
    <3> QED
      BY <3>1
  <2>3. Len(cs) > 0 /\ SameAt(cs, 1, a \o b, 1)
    BY <1>9, <2>2
  <2>4. b[1] = own
    BY <1>3, <1>8, <2>2, HeadIn
  <2>5. a \in Seq(ids) /\ b \in Seq(ids)
    BY <1>3
  <2> HIDE DEF a, b, ids
  <2>6. (a \o b)[1] = b[1]
    <3>1. /\ Len(a) \in Nat /\ Len(b) \in Nat
          /\ \A k \in 1 .. Len(b) : (a \o b)[Len(a) + k] = b[k]
      BY <2>5, ConcatLaid
    <3>2. 1 \in 1 .. Len(b) /\ 0 + 1 = 1
      BY <2>2, <3>1
    <3> QED
      BY <1>11, <3>1, <3>2
  <2> QED
    BY <2>3, <2>4, <2>6 DEF SameAt
<1> QED
  BY <1>10, <1>11 DEF own

\* A full compile finds last what the last file of its order defines.
LEMMA CompileLast ==
  ASSUME NEW symbols, NEW imports, Identified(symbols, imports), NEW order \in Orders, NEW n,
         NEW h \in Files, order[Cardinality(Files)] = h, Len(NamedIn(symbols, h, n)) > 0,
         NEW cs, cs = Candidates(CompileCandidates(symbols, imports, order), n),
         NEW k, NEW Q, Final(cs, k, Q), ToSet(NamedIn(symbols, h, n)) \subseteq Q,
         ToSet(NamedIn(imports, h, n)) \intersect Q = {}
  PROVE  SameAt(cs, k, NamedIn(symbols, h, n), Len(NamedIn(symbols, h, n)))
<1> DEFINE N == Cardinality(Files)
           ids == symbols \union imports
           groups == FileCandidates(symbols, imports, order, n)
           a == NamedIn(symbols, h, n)
           b == NamedIn(imports, h, n)
           named == CompileCandidates(symbols, imports, order)
<1>0. /\ N \in Nat /\ N # 0 /\ N \in 1 .. N
  BY OrderExists
<1>1. GatheredByFile(symbols, imports, order, n)
  BY FileCandidatesAre
<1>2. groups \in [1 .. N -> Seq(ids)]
  BY <1>1 DEF GatheredByFile
<1>3. /\ a \in Seq(ids) /\ b \in Seq(ids) /\ groups[N] = a \o b
      /\ ToSet(a) = {id \in symbols : FileOf(id) = h /\ NameOf(id) = n}
  BY <1>0, <1>1 DEF GatheredByFile
<1>4. a[1] \in ToSet(a)
  BY <1>3, HeadIn
<1>5. DOMAIN named = {NameOf(id) : id \in ids}
  BY DEF CompileCandidates
<1>6. n \in DOMAIN named => cs = FlattenSeq(groups)
  BY DEF CompileCandidates, Candidates, FileCandidates
<1>7. cs = FlattenSeq(groups)
  <2>1. \E id \in ids : NameOf(id) = n
    BY <1>3, <1>4
  <2> QED
    BY <1>5, <1>6, <2>1
<1>8. groups[N] = a \o b
  BY <1>3
<1> HIDE DEF N, groups, named, a, b, ids
<1>9. PICK i \in 1 .. N : FinalOf(FlattenSeq(groups), k, groups, i, Q)
  BY <1>0, <1>2, <1>7, FlattenFinal
<1>10. PICK j : Final(groups[i], j, Q) /\ SameAt(FlattenSeq(groups), k, groups[i], j)
  BY <1>9 DEF FinalOf
<1>11. a[1] \in ToSet(groups[N]) \intersect Q
  <2>1. ToSet(a \o b) = ToSet(a) \union ToSet(b)
    BY <1>3, ConcatElements
  <2>2. ToSet(a) \subseteq Q
    BY DEF a
  <2> QED
    BY <1>4, <1>8, <2>1, <2>2
<1>12. i = N
  <2>1. N \in DOMAIN groups
    BY <1>0, <1>2
  <2>2. ~(N > i)
    BY <1>9, <1>11, <2>1 DEF FinalOf
  <2> QED
    BY <1>0, <2>2
<1>13. Final(a \o b, j, Q) /\ SameAt(cs, k, a \o b, j)
  BY <1>7, <1>8, <1>10, <1>12
<1>14. \/ \E l : Final(b, l, Q) /\ SameAt(a \o b, j, b, l)
       \/ Final(a, j, Q) /\ SameAt(a \o b, j, a, j) /\ ToSet(b) \intersect Q = {}
  BY <1>3, <1>13, ConcatFinal
<1>15. ~\E l : Final(b, l, Q) /\ SameAt(a \o b, j, b, l)
  <2> SUFFICES ASSUME NEW l, Final(b, l, Q) PROVE FALSE
    OBVIOUS
  <2>1. DOMAIN b = 1 .. Len(b)
    BY <1>3, LenProperties
  <2>2. b[l] \in ToSet(b) /\ b[l] \in Q
    BY <2>1 DEF Final, ToSet
  <2>3. ToSet(b) \intersect Q = {}
    BY DEF b
  <2> QED
    BY <2>2, <2>3
<1>16. j = Len(a)
  <2>1. ToSet(a) \subseteq Q
    BY DEF a
  <2> QED
    BY <1>3, <1>14, <1>15, <2>1, FinalOfAll
<1>17. SameAt(cs, k, a, Len(a))
  BY <1>13, <1>14, <1>15, <1>16 DEF SameAt
<1> QED
  BY <1>17 DEF a

\* what a statement may lead to
Met(f, imp, id) == id # ImportId(f, imp) /\ <<imp.module, FileOf(id)>> \in PathHolds

\* its edges for one of its names
EdgesFor(f, imp, found) ==
  LET targets == Those(found, {i \in DOMAIN found : Met(f, imp, found[i])})
  IN [i \in DOMAIN targets |-> <<ImportId(f, imp), targets[i]>>]

\* es are the edges of a statement to what a name may lead to of these candidates, in
\* their order
ForName(es, f, imp, found, ids) ==
  /\ es \in Seq({ImportId(f, imp)} \X ids)
  /\ \A e : e \in ToSet(es) <=>
       \E id \in ToSet(found) : Met(f, imp, id) /\ e = <<ImportId(f, imp), id>>
  /\ Len(es) > 0 =>
       \E m : /\ Final(found, m, {id \in ids : Met(f, imp, id)})
              /\ es[Len(es)] = <<ImportId(f, imp), found[m]>>

\* The edges of a statement for one of its names.
LEMMA EdgesForName ==
  ASSUME NEW f, NEW imp, NEW ids, NEW found \in Seq(ids)
  PROVE  ForName(EdgesFor(f, imp, found), f, imp, found, ids)
<1> SUFFICES ASSUME NEW Q, Q = {id \in ids : Met(f, imp, id)},
                    NEW es, es = EdgesFor(f, imp, found)
             PROVE  ForName(es, f, imp, found, ids)
  OBVIOUS
<1> DEFINE t == Those(found, IndicesIn(found, Q))
           src == ImportId(f, imp)
<1>0. ToSet(found) \subseteq ids
  <2>1. DOMAIN found = 1 .. Len(found)
    BY LenProperties
  <2> QED
    BY <2>1, ElementOfSeq DEF ToSet
<1>1. IndicesIn(found, Q) = {i \in DOMAIN found : Met(f, imp, found[i])}
  BY <1>0 DEF ToSet, IndicesIn
<1>1a. \E u : u = t
  OBVIOUS
<1>2. /\ t \in Seq(ids)
      /\ \A x : x \in ToSet(t) <=> x \in ToSet(found) /\ x \in Q
      /\ Len(t) > 0 => \E m : Final(found, m, Q) /\ SameAt(found, m, t, Len(t))
  <2>1. PICK u : u = t
    BY <1>1a
  <2>2. u = Those(found, IndicesIn(found, Q))
    BY <2>1
  <2>3. AllIn(u, found, Q, ids)
    BY <2>2, ThoseOf
  <2> QED
    BY <2>1, <2>3 DEF AllIn
<1>3. es = [i \in DOMAIN t |-> <<src, t[i]>>]
  BY <1>1 DEF EdgesFor
<1> HIDE DEF t, src
<1>4. DOMAIN t = 1 .. Len(t) /\ Len(t) \in Nat
  BY <1>2, LenProperties
<1>5. \A i \in 1 .. Len(t) : t[i] \in ids
  BY <1>2, ElementOfSeq
<1>6. es \in [1 .. Len(t) -> {src} \X ids]
  <2>1. \A i \in 1 .. Len(t) : <<src, t[i]>> \in {src} \X ids
    BY <1>5
  <2> QED
    BY <1>3, <1>4, <2>1
<1>7. es \in Seq({src} \X ids) /\ Len(es) = Len(t) /\ DOMAIN es = 1 .. Len(t)
  BY <1>4, <1>6, FunctionIsSeq
<1>8. ASSUME NEW e
      PROVE  e \in ToSet(es) <=> \E id \in ToSet(found) : Met(f, imp, id) /\ e = <<src, id>>
  <2>1. e \in ToSet(es) <=> \E i \in 1 .. Len(t) : e = <<src, t[i]>>
    BY <1>3, <1>4, <1>7 DEF ToSet
  <2>2. e \in ToSet(es) <=> \E x \in ToSet(t) : e = <<src, x>>
    BY <1>4, <2>1 DEF ToSet
  <2>3. \A x : x \in ToSet(t) <=> x \in ToSet(found) /\ Met(f, imp, x)
    BY <1>0, <1>2
  <2> QED
    BY <2>2, <2>3
<1>9. ASSUME Len(es) > 0
      PROVE  \E m : Final(found, m, Q) /\ es[Len(es)] = <<src, found[m]>>
  <2>1. PICK m : Final(found, m, Q) /\ SameAt(found, m, t, Len(t))
    BY <1>2, <1>7, <1>9
  <2>2. Len(t) \in 1 .. Len(t)
    BY <1>4, <1>7, <1>9
  <2>3. es[Len(t)] = <<src, t[Len(t)]>>
    BY <1>3, <1>4, <2>2
  <2> QED
    BY <1>7, <2>1, <2>3 DEF SameAt
<1> QED
  BY <1>7, <1>8, <1>9 DEF src, ForName

\* import statements: each lists its names
Statements(imports) == IsList(imports) /\ \A s \in ToSet(imports) : IsList(s.names)

\* es are the edges of a statement: to all it may lead to of the candidates of its names
EdgesListed(es, f, imp, named, ids) ==
  /\ es \in Seq({ImportId(f, imp)} \X ids)
  /\ \A e : e \in ToSet(es) <=>
       \E k \in DOMAIN imp.names : \E id \in ToSet(Candidates(named, imp.names[k])) :
         Met(f, imp, id) /\ e = <<ImportId(f, imp), id>>

\* The edges name by name.
EdgesByName(f, imp, named) ==
  [k \in DOMAIN imp.names |-> EdgesFor(f, imp, Candidates(named, imp.names[k]))]

\* The edges of a statement are those for its names, one name after the other.
LEMMA ImportEdgesByName ==
  ASSUME NEW f, NEW imp, NEW named
  PROVE  ImportEdges(f, imp, named) = FlattenSeq(EdgesByName(f, imp, named))
BY DEF ImportEdges, EdgesByName, EdgesFor, Met

\* the candidates of every name are of these identifiers
Offers(named, ids) == \A n : Candidates(named, n) \in Seq(ids)

\* the edges of a statement for each of its names
NamesListed(f, imp, named, ids) ==
  /\ Len(imp.names) \in Nat /\ DOMAIN imp.names = 1 .. Len(imp.names)
  /\ EdgesByName(f, imp, named) \in [1 .. Len(imp.names) -> Seq({ImportId(f, imp)} \X ids)]
  /\ \A k \in 1 .. Len(imp.names) :
       EdgesByName(f, imp, named)[k] = EdgesFor(f, imp, Candidates(named, imp.names[k]))

\* Each name gives edges to identifiers.
LEMMA ByNameListed ==
  ASSUME NEW f, NEW imp, IsList(imp.names), NEW ids, NEW named,
         Offers(named, ids)
  PROVE  NamesListed(f, imp, named, ids)
<1>1. Len(imp.names) \in Nat /\ DOMAIN imp.names = 1 .. Len(imp.names)
  BY LenProperties DEF IsList
<1>2. \A k \in 1 .. Len(imp.names) :
        EdgesByName(f, imp, named)[k] = EdgesFor(f, imp, Candidates(named, imp.names[k]))
  BY <1>1 DEF EdgesByName
<1>3. ASSUME NEW k \in 1 .. Len(imp.names)
      PROVE  EdgesByName(f, imp, named)[k] \in Seq({ImportId(f, imp)} \X ids)
  <2>1. Candidates(named, imp.names[k]) \in Seq(ids)
    BY DEF Offers
  <2>2. ForName(EdgesFor(f, imp, Candidates(named, imp.names[k])), f, imp,
                Candidates(named, imp.names[k]), ids)
    BY <2>1, EdgesForName
  <2>3. EdgesFor(f, imp, Candidates(named, imp.names[k])) \in Seq({ImportId(f, imp)} \X ids)
    BY <2>2 DEF ForName
  <2> QED
    BY <1>2, <2>3
<1>4. EdgesByName(f, imp, named) = [k \in 1 .. Len(imp.names) |-> EdgesByName(f, imp, named)[k]]
  BY <1>1, <1>2 DEF EdgesByName
<1> QED
  BY <1>1, <1>2, <1>3, <1>4 DEF NamesListed

\* A statement leads to what it may lead to of the candidates of its names.
LEMMA ImportEdgesAre ==
  ASSUME NEW f, NEW imp, IsList(imp.names), NEW ids, NEW named,
         Offers(named, ids)
  PROVE  EdgesListed(ImportEdges(f, imp, named), f, imp, named, ids)
<1> DEFINE n == Len(imp.names)
           T == {ImportId(f, imp)} \X ids
           seqs == EdgesByName(f, imp, named)
<1>2. /\ n \in Nat /\ DOMAIN imp.names = 1 .. n
      /\ seqs \in [1 .. n -> Seq(T)]
      /\ \A k \in 1 .. n : seqs[k] = EdgesFor(f, imp, Candidates(named, imp.names[k]))
  BY ByNameListed DEF NamesListed
<1>3. \A k \in 1 .. n : ForName(seqs[k], f, imp, Candidates(named, imp.names[k]), ids)
  BY <1>2, EdgesForName DEF Offers
<1>4. ImportEdges(f, imp, named) = FlattenSeq(seqs)
  BY ImportEdgesByName
<1> HIDE DEF n, T, seqs
<1>5. /\ FlattenSeq(seqs) \in Seq(T)
      /\ \A e : e \in ToSet(FlattenSeq(seqs)) <=> \E k \in 1 .. n : e \in ToSet(seqs[k])
  BY <1>2, FlattenElements
<1>6. ASSUME NEW e, NEW k \in 1 .. n
      PROVE  e \in ToSet(seqs[k]) <=>
               \E id \in ToSet(Candidates(named, imp.names[k])) :
                 Met(f, imp, id) /\ e = <<ImportId(f, imp), id>>
  BY <1>3 DEF ForName
<1> QED
  BY <1>2, <1>4, <1>5, <1>6 DEF EdgesListed, T

\* an edge leads to the last candidate for the first name that a statement may lead to
LeadsLast(es, j, f, imp, named, ids) ==
  \E m : /\ Final(Candidates(named, imp.names[1]), m, {id \in ids : Met(f, imp, id)})
         /\ es[j] = <<ImportId(f, imp), Candidates(named, imp.names[1])[m]>>

\* The last edge of a statement with one name leads to the last candidate it may lead to.
LEMMA ImportEdgesLast ==
  ASSUME NEW f, NEW imp, IsList(imp.names), Len(imp.names) = 1, NEW ids, NEW named,
         Offers(named, ids),
         NEW Q0, {ImportId(f, imp)} \X ids \subseteq Q0,
         NEW es, es = ImportEdges(f, imp, named), NEW j, Final(es, j, Q0)
  PROVE  LeadsLast(es, j, f, imp, named, ids)
<1> DEFINE T == {ImportId(f, imp)} \X ids
           seqs == EdgesByName(f, imp, named)
           found == Candidates(named, imp.names[1])
<1>2. /\ seqs \in [1 .. 1 -> Seq(T)]
      /\ \A k \in 1 .. 1 : seqs[k] = EdgesFor(f, imp, Candidates(named, imp.names[k]))
  BY ByNameListed DEF NamesListed
<1>3. seqs[1] = EdgesFor(f, imp, found)
  BY <1>2
<1>4. ForName(seqs[1], f, imp, found, ids)
  BY <1>3, EdgesForName DEF Offers
<1>5. es = FlattenSeq(seqs)
  BY ImportEdgesByName
<1> HIDE DEF seqs, found
<1>6. \E i \in 1 .. 1 : FinalOf(FlattenSeq(seqs), j, seqs, i, Q0)
  <2>1. Final(FlattenSeq(seqs), j, Q0) /\ 1 \in Nat
    BY <1>5
  <2> HIDE DEF T
  <2> QED
    BY <1>2, <2>1, FlattenFinal
<1>7. FinalOf(es, j, seqs, 1, Q0)
  BY <1>5, <1>6
<1>8. PICK i : Final(seqs[1], i, Q0) /\ SameAt(es, j, seqs[1], i)
  BY <1>7 DEF FinalOf
<1>9. seqs[1] \in Seq(T)
  BY <1>4 DEF ForName
<1>10. ToSet(seqs[1]) \subseteq Q0
  <2>1. DOMAIN seqs[1] = 1 .. Len(seqs[1])
    BY <1>9, LenProperties
  <2>2. \A k \in 1 .. Len(seqs[1]) : seqs[1][k] \in T
    BY <1>9, ElementOfSeq
  <2> QED
    BY <2>1, <2>2 DEF ToSet
<1>11. i = Len(seqs[1])
  <2> HIDE DEF T
  <2> QED
    BY <1>8, <1>9, <1>10, FinalOfAll
<1>12. Len(seqs[1]) > 0
  BY <1>8, <1>9, <1>11, LenProperties DEF Final
<1>13. PICK m : /\ Final(found, m, {id \in ids : Met(f, imp, id)})
                /\ seqs[1][Len(seqs[1])] = <<ImportId(f, imp), found[m]>>
  BY <1>4, <1>12 DEF ForName
<1> QED
  BY <1>8, <1>11, <1>13 DEF SameAt, found, LeadsLast

\* es are the edges of import statements
ReferredTo(es, f, imports, named, ids) ==
  /\ es \in Seq({ImportId(f, s) : s \in ToSet(imports)} \X ids)
  /\ \A e : e \in ToSet(es) <=>
       \E s \in ToSet(imports) : \E k \in DOMAIN s.names :
         \E id \in ToSet(Candidates(named, s.names[k])) :
           Met(f, s, id) /\ e = <<ImportId(f, s), id>>

\* The edges statement by statement.
EdgesByStatement(f, imports, named) ==
  [i \in DOMAIN imports |-> ImportEdges(f, imports[i], named)]

\* the edges of each statement of a file
StatementsListed(f, imports, named, ids) ==
  /\ Len(imports) \in Nat /\ DOMAIN imports = 1 .. Len(imports)
  /\ EdgesByStatement(f, imports, named)
       \in [1 .. Len(imports) -> Seq({ImportId(f, s) : s \in ToSet(imports)} \X ids)]
  /\ \A i \in 1 .. Len(imports) :
       /\ imports[i] \in ToSet(imports) /\ IsList(imports[i].names)
       /\ EdgesByStatement(f, imports, named)[i] = ImportEdges(f, imports[i], named)
       /\ EdgesListed(ImportEdges(f, imports[i], named), f, imports[i], named, ids)
  /\ References(f, imports, named) = FlattenSeq(EdgesByStatement(f, imports, named))

\* Each statement gives its edges.
LEMMA ByStatementListed ==
  ASSUME NEW f, NEW imports, Statements(imports), NEW ids, NEW named, Offers(named, ids)
  PROVE  StatementsListed(f, imports, named, ids)
<1> DEFINE T == {ImportId(f, s) : s \in ToSet(imports)} \X ids
<1>1. Len(imports) \in Nat /\ DOMAIN imports = 1 .. Len(imports)
  BY LenProperties DEF Statements, IsList
<1>2. \A i \in 1 .. Len(imports) : imports[i] \in ToSet(imports) /\ IsList(imports[i].names)
  BY <1>1 DEF Statements, ToSet
<1>3. \A i \in 1 .. Len(imports) :
        EdgesByStatement(f, imports, named)[i] = ImportEdges(f, imports[i], named)
  BY <1>1 DEF EdgesByStatement
<1>4. ASSUME NEW i \in 1 .. Len(imports)
      PROVE  EdgesListed(ImportEdges(f, imports[i], named), f, imports[i], named, ids)
  <2> DEFINE imp == imports[i]
  <2>1. IsList(imp.names)
    BY <1>2
  <2> HIDE DEF imp
  <2>2. EdgesListed(ImportEdges(f, imp, named), f, imp, named, ids)
    BY <2>1, ImportEdgesAre
  <2> QED
    BY <2>2 DEF imp
<1>5. ASSUME NEW i \in 1 .. Len(imports)
      PROVE  ImportEdges(f, imports[i], named) \in Seq(T)
  <2>1. {ImportId(f, imports[i])} \X ids \subseteq T
    BY <1>2
  <2>2. ImportEdges(f, imports[i], named) \in Seq({ImportId(f, imports[i])} \X ids)
    BY <1>4 DEF EdgesListed
  <2> HIDE DEF T
  <2>3. \A A, B, x : A \subseteq B /\ x \in Seq(A) => x \in Seq(B)
    BY SeqDef
  <2> QED
    BY <2>1, <2>2, <2>3
<1>6. EdgesByStatement(f, imports, named) \in [1 .. Len(imports) -> Seq(T)]
  BY <1>1, <1>3, <1>5 DEF EdgesByStatement
<1>7. References(f, imports, named) = FlattenSeq(EdgesByStatement(f, imports, named))
  BY DEF References, EdgesByStatement
<1> QED
  BY <1>1, <1>2, <1>3, <1>4, <1>6, <1>7 DEF StatementsListed

\* The references of a file are the edges of its statements.
LEMMA ReferencesAre ==
  ASSUME NEW f, NEW imports, Statements(imports), NEW ids, NEW named, Offers(named, ids)
  PROVE  ReferredTo(References(f, imports, named), f, imports, named, ids)
<1> DEFINE n == Len(imports)
           T == {ImportId(f, s) : s \in ToSet(imports)} \X ids
           seqs == EdgesByStatement(f, imports, named)
           edge(s, e) == \E k \in DOMAIN s.names : \E id \in ToSet(Candidates(named, s.names[k])) :
                           Met(f, s, id) /\ e = <<ImportId(f, s), id>>
<1>1. StatementsListed(f, imports, named, ids)
  BY ByStatementListed
<1>2. n \in Nat /\ seqs \in [1 .. n -> Seq(T)] /\ References(f, imports, named) = FlattenSeq(seqs)
  BY <1>1 DEF StatementsListed
<1>3. ASSUME NEW i \in 1 .. n, NEW e PROVE e \in ToSet(seqs[i]) <=> edge(imports[i], e)
  BY <1>1 DEF StatementsListed, EdgesListed
<1>4. \A s : s \in ToSet(imports) <=> \E i \in 1 .. n : s = imports[i]
  BY <1>1 DEF StatementsListed, ToSet
<1> HIDE DEF n, T, seqs, edge
<1>5. /\ FlattenSeq(seqs) \in Seq(T)
      /\ \A e : e \in ToSet(FlattenSeq(seqs)) <=> \E i \in 1 .. n : e \in ToSet(seqs[i])
  BY <1>2, FlattenElements
<1>6. \A e : e \in ToSet(FlattenSeq(seqs)) <=> \E s \in ToSet(imports) : edge(s, e)
  <2> SUFFICES ASSUME NEW e
               PROVE  e \in ToSet(FlattenSeq(seqs)) <=> \E s \in ToSet(imports) : edge(s, e)
    OBVIOUS
  <2>1. e \in ToSet(FlattenSeq(seqs)) <=> \E i \in 1 .. n : edge(imports[i], e)
    BY <1>3, <1>5
  <2>2. (\E i \in 1 .. n : edge(imports[i], e)) <=> \E s \in ToSet(imports) : edge(s, e)
    BY <1>4, Zenon
  <2> QED
    BY <2>1, <2>2
<1> QED
  BY <1>2, <1>5, <1>6 DEF ReferredTo, T, edge

\* to is the last candidate that a statement may lead to
LastMet(to, f, s, cs, ids) ==
  \E m : Final(cs, m, {id \in ids : Met(f, s, id)}) /\ to = cs[m]

\* what the imports of a file know of a name: nothing, and then no statement named so
\* meets a candidate, or the last candidate that some statement meets
Knows(to, f, imports, n, cs, ids) ==
  \/ to = None /\ \A s \in ToSet(imports) : s.names[1] = n => \A id \in ToSet(cs) : ~Met(f, s, id)
  \/ \E s \in ToSet(imports) : s.names[1] = n /\ LastMet(to, f, s, cs, ids)

\* What the imports of a file know of a name, no statement naming another first.
LEMMA ImportedIs ==
  ASSUME NEW f, NEW imports, Statements(imports), NEW ids, NEW named, Offers(named, ids), NEW n,
         \A s \in ToSet(imports) : s.names[1] = n => Len(s.names) = 1,
         NEW refs, f \in DOMAIN refs, refs[f] = References(f, imports, named)
  PROVE  Knows(Imported(refs, f, n), f, imports, n, Candidates(named, n), ids)
<1> DEFINE src == <<"import", f, n>>
           T == {ImportId(f, s) : s \in ToSet(imports)} \X ids
           Q0 == {e \in T : e[1] = src}
           es == refs[f]
           edges == {i \in DOMAIN es : es[i][1] = src}
           seqs == EdgesByStatement(f, imports, named)
<1>1. Imported(refs, f, n) = IF edges = {} THEN None ELSE es[Max(edges)][2]
  BY DEF Imported
<1>2. ReferredTo(es, f, imports, named, ids)
  BY ReferencesAre
<1>3. es \in Seq(T) /\ Len(es) \in Nat /\ DOMAIN es = 1 .. Len(es)
  BY <1>2, LenProperties DEF ReferredTo
<1>4. \A s : ImportId(f, s) = src <=> s.names[1] = n
  BY DEF ImportId
<1>5. ASSUME edges = {}
      PROVE  \A s \in ToSet(imports) : s.names[1] = n =>
               \A id \in ToSet(Candidates(named, n)) : ~Met(f, s, id)
  <2> SUFFICES ASSUME NEW s \in ToSet(imports), s.names[1] = n,
                      NEW id \in ToSet(Candidates(named, n)), Met(f, s, id)
               PROVE  FALSE
    OBVIOUS
  <2>1. IsList(s.names) /\ Len(s.names) = 1
    BY DEF Statements
  <2>2. 1 \in DOMAIN s.names
    BY <2>1, LenProperties DEF IsList
  <2>3. <<ImportId(f, s), id>> \in ToSet(es)
    BY <1>2, <2>2 DEF ReferredTo
  <2>4. PICK i \in DOMAIN es : es[i] = <<ImportId(f, s), id>>
    BY <2>3 DEF ToSet
  <2>5. es[i][1] = src
    BY <1>4, <2>4
  <2> HIDE DEF es
  <2> QED
    BY <1>5, <2>4, <2>5
<1>6. ASSUME edges # {}
      PROVE  \E s \in ToSet(imports) :
               s.names[1] = n /\ LastMet(es[Max(edges)][2], f, s, Candidates(named, n), ids)
  <2> DEFINE m == Max(edges)
  <2>1. Final(es, m, Q0)
    <3>1. edges \in SUBSET (1 .. Len(es)) /\ edges # {}
      BY <1>3, <1>6
    <3>2. \A i \in 1 .. Len(es) : es[i] \in Q0 <=> i \in edges
      <4>1. \A i \in 1 .. Len(es) : es[i] \in T
        BY <1>3, ElementOfSeq
      <4> QED
        BY <1>3, <4>1
    <3> HIDE DEF edges, es
    <3>3. \E k \in edges : \A l \in edges : k >= l
      BY <1>3, <3>1, GreatestNumber
    <3>4. m \in edges /\ \A l \in edges : m >= l
      BY <3>3, Zenon DEF Max
    <3>5. m \in 1 .. Len(es) /\ es[m] \in Q0
      BY <3>1, <3>2, <3>4
    <3>6. ASSUME NEW l \in 1 .. Len(es), l > m PROVE es[l] \notin Q0
      BY <1>3, <3>1, <3>2, <3>4, <3>5, <3>6
    <3> QED
      BY <3>5, <3>6 DEF Final
  <2> HIDE DEF m
  <2>2. StatementsListed(f, imports, named, ids)
    BY ByStatementListed
  <2>3. Len(imports) \in Nat /\ seqs \in [1 .. Len(imports) -> Seq(T)] /\ es = FlattenSeq(seqs)
    BY <2>2 DEF StatementsListed
  <2>4. PICK i \in 1 .. Len(imports) : FinalOf(es, m, seqs, i, Q0)
    <3>1. Final(FlattenSeq(seqs), m, Q0)
      BY <2>1, <2>3
    <3>2. \E i \in 1 .. Len(imports) : FinalOf(FlattenSeq(seqs), m, seqs, i, Q0)
      <4> HIDE DEF T, Q0, seqs
      <4> QED
        BY <2>3, <3>1, FlattenFinal
    <3> QED
      BY <2>3, <3>2
  <2>5. PICK j : Final(seqs[i], j, Q0) /\ SameAt(es, m, seqs[i], j)
    BY <2>4 DEF FinalOf
  <2> DEFINE s == imports[i]
  <2>6. /\ s \in ToSet(imports) /\ IsList(s.names) /\ seqs[i] = ImportEdges(f, s, named)
        /\ EdgesListed(seqs[i], f, s, named, ids)
    BY <2>2 DEF StatementsListed
  <2> HIDE DEF s, seqs, es, edges
  <2>7. s.names[1] = n
    <3>1. seqs[i][j] \in {ImportId(f, s)} \X ids
      BY <2>5, <2>6, ElementOfSeq DEF EdgesListed, Final
    <3>2. seqs[i][j][1] = ImportId(f, s)
      BY <3>1
    <3>3. seqs[i][j][1] = src
      BY <2>5 DEF Final, Q0
    <3> QED
      BY <1>4, <3>2, <3>3
  <2>8. {ImportId(f, s)} \X ids \subseteq Q0
    BY <1>4, <2>6, <2>7
  <2>9. Len(s.names) = 1
    BY <2>6, <2>7
  <2>10. LeadsLast(seqs[i], j, f, s, named, ids)
    <3> HIDE DEF Q0, T
    <3> QED
      BY <2>5, <2>6, <2>8, <2>9, ImportEdgesLast
  <2>11. PICK x : /\ Final(Candidates(named, n), x, {id \in ids : Met(f, s, id)})
                  /\ seqs[i][j] = <<ImportId(f, s), Candidates(named, n)[x]>>
    BY <2>7, <2>10 DEF LeadsLast
  <2>12. es[m][2] = Candidates(named, n)[x]
    BY <2>5, <2>11 DEF SameAt
  <2> QED
    BY <2>6, <2>7, <2>11, <2>12 DEF LastMet, m
<1> QED
  BY <1>1, <1>5, <1>6 DEF Knows

\* A file whose import statements are all kept names each of them differently.
LEMMA KeptDistinct ==
  ASSUME NEW idx, IsList(idx.imports), Kept(idx) = idx.imports,
         NEW s \in ToSet(idx.imports), NEW t \in ToSet(idx.imports), s.names[1] = t.names[1]
  PROVE  s = t
<1> DEFINE imps == idx.imports
           n == Len(imps)
           I == {i \in DOMAIN imps : \A j \in DOMAIN imps :
                   j > i => imps[j].names[1] # imps[i].names[1]}
<1>1. n \in Nat /\ DOMAIN imps = 1 .. n
  BY LenProperties DEF IsList
<1>2. Those(imps, I) = imps
  BY DEF Kept
<1>3. I \in SUBSET (1 .. n)
  BY <1>1
<1>4. DOMAIN Those(imps, I) = 1 .. Cardinality(I) /\ Cardinality(I) \in Nat
  <2> HIDE DEF I, n, imps
  <2> QED
    BY <1>1, <1>3, ThoseElements
<1>5. Cardinality(I) = n
  <2> HIDE DEF I, n
  <2>1. 1 .. Cardinality(I) = 1 .. n
    BY <1>1, <1>2, <1>4
  <2>2. Cardinality(1 .. Cardinality(I)) = Cardinality(I) /\ Cardinality(1 .. n) = n
    BY <1>1, <1>4, AscendingInterval
  <2> QED
    BY <2>1, <2>2
<1>6. I = 1 .. n
  <2> HIDE DEF I, n
  <2>1. IsFiniteSet(1 .. n) /\ Cardinality(1 .. n) = n
    BY <1>1, FS_Interval, AscendingInterval
  <2> QED
    BY <1>3, <1>5, <2>1, FS_Subset
<1>7. PICK i \in 1 .. n, j \in 1 .. n : s = imps[i] /\ t = imps[j]
  BY <1>1 DEF ToSet
<1>8. i \in I /\ j \in I
  BY <1>6
<1>9. ~(i < j) /\ ~(j < i)
  BY <1>1, <1>7, <1>8
<1> QED
  BY <1>1, <1>7, <1>9

\* Three finite sets are finite together.
LEMMA FiniteThree ==
  ASSUME NEW A, NEW B, NEW C, IsFiniteSet(A), IsFiniteSet(B), IsFiniteSet(C),
         NEW D, D = A \union B \union C
  PROVE  IsFiniteSet(D)
<1>1. IsFiniteSet(A \union B)
  BY FS_Union
<1> QED
  BY <1>1, FS_Union

\* The symbols of a file are finitely many, whatever its language.
LEMMA PythonSymbolsFinite ==
  ASSUME NEW t, Tree(t)
  PROVE  IsFiniteSet(Python!FileIndex(t).symbols)
<1> DEFINE function == [n \in DOMAIN t |-> [name |-> t[n].name, kind |-> "function", parent |-> ""]]
           class == [n \in DOMAIN t |-> [name |-> t[n].name, kind |-> "class", parent |-> ""]]
           method == [n \in DOMAIN t |->
                        [name |-> t[n].name, kind |-> "method", parent |-> t[t[n].up].name]]
           F == Python!Nodes(t, Python!Functions_) \intersect Python!Dispatched(t)
           C == Python!Classes(t)
           M == Python!Methods(t)
<1>1. Len(t) \in Nat /\ DOMAIN t = 1 .. Len(t)
  BY DEF Tree, Python!IsTree
<1>2. F \in SUBSET DOMAIN t /\ C \in SUBSET DOMAIN t /\ M \in SUBSET DOMAIN t
  BY DEF Python!Nodes, Python!Classes, Python!Methods
<1>3. IsFiniteSet(F) /\ IsFiniteSet(C) /\ IsFiniteSet(M)
  <2> HIDE DEF F, C, M
  <2> QED
    BY <1>1, <1>2, FiniteInterval
<1>4. Python!FileIndex(t).symbols
        = {function[n] : n \in F} \union {class[n] : n \in C} \union {method[n] : n \in M}
  <2>1. \A n \in F : function[n] = [name |-> t[n].name, kind |-> "function", parent |-> ""]
    BY <1>2
  <2>2. \A n \in C : class[n] = [name |-> t[n].name, kind |-> "class", parent |-> ""]
    BY <1>2
  <2>3. \A n \in M :
          method[n] = [name |-> t[n].name, kind |-> "method", parent |-> t[t[n].up].name]
    BY <1>2
  <2>4. Python!FileIndex(t).symbols
          = {[name |-> t[n].name, kind |-> "function", parent |-> ""] : n \in F}
            \union {[name |-> t[n].name, kind |-> "class", parent |-> ""] : n \in C}
            \union {[name |-> t[n].name, kind |-> "method", parent |-> t[t[n].up].name] : n \in M}
    BY DEF Python!FileIndex, Python!SymbolsOf
  <2> HIDE DEF F, C, M, function, class, method
  <2>5. {[name |-> t[n].name, kind |-> "function", parent |-> ""] : n \in F}
          = {function[n] : n \in F}
    BY <2>1
  <2>6. {[name |-> t[n].name, kind |-> "class", parent |-> ""] : n \in C} = {class[n] : n \in C}
    BY <2>2
  <2>7. {[name |-> t[n].name, kind |-> "method", parent |-> t[t[n].up].name] : n \in M}
          = {method[n] : n \in M}
    BY <2>3
  <2> QED
    BY <2>4, <2>5, <2>6, <2>7
<1> HIDE DEF F, C, M, function, class, method
<1>5. /\ IsFiniteSet({function[n] : n \in F}) /\ IsFiniteSet({class[n] : n \in C})
      /\ IsFiniteSet({method[n] : n \in M})
  BY <1>3, FiniteImage
<1> DEFINE A == {function[n] : n \in F}
           B == {class[n] : n \in C}
           E == {method[n] : n \in M}
<1>6. Python!FileIndex(t).symbols = A \union B \union E
  BY <1>4
<1> HIDE DEF A, B, E
<1>7. IsFiniteSet(A) /\ IsFiniteSet(B) /\ IsFiniteSet(E)
  BY <1>5 DEF A, B, E
<1> QED
  BY <1>6, <1>7, FiniteThree

\* So has a file of TypeScript.
LEMMA TypeScriptSymbolsFinite ==
  ASSUME NEW t, Tree(t)
  PROVE  IsFiniteSet(TypeScript!FileIndex(t).symbols)
<1> DEFINE named == [n \in DOMAIN t |-> [name |-> t[n].name, kind |-> t[n].kind, parent |-> ""]]
           method == [n \in DOMAIN t |->
                        [name |-> t[n].name, kind |-> "method", parent |-> t[t[n].up].name]]
           D == TypeScript!Declared(t) \union TypeScript!Classes(t)
           M == TypeScript!Methods(t)
<1>1. Len(t) \in Nat /\ DOMAIN t = 1 .. Len(t)
  BY DEF Tree, Python!IsTree
<1>2. D \in SUBSET DOMAIN t /\ M \in SUBSET DOMAIN t
  BY DEF TypeScript!Nodes, TypeScript!Classes, TypeScript!Methods, TypeScript!Declared
<1>3. IsFiniteSet(D) /\ IsFiniteSet(M)
  <2> HIDE DEF D, M
  <2> QED
    BY <1>1, <1>2, FiniteInterval
<1>4. TypeScript!FileIndex(t).symbols = {named[n] : n \in D} \union {method[n] : n \in M}
  <2>1. \A n \in D : named[n] = [name |-> t[n].name, kind |-> t[n].kind, parent |-> ""]
    BY <1>2
  <2>2. \A n \in M :
          method[n] = [name |-> t[n].name, kind |-> "method", parent |-> t[t[n].up].name]
    BY <1>2
  <2>3. TypeScript!FileIndex(t).symbols
          = {[name |-> t[n].name, kind |-> t[n].kind, parent |-> ""] : n \in D}
            \union {[name |-> t[n].name, kind |-> "method", parent |-> t[t[n].up].name] : n \in M}
    BY DEF TypeScript!FileIndex, TypeScript!SymbolsOf
  <2> HIDE DEF D, M, named, method
  <2>4. {[name |-> t[n].name, kind |-> t[n].kind, parent |-> ""] : n \in D} = {named[n] : n \in D}
    BY <2>1
  <2>5. {[name |-> t[n].name, kind |-> "method", parent |-> t[t[n].up].name] : n \in M}
          = {method[n] : n \in M}
    BY <2>2
  <2> QED
    BY <2>3, <2>4, <2>5
<1> HIDE DEF D, M, named, method
<1>5. IsFiniteSet({named[n] : n \in D}) /\ IsFiniteSet({method[n] : n \in M})
  BY <1>3, FiniteImage
<1> QED
  BY <1>4, <1>5, FS_Union

\* And one of Java.
LEMMA JavaSymbolsFinite ==
  ASSUME NEW t, Java!IsText(t)
  PROVE  IsFiniteSet(Java!FileIndex(t).symbols)
<1> DEFINE class == [i \in DOMAIN t |-> [name |-> t[i].class, kind |-> "class", parent |-> ""]]
           function == [i \in DOMAIN t |->
                          [name |-> t[i].method, kind |-> "function", parent |-> ""]]
           member(i) == [k \in DOMAIN t |->
                           [name |-> t[k].method, kind |-> "method", parent |-> t[i].class]]
           C == Java!Classes(t)
           H(i) == Java!Heads(t) \intersect (i .. Java!BlockEnd(t, i))
           O == {k \in Java!Heads(t) : ~Java!Inside(t, k)}
           members == [i \in DOMAIN t |-> {member(i)[k] : k \in H(i)}]
<1>1. Len(t) \in Nat /\ DOMAIN t = 1 .. Len(t)
  BY DEF Java!IsText
<1>2. C \in SUBSET DOMAIN t /\ O \in SUBSET DOMAIN t /\ \A i : H(i) \in SUBSET DOMAIN t
  BY DEF Java!Classes, Java!Heads
<1>3. IsFiniteSet(C) /\ IsFiniteSet(O) /\ \A i : IsFiniteSet(H(i))
  <2> HIDE DEF C, O, H
  <2> QED
    BY <1>1, <1>2, FiniteInterval
<1>4. Java!FileIndex(t).symbols
        = {class[i] : i \in C} \union (UNION {members[i] : i \in C}) \union {function[i] : i \in O}
  <2>1. \A i \in C : class[i] = [name |-> t[i].class, kind |-> "class", parent |-> ""]
    BY <1>2
  <2>2. \A i \in O : function[i] = [name |-> t[i].method, kind |-> "function", parent |-> ""]
    BY <1>2
  <2>3. \A i \in C : members[i] = {[name |-> t[k].method, kind |-> "method", parent |-> t[i].class] :
                                     k \in H(i)}
    <3> SUFFICES ASSUME NEW i \in C
                 PROVE  members[i] = {[name |-> t[k].method, kind |-> "method",
                                       parent |-> t[i].class] : k \in H(i)}
      OBVIOUS
    <3>1. members[i] = {member(i)[k] : k \in H(i)}
      BY <1>2
    <3>2. \A k \in H(i) : member(i)[k] = [name |-> t[k].method, kind |-> "method",
                                          parent |-> t[i].class]
      BY <1>2
    <3> HIDE DEF members, member, H
    <3> QED
      BY <3>1, <3>2
  <2>4. Java!FileIndex(t).symbols
          = {[name |-> t[i].class, kind |-> "class", parent |-> ""] : i \in C}
            \union (UNION {{[name |-> t[k].method, kind |-> "method", parent |-> t[i].class] :
                              k \in H(i)} : i \in C})
            \union {[name |-> t[i].method, kind |-> "function", parent |-> ""] : i \in O}
    BY DEF Java!FileIndex, Java!SymbolsOf
  <2> HIDE DEF C, O, H, class, function, member, members
  <2>5. {[name |-> t[i].class, kind |-> "class", parent |-> ""] : i \in C} = {class[i] : i \in C}
    BY <2>1
  <2>6. {[name |-> t[i].method, kind |-> "function", parent |-> ""] : i \in O}
          = {function[i] : i \in O}
    BY <2>2
  <2>7. {{[name |-> t[k].method, kind |-> "method", parent |-> t[i].class] : k \in H(i)} : i \in C}
          = {members[i] : i \in C}
    BY <2>3
  <2> QED
    BY <2>4, <2>5, <2>6, <2>7
<1>5. \A i \in DOMAIN t : IsFiniteSet(members[i])
  <2> SUFFICES ASSUME NEW i \in DOMAIN t PROVE IsFiniteSet(members[i])
    OBVIOUS
  <2>1. members[i] = {member(i)[k] : k \in H(i)}
    OBVIOUS
  <2> HIDE DEF members, member, H
  <2>2. IsFiniteSet({member(i)[k] : k \in H(i)})
    BY <1>3, FiniteImage
  <2> QED
    BY <2>1, <2>2
<1> HIDE DEF C, O, H, class, function, member, members
<1>6. IsFiniteSet(UNION {members[i] : i \in C})
  <2>1. IsFiniteSet({members[i] : i \in C})
    BY <1>3, FiniteImage
  <2>2. \A T \in {members[i] : i \in C} : IsFiniteSet(T)
    BY <1>2, <1>5
  <2> QED
    BY <2>1, <2>2, FS_UNION
<1>7. IsFiniteSet({class[i] : i \in C}) /\ IsFiniteSet({function[i] : i \in O})
  BY <1>3, FiniteImage
<1> DEFINE A == {class[i] : i \in C}
           B == UNION {members[i] : i \in C}
           E == {function[i] : i \in O}
<1>8. Java!FileIndex(t).symbols = A \union B \union E
  BY <1>4
<1>9. IsFiniteSet(A) /\ IsFiniteSet(B) /\ IsFiniteSet(E)
  BY <1>6, <1>7
<1> HIDE DEF A, B, E
<1> QED
  BY <1>8, <1>9, FiniteThree

\* Facts taken from the nodes of a tree in their order are a list of statements.
LEMMA StatementsInOrder ==
  ASSUME NEW n \in Nat, NEW I \in SUBSET (1 .. n), NEW rec, \A k \in I : IsList(rec[k].names),
         NEW imports, imports = [i \in DOMAIN Ascending(I) |-> rec[Ascending(I)[i]]]
  PROVE  Statements(imports)
<1> DEFINE a == Ascending(I)
           c == Cardinality(I)
           S == {rec[k] : k \in I}
<1>1. c \in Nat /\ a \in [1 .. c -> I]
  <2>1. IsFiniteSet(I) /\ I \in SUBSET Int
    BY FiniteInterval
  <2> QED
    BY <2>1, FS_CardinalityType, AscendingOrder
<1>2. imports = [i \in DOMAIN a |-> rec[a[i]]]
  OBVIOUS
<1> HIDE DEF a, c
<1>3. imports \in [1 .. c -> S]
  BY <1>1, <1>2
<1>4. imports \in Seq(S) /\ DOMAIN imports = 1 .. c
  <2> HIDE DEF S
  <2> QED
    BY <1>1, <1>3, FunctionIsSeq
<1>5. \A s \in ToSet(imports) : s \in S
  BY <1>3, <1>4 DEF ToSet
<1> QED
  BY <1>4, <1>5 DEF Statements, IsList

\* The imports of a file of Python are a list of statements.
LEMMA PythonStatements ==
  ASSUME NEW t, Tree(t)
  PROVE  Statements(Python!FileIndex(t).imports)
<1> DEFINE I == Python!Nodes(t, {"import"}) \intersect Python!Dispatched(t)
           rec == [k \in I |-> [module |-> t[k].module, names |-> t[k].names]]
           a == Ascending(I)
<1>1. Len(t) \in Nat /\ I \in SUBSET (1 .. Len(t))
  BY DEF Tree, Python!IsTree, Python!Nodes
<1>2. \A k \in I : IsList(rec[k].names)
  BY DEF Tree, Python!IsTree, Python!Nodes, IsList
<1>3. Python!FileIndex(t).imports
        = [i \in DOMAIN a |-> [module |-> t[a[i]].module, names |-> t[a[i]].names]]
  <2>1. Python!ImportsOf(t)
        = [i \in DOMAIN a |-> [module |-> t[a[i]].module, names |-> t[a[i]].names]]
    BY DEF Python!ImportsOf, Python!Ascending, Ascending, Python!Cardinality, Cardinality
  <2> HIDE DEF a, I
  <2>2. Python!FileIndex(t).imports = Python!ImportsOf(t)
    BY DEF Python!FileIndex
  <2> QED
    BY <2>1, <2>2
<1>4. \A i \in DOMAIN a : a[i] \in I
  <2> HIDE DEF I
  <2> QED
    BY <1>1, AscendingWithin
<1>5. Python!FileIndex(t).imports = [i \in DOMAIN a |-> rec[a[i]]]
  <2>1. \A i \in DOMAIN a : rec[a[i]] = [module |-> t[a[i]].module, names |-> t[a[i]].names]
    BY <1>4
  <2> HIDE DEF rec, a
  <2> QED
    BY <1>3, <2>1
<1> HIDE DEF I, rec
<1> QED
  BY <1>1, <1>2, <1>5, StatementsInOrder

\* So are those of TypeScript.
LEMMA TypeScriptStatements ==
  ASSUME NEW t, Tree(t)
  PROVE  Statements(TypeScript!FileIndex(t).imports)
<1> DEFINE I == TypeScript!Nodes(t, {"import"})
           names(k) == IF t[k].names = <<>> THEN <<t[k].module>> ELSE t[k].names
           rec == [k \in I |-> [module |-> t[k].module, names |-> names(k)]]
           a == Ascending(I)
<1>1. Len(t) \in Nat /\ I \in SUBSET (1 .. Len(t))
  BY DEF Tree, Python!IsTree, TypeScript!Nodes
<1>2. \A k \in I : IsList(rec[k].names)
  <2> SUFFICES ASSUME NEW k \in I PROVE IsList(names(k))
    OBVIOUS
  <2>1. <<t[k].module>> \in Seq({t[k].module})
    OBVIOUS
  <2>2. t[k].names \in Seq(STRING)
    BY DEF Tree, Python!IsTree, TypeScript!Nodes
  <2> QED
    BY <2>1, <2>2 DEF IsList
<1>3. TypeScript!FileIndex(t).imports
        = [i \in DOMAIN a |-> [module |-> t[a[i]].module, names |-> names(a[i])]]
  <2>1. TypeScript!ImportsOf(t)
        = [i \in DOMAIN a |-> [module |-> t[a[i]].module, names |-> names(a[i])]]
    BY DEF TypeScript!ImportsOf, TypeScript!Ascending, Ascending, TypeScript!Cardinality, Cardinality
  <2> HIDE DEF a, I
  <2>2. TypeScript!FileIndex(t).imports = TypeScript!ImportsOf(t)
    BY DEF TypeScript!FileIndex
  <2> QED
    BY <2>1, <2>2
<1>4. \A i \in DOMAIN a : a[i] \in I
  <2> HIDE DEF I
  <2> QED
    BY <1>1, AscendingWithin
<1>5. TypeScript!FileIndex(t).imports = [i \in DOMAIN a |-> rec[a[i]]]
  <2>1. \A i \in DOMAIN a : rec[a[i]] = [module |-> t[a[i]].module, names |-> names(a[i])]
    BY <1>4
  <2> HIDE DEF rec, a, names
  <2> QED
    BY <1>3, <2>1
<1> HIDE DEF I, rec
<1> QED
  BY <1>1, <1>2, <1>5, StatementsInOrder

\* And those of Java.
LEMMA JavaStatements ==
  ASSUME NEW t, Java!IsText(t)
  PROVE  Statements(Java!FileIndex(t).imports)
<1> DEFINE I == {i \in DOMAIN t : t[i].import # <<>>}
           rec == [k \in I |-> [module |-> t[k].import[1], names |-> <<t[k].import[2]>>]]
           a == Ascending(I)
<1>1. Len(t) \in Nat /\ I \in SUBSET (1 .. Len(t))
  BY DEF Java!IsText
<1>2. \A k \in I : IsList(rec[k].names)
  <2> SUFFICES ASSUME NEW k \in I PROVE IsList(<<t[k].import[2]>>)
    OBVIOUS
  <2>1. <<t[k].import[2]>> \in Seq({t[k].import[2]})
    OBVIOUS
  <2> QED
    BY <2>1 DEF IsList
<1>3. Java!FileIndex(t).imports
        = [i \in DOMAIN a |-> [module |-> t[a[i]].import[1], names |-> <<t[a[i]].import[2]>>]]
  <2>1. Java!ImportsOf(t)
        = [i \in DOMAIN a |-> [module |-> t[a[i]].import[1], names |-> <<t[a[i]].import[2]>>]]
    BY DEF Java!ImportsOf, Java!Ascending, Ascending, Java!Cardinality, Cardinality
  <2> HIDE DEF a, I
  <2>2. Java!FileIndex(t).imports = Java!ImportsOf(t)
    BY DEF Java!FileIndex
  <2> QED
    BY <2>1, <2>2
<1>4. \A i \in DOMAIN a : a[i] \in I
  <2> HIDE DEF I
  <2> QED
    BY <1>1, AscendingWithin
<1>5. Java!FileIndex(t).imports = [i \in DOMAIN a |-> rec[a[i]]]
  <2>1. \A i \in DOMAIN a :
          rec[a[i]] = [module |-> t[a[i]].import[1], names |-> <<t[a[i]].import[2]>>]
    BY <1>4
  <2> HIDE DEF rec, a
  <2> QED
    BY <1>3, <2>1
<1> HIDE DEF I, rec
<1> QED
  BY <1>1, <1>2, <1>5, StatementsInOrder

\* what the facts of a file are always like
Formed(f, idx) ==
  /\ Statements(idx.imports)
  /\ IsFiniteSet(idx.symbols)
  /\ None \notin SymbolsIn(f, idx) \union ImportsIn(f, idx)

\* a graph whose tables are made of the facts of files
Standing(g) ==
  /\ Tabled(g)
  /\ DOMAIN g.files \subseteq Files
  /\ \A f \in DOMAIN g.files : Formed(f, g.files[f].facts)

\* The graph of the adapter is one.
LEMMA StandingGraph == TablesInv => Standing(graph)
<1> SUFFICES ASSUME TablesInv, NEW f \in DOMAIN graph.files PROVE Formed(f, FactsIn(f))
  BY DEF Standing, TablesInv, ContributionsCurrent, FactsIn
<1>1. /\ f \in Files /\ told[f] # Absent /\ FactsIn(f) = FactsOf[told[f]]
  BY DEF TablesInv, ContributionsCurrent, FactsIn, Contribution
<1>2. told[f] \in Contents
  BY <1>1, ReposAreFunctions DEF TablesInv
<1>3. None \notin SymbolsIn(f, FactsIn(f)) \union ImportsIn(f, FactsIn(f))
  BY <1>1, <1>2, NoneAssumption
<1>4. CASE told[f] \in Unparsable
  <2>1. FactsIn(f) = NoFacts
    BY <1>1, <1>4, UnparsableHasNoFacts DEF Contribution
  <2>2. NoFacts.imports = <<>> /\ NoFacts.symbols = {}
    BY DEF NoFacts
  <2>3. <<>> \in Seq({}) /\ ToSet(<<>>) = {}
    BY DEF ToSet
  <2> QED
    BY <1>3, <2>1, <2>2, <2>3, FS_EmptySet DEF Formed, Statements, IsList
<1>5. CASE told[f] \notin Unparsable
  <2> DEFINE t == TreeOf[told[f]]
  <2>1. f \in Parsed
    BY <1>1, <1>5 DEF Parsed, Parsing
  <2>2. /\ language = "python" => Tree(t) /\ FactsIn(f) = Python!FileIndex(t)
        /\ language = "typescript" => Tree(t) /\ FactsIn(f) = TypeScript!FileIndex(t)
        /\ language = "java" => Java!IsText(t) /\ FactsIn(f) = Java!FileIndex(t)
    <3>1. language = "java" => Java!IsText(t)
      <4>1. told[f] \in ContentsOf[language][f]
        BY <1>1 DEF TablesInv, Repos
      <4>2. told[f] \in ContentsIn(language)
        BY <1>1, <4>1 DEF ContentsIn
      <4> QED
        BY <1>5, <4>2, TreesAssumption
    <3> QED
      BY <2>1, <3>1, FactsOfFile
  <2>3. language \in {"python", "typescript", "java"}
    BY DEF TablesInv, Languages
  <2> HIDE DEF t
  <2>4. Statements(FactsIn(f).imports)
    BY <2>2, <2>3, PythonStatements, TypeScriptStatements, JavaStatements
  <2>5. IsFiniteSet(FactsIn(f).symbols)
    BY <2>2, <2>3, PythonSymbolsFinite, TypeScriptSymbolsFinite, JavaSymbolsFinite
  <2> QED
    BY <1>3, <2>4, <2>5 DEF Formed
<1> QED
  BY <1>4, <1>5

\* A file has finitely many symbols.
LEMMA SymbolsInFinite ==
  ASSUME NEW f, NEW idx, IsFiniteSet(idx.symbols)
  PROVE  IsFiniteSet(SymbolsIn(f, idx))
<1> DEFINE id == [s \in idx.symbols |-> SymbolId(f, s.name, s.kind, s.parent)]
<1>1. SymbolsIn(f, idx) = {id[s] : s \in idx.symbols}
  <2>1. \A s \in idx.symbols : id[s] = SymbolId(f, s.name, s.kind, s.parent)
    OBVIOUS
  <2> HIDE DEF id
  <2> QED
    BY <2>1 DEF SymbolsIn
<1> HIDE DEF id
<1> QED
  BY <1>1, FiniteImage

\* A file has finitely many imports.
LEMMA ImportsInFinite ==
  ASSUME NEW f, NEW idx, IsList(idx.imports)
  PROVE  IsFiniteSet(ImportsIn(f, idx))
<1> DEFINE id == [i \in DOMAIN idx.imports |-> ImportId(f, idx.imports[i])]
<1>1. ImportsIn(f, idx) = {id[i] : i \in DOMAIN idx.imports}
  <2>1. \A i \in DOMAIN idx.imports : id[i] = ImportId(f, idx.imports[i])
    OBVIOUS
  <2> HIDE DEF id
  <2> QED
    BY <2>1 DEF ImportsIn
<1>2. IsFiniteSet(DOMAIN idx.imports)
  <2>1. Len(idx.imports) \in Nat /\ DOMAIN idx.imports = 1 .. Len(idx.imports)
    BY LenProperties DEF IsList
  <2> QED
    BY <2>1, FS_Interval
<1> HIDE DEF id
<1> QED
  BY <1>1, <1>2, FiniteImage

\* The rows of a file in the tables are those of its contribution.
LEMMA RowsOfFile ==
  ASSUME NEW g, Tabled(g), NEW f
  PROVE  /\ {id \in g.symbols : FileOf(id) = f}
              = IF f \in DOMAIN g.files THEN SymbolsIn(f, g.files[f].facts) ELSE {}
         /\ {id \in g.imports : FileOf(id) = f}
              = IF f \in DOMAIN g.files THEN ImportsIn(f, g.files[f].facts) ELSE {}
<1>1. \A h \in DOMAIN g.files : Contribs(g.files)[h] = g.files[h].facts
  BY DEF Contribs
<1>2. g.symbols = UNION {SymbolsIn(h, Contribs(g.files)[h]) : h \in DOMAIN g.files}
  BY DEF Tabled, AllSymbols
<1>3. g.imports = UNION {ImportsIn(h, Contribs(g.files)[h]) : h \in DOMAIN g.files}
  BY DEF Tabled, AllImports
<1>4. \A id : id \in g.symbols <=>
                \E h \in DOMAIN g.files : id \in SymbolsIn(h, g.files[h].facts)
  BY <1>1, <1>2
<1>5. \A id : id \in g.imports <=>
                \E h \in DOMAIN g.files : id \in ImportsIn(h, g.files[h].facts)
  BY <1>1, <1>3
<1>6. \A h, idx : /\ \A id \in SymbolsIn(h, idx) : FileOf(id) = h
                  /\ \A id \in ImportsIn(h, idx) : FileOf(id) = h
  BY IdsNameFile
<1>7. {id \in g.symbols : FileOf(id) = f}
        = IF f \in DOMAIN g.files THEN SymbolsIn(f, g.files[f].facts) ELSE {}
  BY <1>4, <1>6
<1>8. {id \in g.imports : FileOf(id) = f}
        = IF f \in DOMAIN g.files THEN ImportsIn(f, g.files[f].facts) ELSE {}
  BY <1>5, <1>6
<1> QED
  BY <1>7, <1>8

\* no identifier is None or that of a member of nothing
Usual(symbols, imports) ==
  /\ Identified(symbols, imports)
  /\ None \notin symbols \union imports
  /\ \A f, n : <<"member", f, "", n>> \notin symbols

\* So the identifiers of a graph are usual.
LEMMA StandingUsual ==
  ASSUME NEW g, Standing(g)
  PROVE  Usual(g.symbols, g.imports)
<1>1. /\ \A f : {id \in g.symbols : FileOf(id) = f}
                  = IF f \in DOMAIN g.files THEN SymbolsIn(f, g.files[f].facts) ELSE {}
      /\ \A f : {id \in g.imports : FileOf(id) = f}
                  = IF f \in DOMAIN g.files THEN ImportsIn(f, g.files[f].facts) ELSE {}
  BY RowsOfFile DEF Standing
<1>2. ASSUME NEW f PROVE /\ IsFiniteSet({id \in g.symbols : FileOf(id) = f})
                         /\ IsFiniteSet({id \in g.imports : FileOf(id) = f})
  <2>1. f \in DOMAIN g.files => IsFiniteSet(SymbolsIn(f, g.files[f].facts))
                                /\ IsFiniteSet(ImportsIn(f, g.files[f].facts))
    BY SymbolsInFinite, ImportsInFinite DEF Standing, Formed, Statements
  <2> QED
    BY <1>1, <2>1, FS_EmptySet
<1>3. /\ \A id \in g.symbols : \E f \in DOMAIN g.files : id \in SymbolsIn(f, g.files[f].facts)
      /\ \A id \in g.imports : \E f \in DOMAIN g.files : id \in ImportsIn(f, g.files[f].facts)
  BY DEF Standing, Tabled, AllSymbols, AllImports, Contribs
<1>4. ASSUME NEW id \in g.symbols
      PROVE  \E f \in Files : \E s : /\ id = SymbolId(f, s.name, s.kind, s.parent)
                                     /\ id # None
  BY <1>3 DEF Standing, Formed, SymbolsIn
<1>5. ASSUME NEW id \in g.imports
      PROVE  \E f \in Files : \E s : id = ImportId(f, s) /\ id # None
  BY <1>3 DEF Standing, Formed, ImportsIn
<1>6. \A id \in g.symbols : id[1] \in {"member", "class", "module"} /\ FileOf(id) \in Files
  BY <1>4, IdsTell
<1>7. \A id \in g.imports : /\ id[1] = "import" /\ FileOf(id) \in Files
                            /\ id = <<"import", FileOf(id), NameOf(id)>>
  BY <1>5, IdsTell
<1>8. Identified(g.symbols, g.imports)
  BY <1>2, <1>6, <1>7 DEF Identified
<1>9. ASSUME NEW f, NEW n, <<"member", f, "", n>> \in g.symbols PROVE FALSE
  <2>1. PICK h, s : <<"member", f, "", n>> = SymbolId(h, s.name, s.kind, s.parent)
    BY <1>4, <1>9
  <2> QED
    BY <2>1 DEF SymbolId
<1> QED
  BY <1>4, <1>5, <1>8, <1>9 DEF Usual

-----------------------------------------------------------------------------
(* References.                                                             *)

\* the candidates of every name are all that carry it
Collected(named, symbols, imports) ==
  \A n : Gathered(Candidates(named, n), symbols, imports, n)

\* an edge to a symbol of a called name
ToCalled(es, idx, e) ==
  /\ e \in ToSet(es)
  /\ e[2][1] # "import"
  /\ \E c \in idx.calls : c.callee = NameOf(e[2])

\* an edge that one of the statements gives rise to
Given(symbols, f, idx, e) ==
  \E s \in ToSet(idx.imports), id \in symbols :
    /\ \E k \in DOMAIN s.names : s.names[k] = NameOf(id)
    /\ Met(f, s, id) /\ e = <<ImportId(f, s), id>>
    /\ \E c \in idx.calls : c.callee = NameOf(id)

\* the edges to symbols of called names are those the statements give rise to
RefsOK(symbols, es, f, idx) == \A e : ToCalled(es, idx, e) <=> Given(symbols, f, idx, e)

\* Candidates that are all that carry their name are identifiers.
LEMMA CollectedOffers ==
  ASSUME NEW symbols, NEW imports, NEW named, Collected(named, symbols, imports)
  PROVE  /\ Offers(named, symbols \union imports)
         /\ \A n, id : id \in ToSet(Candidates(named, n)) <=>
                         id \in symbols \union imports /\ NameOf(id) = n
BY DEF Collected, Gathered, Offers

\* The references of a file, whichever order the candidates were gathered in.
LEMMA ReferencesOK ==
  ASSUME NEW symbols, NEW imports, Usual(symbols, imports), NEW f, NEW idx,
         Statements(idx.imports), NEW named, Collected(named, symbols, imports)
  PROVE  /\ RefsOK(symbols, References(f, idx.imports, named), f, idx)
         /\ IsList(References(f, idx.imports, named))
<1> DEFINE es == References(f, idx.imports, named)
           ids == symbols \union imports
<1>1. Offers(named, ids)
      /\ \A n, id : id \in ToSet(Candidates(named, n)) <=> id \in ids /\ NameOf(id) = n
  BY CollectedOffers
<1>2. ReferredTo(es, f, idx.imports, named, ids)
  BY <1>1, ReferencesAre
<1>3. /\ \A id \in symbols : id[1] # "import"
      /\ \A id \in imports : id[1] = "import"
  BY DEF Usual, Identified
<1> HIDE DEF es
<1>4. ASSUME NEW e, ToCalled(es, idx, e) PROVE Given(symbols, f, idx, e)
  <2>1. PICK s \in ToSet(idx.imports) : \E k \in DOMAIN s.names :
               \E id \in ToSet(Candidates(named, s.names[k])) :
                 Met(f, s, id) /\ e = <<ImportId(f, s), id>>
    BY <1>2, <1>4 DEF ReferredTo, ToCalled
  <2>2. PICK k \in DOMAIN s.names :
               \E id \in ToSet(Candidates(named, s.names[k])) :
                 Met(f, s, id) /\ e = <<ImportId(f, s), id>>
    BY <2>1
  <2>3. PICK id \in ToSet(Candidates(named, s.names[k])) :
               Met(f, s, id) /\ e = <<ImportId(f, s), id>>
    BY <2>2
  <2>4. id \in ids /\ NameOf(id) = s.names[k] /\ e[2] = id
    BY <1>1, <2>3
  <2>5. id \in symbols /\ \E c \in idx.calls : c.callee = NameOf(id)
    BY <1>3, <1>4, <2>4 DEF ToCalled
  <2> QED
    BY <2>2, <2>3, <2>4, <2>5 DEF Given
<1>5. ASSUME NEW e, Given(symbols, f, idx, e) PROVE ToCalled(es, idx, e)
  <2>1. PICK s \in ToSet(idx.imports), id \in symbols :
               /\ \E k \in DOMAIN s.names : s.names[k] = NameOf(id)
               /\ Met(f, s, id) /\ e = <<ImportId(f, s), id>>
               /\ \E c \in idx.calls : c.callee = NameOf(id)
    BY <1>5 DEF Given
  <2>2. PICK k \in DOMAIN s.names : s.names[k] = NameOf(id)
    BY <2>1
  <2>3. id \in ToSet(Candidates(named, s.names[k]))
    BY <1>1, <2>2
  <2>4. e \in ToSet(es)
    BY <1>2, <2>1, <2>3 DEF ReferredTo
  <2>5. e[2] = id /\ id[1] # "import"
    BY <1>3, <2>1
  <2> QED
    BY <2>1, <2>4, <2>5 DEF ToCalled
<1> QED
  BY <1>2, <1>4, <1>5 DEF RefsOK, ReferredTo, IsList, es

-----------------------------------------------------------------------------
(* Callees.                                                                *)

\* The least index of an answer that is not None.
LEMMA FirstGiven ==
  ASSUME NEW S, NEW answers \in Seq(S), NEW i \in 1 .. Len(answers), answers[i] # None,
         \A j \in 1 .. Len(answers) : j < i => answers[j] = None,
         NEW given, given = {j \in DOMAIN answers : answers[j] # None}
  PROVE  given # {} /\ Min(given) = i
<1>1. DOMAIN answers = 1 .. Len(answers) /\ Len(answers) \in Nat
  BY LenProperties
<1>2. i \in given /\ \A j \in given : i <= j
  BY <1>1
<1>3. \E m \in given : \A j \in given : m <= j
  BY <1>2
<1>4. Min(given) \in given /\ \A j \in given : Min(given) <= j
  BY <1>3, Zenon DEF Min
<1>5. \A j \in given : j \in Int
  BY <1>1
<1>6. i \in Int /\ Min(given) \in Int
  BY <1>2, <1>4, <1>5
<1>7. i <= Min(given) /\ Min(given) <= i
  BY <1>2, <1>4
<1>8. Min(given) = i
  BY <1>6, <1>7
<1> QED
  BY <1>2, <1>8

\* the answers to a call by plain name, in their order
PlainCallee(local, imported, cs) ==
  IF local # None THEN local
  ELSE IF imported # None THEN imported
  ELSE IF Len(cs) > 0 THEN cs[1] ELSE None

\* Five answers.
LEMMA FiveListed ==
  ASSUME NEW S, NEW a \in S, NEW b \in S, NEW d \in S, NEW e \in S, NEW h \in S
  PROVE  <<a, b, d, e, h>> \in Seq(S) /\ Len(<<a, b, d, e, h>>) = 5
OBVIOUS

\* the first answer that counts
FirstOf(answers) ==
  LET given == {j \in DOMAIN answers : answers[j] # None}
  IN IF given = {} THEN None ELSE answers[Min(given)]

\* the answers are five and then these
Behind(answers, head, cs, S) ==
  /\ answers \in Seq(S) /\ Len(answers) = 5 + Len(cs) /\ Len(cs) \in Nat
  /\ answers[1] = head[1] /\ answers[2] = head[2] /\ answers[3] = head[3]
  /\ answers[4] = head[4] /\ answers[5] = head[5]
  /\ Len(cs) > 0 => answers[6] = cs[1]

\* The answers of the file come before the candidates.
LEMMA AnswersLaid ==
  ASSUME NEW S, NEW head \in Seq(S), Len(head) = 5, NEW cs \in Seq(S),
         NEW answers, answers = head \o cs
  PROVE  Behind(answers, head, cs, S)
<1>1. /\ answers \in Seq(S) /\ Len(answers) = Len(head) + Len(cs) /\ Len(cs) \in Nat
      /\ \A k \in 1 .. Len(head) : answers[k] = head[k]
      /\ \A k \in 1 .. Len(cs) : answers[Len(head) + k] = cs[k]
  <2>1. /\ head \o cs \in Seq(S) /\ Len(head \o cs) = Len(head) + Len(cs) /\ Len(cs) \in Nat
        /\ \A k \in 1 .. Len(head) : (head \o cs)[k] = head[k]
        /\ \A k \in 1 .. Len(cs) : (head \o cs)[Len(head) + k] = cs[k]
    BY ONLY head \in Seq(S), cs \in Seq(S), ConcatLaid
  <2> QED
    BY <2>1
<1>2. 1 \in 1 .. 5 /\ 2 \in 1 .. 5 /\ 3 \in 1 .. 5 /\ 4 \in 1 .. 5 /\ 5 \in 1 .. 5
  OBVIOUS
<1>3. /\ answers[1] = head[1] /\ answers[2] = head[2] /\ answers[3] = head[3]
      /\ answers[4] = head[4] /\ answers[5] = head[5]
  BY <1>1, <1>2
<1>4. Len(cs) > 0 => answers[5 + 1] = cs[1]
  BY <1>1
<1> QED
  BY <1>1, <1>3, <1>4 DEF Behind

\* the first of the answers is local, imported or the first of the rest
FirstIs(answers, local, imported, n, first) ==
  FirstOf(answers) = IF local # None THEN local ELSE IF imported # None THEN imported
                     ELSE IF n > 0 THEN first ELSE None

\* The first answer that is not None, where the first three are.
LEMMA FirstAnswer ==
  ASSUME NEW S, NEW answers \in Seq(S), NEW n \in Nat, Len(answers) = 5 + n,
         answers[1] = None, answers[2] = None, answers[3] = None,
         NEW local, answers[4] = local, NEW imported, answers[5] = imported,
         NEW first, n > 0 => answers[6] = first /\ first # None
  PROVE  FirstIs(answers, local, imported, n, first)
<1>0. PICK to : to = FirstOf(answers)
  OBVIOUS
<1>1. DOMAIN answers = 1 .. 5 + n
  BY LenProperties
<1>2. ASSUME NEW i \in 1 .. Len(answers), answers[i] # None,
             \A j \in 1 .. Len(answers) : j < i => answers[j] = None
      PROVE  to = answers[i]
  <2>1. PICK given : given = {j \in DOMAIN answers : answers[j] # None}
    OBVIOUS
  <2>2. given # {} /\ Min(given) = i
    BY <1>2, <2>1, FirstGiven
  <2> QED
    BY <1>0, <2>1, <2>2 DEF FirstOf
<1>3. \A j \in 1 .. 5 + n : j < 4 => j = 1 \/ j = 2 \/ j = 3
  OBVIOUS
<1>4. CASE local # None
  <2>1. 4 \in 1 .. Len(answers) /\ \A j \in 1 .. Len(answers) : j < 4 => answers[j] = None
    BY <1>3
  <2>2. to = answers[4]
    BY <1>2, <1>4, <2>1
  <2> QED
    BY <1>0, <1>4, <2>2 DEF FirstIs
<1>5. CASE local = None /\ imported # None
  <2>1. \A j \in 1 .. 5 + n : j < 5 => j < 4 \/ j = 4
    OBVIOUS
  <2>2. 5 \in 1 .. Len(answers) /\ \A j \in 1 .. Len(answers) : j < 5 => answers[j] = None
    BY <1>3, <1>5, <2>1
  <2>3. to = answers[5]
    BY <1>2, <1>5, <2>2
  <2> QED
    BY <1>0, <1>5, <2>3 DEF FirstIs
<1>6. CASE local = None /\ imported = None /\ n > 0
  <2>1. \A j \in 1 .. 5 + n : j < 6 => j < 4 \/ j = 4 \/ j = 5
    OBVIOUS
  <2>2. 6 \in 1 .. Len(answers) /\ \A j \in 1 .. Len(answers) : j < 6 => answers[j] = None
    BY <1>3, <1>6, <2>1
  <2>3. to = answers[6]
    BY <1>2, <1>6, <2>2
  <2> QED
    BY <1>0, <1>6, <2>3 DEF FirstIs
<1>7. CASE local = None /\ imported = None /\ ~(n > 0)
  <2>1. \A j \in 1 .. 5 + n : j < 4 \/ j = 4 \/ j = 5
    BY <1>7
  <2>2. \A j \in 1 .. 5 + n : answers[j] = None
    BY <1>3, <1>7, <2>1
  <2>3. {j \in DOMAIN answers : answers[j] # None} = {}
    BY <1>1, <2>2
  <2> QED
    BY <1>0, <1>7, <2>3 DEF FirstOf, FirstIs
<1> QED
  BY <1>0, <1>4, <1>5, <1>6, <1>7 DEF FirstIs

\* So a call by plain name is answered by the file, its imports or the candidates.
LEMMA FirstOfPlain ==
  ASSUME NEW S, NEW head \in Seq(S), Len(head) = 5, head[1] = None, head[2] = None,
         head[3] = None, NEW cs \in Seq(S), \A k \in 1 .. Len(cs) : cs[k] # None
  PROVE  FirstOf(head \o cs) = PlainCallee(head[4], head[5], cs)
<1>1. PICK answers : answers = head \o cs
  OBVIOUS
<1>a. Behind(answers, head, cs, S)
  BY <1>1, AnswersLaid
<1>2. /\ answers \in Seq(S) /\ Len(answers) = 5 + Len(cs) /\ Len(cs) \in Nat
      /\ answers[1] = head[1] /\ answers[2] = head[2] /\ answers[3] = head[3]
      /\ answers[4] = head[4] /\ answers[5] = head[5]
      /\ Len(cs) > 0 => answers[6] = cs[1]
  BY <1>a DEF Behind
<1>3. Len(cs) > 0 => cs[1] # None
  BY <1>2
<1>4. PICK first, local, imported :
        first = cs[1] /\ local = head[4] /\ imported = head[5]
  OBVIOUS
<1>5. PICK n \in Nat : n = Len(cs)
  BY <1>2
<1>6. FirstIs(answers, local, imported, n, first)
  <2>1. /\ Len(answers) = 5 + n /\ answers[1] = None /\ answers[2] = None /\ answers[3] = None
        /\ answers[4] = local /\ answers[5] = imported /\ (n > 0 => answers[6] = first /\ first # None)
    BY <1>2, <1>3, <1>4, <1>5
  <2> QED
    BY <1>2, <1>4, <2>1, FirstAnswer
<1> QED
  BY <1>1, <1>4, <1>5, <1>6 DEF PlainCallee, FirstIs

\* A call without receiver has no answer of a class or of what it is called on.
LEMMA CalleeIsPlain ==
  ASSUME NEW scope, NEW f, NEW c, c.receiver = "", \A n : <<"member", f, "", n>> \notin scope.symbols,
         NEW ids, Candidates(scope.named, c.callee) \in Seq(ids), None \notin ids
  PROVE  Callee(scope, f, c) = PlainCallee(OfFile(scope, f, c), Imported(scope.refs, f, c.callee),
                                           Candidates(scope.named, c.callee))
<1>0. OfSelf(scope, f, c) = None /\ OfImported(scope, f, c) = None
      /\ OfLocalClass(scope, f, c) = None
  BY DEF OfSelf, OfImported, OfLocalClass
<1>1. PICK local, imported, cs, head :
        /\ local = OfFile(scope, f, c) /\ imported = Imported(scope.refs, f, c.callee)
        /\ cs = Candidates(scope.named, c.callee)
        /\ head = <<None, None, None, local, imported>>
  OBVIOUS
<1>2. Callee(scope, f, c) = FirstOf(head \o cs)
  BY <1>0, <1>1 DEF Callee, FirstOf
<1>3. PICK S : S = ids \union {None, local, imported}
  OBVIOUS
<1>4. cs \in Seq(S) /\ head \in Seq(S) /\ Len(head) = 5
  <2>1. cs \in Seq(ids)
    BY <1>1
  <2>2. ids \subseteq S /\ None \in S /\ local \in S /\ imported \in S
    BY <1>3
  <2>3. cs \in Seq(S)
    BY <2>1, <2>2, SeqWider
  <2>4. head \in Seq(S) /\ Len(head) = 5
    BY <1>1, <2>2, FiveListed
  <2> QED
    BY <2>3, <2>4
<1>5. /\ head[1] = None /\ head[2] = None /\ head[3] = None /\ head[4] = local
      /\ head[5] = imported
  BY <1>1
<1>6. \A k \in 1 .. Len(cs) : cs[k] # None
  BY <1>1, ElementOfSeq
<1>7. FirstOf(head \o cs) = PlainCallee(head[4], head[5], cs)
  BY <1>4, <1>5, <1>6, FirstOfPlain
<1> QED
  BY <1>1, <1>2, <1>5, <1>7

\* a name in the file itself
LocalIds(symbols, f, n) == {<<"module", f, n>>, <<"class", f, n>>} \intersect symbols

\* no import named n meets a symbol of that name
NoneMet(symbols, f, idx, n) ==
  \A s \in ToSet(idx.imports), id \in symbols :
    s.names[1] = n /\ NameOf(id) = n => ~Met(f, s, id)

\* a symbol that an import of that name meets
ByImport(to, symbols, f, idx, n) ==
  /\ to \in symbols /\ NameOf(to) = n
  /\ \E s \in ToSet(idx.imports) : s.names[1] = n /\ Met(f, s, to)

\* a symbol of the name, the import of the file itself, or nothing
ByName(to, symbols, imports, f, idx, n) ==
  /\ NoneMet(symbols, f, idx, n)
  /\ \/ /\ to = None /\ <<"import", f, n>> \notin imports
        /\ \A id \in symbols : NameOf(id) # n
     \/ to \in symbols /\ NameOf(to) = n
     \/ /\ to = <<"import", f, n>> /\ to \in imports
        /\ \A id \in symbols : FileOf(id) = f => NameOf(id) # n

\* an import of another file
ByForeign(to, imports, f, n) == to \in imports /\ NameOf(to) = n /\ FileOf(to) # f

\* where a call by plain name may lead
Leads(to, symbols, imports, f, idx, n) ==
  IF LocalIds(symbols, f, n) # {} THEN to = CHOOSE id \in LocalIds(symbols, f, n) : TRUE
  ELSE \/ ByImport(to, symbols, f, idx, n)
       \/ ByName(to, symbols, imports, f, idx, n)
       \/ ByForeign(to, imports, f, n)

\* imports that start with the name name nothing else
SingleIn(idx, n) == \A s \in ToSet(idx.imports) : s.names[1] = n => Len(s.names) = 1

\* What the imports of a file know of a name, where no name is None.
LEMMA KnownLeads ==
  ASSUME NEW symbols, NEW imports, Usual(symbols, imports), NEW f, NEW idx, NEW n,
         NEW cs, Gathered(cs, symbols, imports, n),
         NEW to, to # None, Knows(to, f, idx.imports, n, cs, symbols \union imports)
  PROVE  ByImport(to, symbols, f, idx, n) \/ ByForeign(to, imports, f, n)
<1>1. PICK s \in ToSet(idx.imports) :
             s.names[1] = n /\ LastMet(to, f, s, cs, symbols \union imports)
  BY DEF Knows
<1>2. PICK Q : Q = {id \in symbols \union imports : Met(f, s, id)}
  OBVIOUS
<1>3. PICK m : Final(cs, m, Q) /\ to = cs[m]
  BY <1>1, <1>2 DEF LastMet
<1>4. to \in Q /\ to \in ToSet(cs)
  BY <1>3 DEF Final, ToSet, Gathered
<1>5. Met(f, s, to) /\ to \in symbols \union imports /\ NameOf(to) = n
  BY <1>2, <1>4 DEF Gathered
<1>6. CASE to \in symbols
  BY <1>1, <1>5, <1>6 DEF ByImport
<1>7. CASE to \in imports
  <2>1. to = <<"import", FileOf(to), n>> /\ to # <<"import", f, n>>
    <3>1. to = <<"import", FileOf(to), NameOf(to)>>
      BY <1>7 DEF Usual, Identified
    <3>2. ImportId(f, s) = <<"import", f, n>>
      BY <1>1, IdsTell
    <3> QED
      BY <1>5, <3>1, <3>2 DEF Met
  <2> QED
    BY <1>5, <1>7, <2>1 DEF ByForeign
<1> QED
  BY <1>5, <1>6, <1>7

\* Where the imports know nothing the first candidate counts.
LEMMA NamedLeads ==
  ASSUME NEW symbols, NEW imports, Usual(symbols, imports), NEW f, NEW idx, NEW n,
         NEW cs, Gathered(cs, symbols, imports, n),
         Knows(None, f, idx.imports, n, cs, symbols \union imports),
         NEW to, to = IF Len(cs) > 0 THEN cs[1] ELSE None
  PROVE  ByName(to, symbols, imports, f, idx, n) \/ ByForeign(to, imports, f, n)
<1> DEFINE ids == symbols \union imports
<1>1. /\ cs \in Seq(ids) /\ Len(cs) \in Nat /\ None \notin ids
      /\ \A id : id \in ToSet(cs) <=> id \in ids /\ NameOf(id) = n
  <2>1. cs \in Seq(ids) /\ ToSet(cs) = {id \in ids : NameOf(id) = n}
    BY DEF Gathered
  <2>2. \A id : id \in ToSet(cs) <=> id \in ids /\ NameOf(id) = n
    BY <2>1
  <2>3. Len(cs) \in Nat
    BY <2>1
  <2> QED
    BY <2>1, <2>2, <2>3 DEF Usual
<1>2. ASSUME NEW s \in ToSet(idx.imports), s.names[1] = n, NEW id \in ToSet(cs) PROVE ~Met(f, s, id)
  <2>1. SUFFICES ASSUME NEW t, LastMet(None, f, t, cs, ids) PROVE FALSE
    BY <1>2 DEF Knows
  <2>2. PICK m : m \in 1 .. Len(cs) /\ None = cs[m]
    BY <2>1 DEF LastMet, Final
  <2> QED
    BY <1>1, <2>2, ElementOfSeq
<1>3. NoneMet(symbols, f, idx, n)
  BY <1>1, <1>2 DEF NoneMet
<1>4. \A id \in symbols : id \in ids /\ id # None
  BY <1>1
<1>5. CASE Len(cs) > 0
  <2>1. to = cs[1] /\ cs[1] \in ToSet(cs) /\ cs[1] \in ids
    BY <1>1, <1>5, HeadIn
  <2>2. NameOf(to) = n
    BY <1>1, <2>1
  <2>3. \/ to \in symbols
        \/ to \in imports /\ ToSet(NamedIn(symbols, FileOf(to), n)) = {}
    BY <1>5, <2>1 DEF Gathered
  <2>4. CASE to \in symbols
    BY <1>3, <2>2, <2>4 DEF ByName
  <2>5. CASE to \in imports /\ ToSet(NamedIn(symbols, FileOf(to), n)) = {} /\ FileOf(to) = f
    <3>1. to = <<"import", f, n>> /\ f \in Files
      BY <2>2, <2>5 DEF Usual, Identified
    <3>2. ToSet(NamedIn(symbols, f, n)) = {id \in symbols : FileOf(id) = f /\ NameOf(id) = n}
      <4>1. IsFiniteSet({id \in symbols : FileOf(id) = f})
        BY <3>1 DEF Usual, Identified
      <4> QED
        BY <4>1, NamedInIs
    <3>3. \A id \in symbols : FileOf(id) = f => NameOf(id) # n
      BY <2>5, <3>2
    <3> QED
      BY <1>3, <2>5, <3>1, <3>3 DEF ByName
  <2>6. CASE to \in imports /\ FileOf(to) # f
    BY <2>2, <2>6 DEF ByForeign
  <2> QED
    BY <2>3, <2>4, <2>5, <2>6
<1>6. CASE ~(Len(cs) > 0)
  <2>1. ToSet(cs) = {}
    BY <1>1, <1>6, EmptyIff
  <2>2. \A id \in ids : NameOf(id) # n
    BY <1>1, <2>1
  <2>3. NameOf(<<"import", f, n>>) = n
    BY DEF NameOf
  <2> QED
    BY <1>3, <1>6, <2>2, <2>3 DEF ByName
<1> QED
  BY <1>5, <1>6

\* A call by plain name leads where it may.
LEMMA CalleeLeads ==
  ASSUME NEW scope, Usual(scope.symbols, scope.imports), NEW f, NEW idx, Statements(idx.imports),
         Collected(scope.named, scope.symbols, scope.imports),
         f \in DOMAIN scope.refs, scope.refs[f] = References(f, idx.imports, scope.named),
         NEW c, c.receiver = "", SingleIn(idx, c.callee)
  PROVE  Leads(Callee(scope, f, c), scope.symbols, scope.imports, f, idx, c.callee)
<1>1. PICK n, cs, symbols, imports : /\ n = c.callee /\ cs = Candidates(scope.named, n)
                                     /\ symbols = scope.symbols /\ imports = scope.imports
  OBVIOUS
<1>2. PICK local, imported, to : /\ local = OfFile(scope, f, c)
                                 /\ imported = Imported(scope.refs, f, n)
                                 /\ to = Callee(scope, f, c)
  OBVIOUS
<1>3. /\ Usual(symbols, imports) /\ Gathered(cs, symbols, imports, n)
      /\ Offers(scope.named, symbols \union imports)
  BY <1>1, CollectedOffers DEF Collected
<1>4. Knows(imported, f, idx.imports, n, cs, symbols \union imports)
  BY <1>1, <1>2, <1>3, ImportedIs DEF SingleIn
<1>5. to = PlainCallee(local, imported, cs)
  <2>1. \A h, m : <<"member", h, "", m>> \notin scope.symbols
    BY DEF Usual
  <2>2. Candidates(scope.named, c.callee) \in Seq(symbols \union imports)
        /\ None \notin symbols \union imports
    BY <1>1, <1>3 DEF Gathered, Usual
  <2> QED
    BY <1>1, <1>2, <2>1, <2>2, CalleeIsPlain
<1>6. local = IF LocalIds(symbols, f, n) = {} THEN None
              ELSE CHOOSE id \in LocalIds(symbols, f, n) : TRUE
  <2>1. LocalIds(symbols, f, n)
          = {<<"module", f, c.callee>>, <<"class", f, c.callee>>} \intersect scope.symbols
    BY <1>1 DEF LocalIds
  <2>2. OfFile(scope, f, c)
          = LET local0 == {<<"module", f, c.callee>>, <<"class", f, c.callee>>}
                            \intersect scope.symbols
            IN IF local0 = {} THEN None ELSE CHOOSE id \in local0 : TRUE
    BY DEF OfFile
  <2> QED
    BY <1>2, <2>1, <2>2, Zenon
<1>7. CASE LocalIds(symbols, f, n) # {}
  <2>1. local # None
    BY <1>3, <1>6, <1>7 DEF LocalIds, Usual
  <2> QED
    BY <1>1, <1>2, <1>5, <1>6, <1>7, <2>1 DEF PlainCallee, Leads
<1>8. CASE LocalIds(symbols, f, n) = {} /\ imported # None
  <2>1. to = imported
    BY <1>5, <1>6, <1>8 DEF PlainCallee
  <2>2. ByImport(to, symbols, f, idx, n) \/ ByForeign(to, imports, f, n)
    BY <1>3, <1>4, <1>8, <2>1, KnownLeads
  <2> QED
    BY <1>1, <1>2, <1>8, <2>2 DEF Leads
<1>9. CASE LocalIds(symbols, f, n) = {} /\ imported = None
  <2>1. to = IF Len(cs) > 0 THEN cs[1] ELSE None
    BY <1>5, <1>6, <1>9 DEF PlainCallee
  <2>2. ByName(to, symbols, imports, f, idx, n) \/ ByForeign(to, imports, f, n)
    BY <1>3, <1>4, <1>9, <2>1, NamedLeads
  <2> QED
    BY <1>1, <1>2, <1>9, <2>2 DEF Leads
<1> QED
  BY <1>7, <1>8, <1>9

\* the edges of a call
EdgesOf(g, f, c) == {e \in BagToSet(g.calls) : e.file = f /\ e.call = c}

\* the edges of a call lead where they may, and there is none only if it may lead nowhere
CallLeads(g, f, idx, c) ==
  /\ \A e \in EdgesOf(g, f, c) : Leads(e.to, g.symbols, g.imports, f, idx, c.callee)
  /\ EdgesOf(g, f, c) = {} => Leads(None, g.symbols, g.imports, f, idx, c.callee)

\* what RefsCurrent and CallsCurrent need of a file
Resolved(g, f, idx) ==
  Kept(idx) = idx.imports =>
    /\ IsList(g.refs[f]) /\ RefsOK(g.symbols, g.refs[f], f, idx)
    /\ \A c \in idx.calls : c.receiver = "" /\ SingleIn(idx, c.callee) => CallLeads(g, f, idx, c)

\* the edges of all files of a graph
ResolvedAll(g) ==
  /\ DOMAIN g.refs = DOMAIN g.files
  /\ \A f \in DOMAIN g.files : Resolved(g, f, g.files[f].facts)

\* the scope in which the calls of a graph are resolved
ScopeOf(g, named) == Scope(g.files, g.symbols, g.imports, g.refs, named)

\* The scope is of the tables of the graph.
LEMMA ScopeFields ==
  ASSUME NEW g, NEW named
  PROVE  /\ ScopeOf(g, named).symbols = g.symbols /\ ScopeOf(g, named).imports = g.imports
         /\ ScopeOf(g, named).refs = g.refs /\ ScopeOf(g, named).named = named
         /\ ScopeOf(g, named).contribs = Contribs(g.files)
BY DEF ScopeOf, Scope

\* the call edges of a file are those of its calls
CallsOfFile(g, named, f) ==
  \A e : e \in BagToSet(g.calls) /\ e.file = f <=> e \in FileCalls(ScopeOf(g, named), f)

\* The call edges of a file lead to the callees of its calls.
LEMMA FileCallsAre ==
  ASSUME NEW scope, NEW f, NEW calls, calls = scope.contribs[f].calls
  PROVE  /\ \A e \in FileCalls(scope, f) : e.file = f /\ e.call \in calls
                                           /\ e.to = Callee(scope, f, e.call)
         /\ \A c \in calls : Callee(scope, f, c) # None =>
              \E e \in FileCalls(scope, f) : e.file = f /\ e.call = c
<1>1. FileCalls(scope, f)
        = {e \in {[file |-> f, from |-> SymbolId(f, c.caller, "function", c.owner), call |-> c,
                   to |-> Callee(scope, f, c)] : c \in calls} : e.to # None}
  BY DEF FileCalls
<1>2. ASSUME NEW e \in FileCalls(scope, f)
      PROVE  e.file = f /\ e.call \in calls /\ e.to = Callee(scope, f, e.call)
  BY <1>1
<1>3. ASSUME NEW c \in calls, Callee(scope, f, c) # None
      PROVE  \E e \in FileCalls(scope, f) : e.file = f /\ e.call = c
  <2>1. PICK e : e = [file |-> f, from |-> SymbolId(f, c.caller, "function", c.owner),
                      call |-> c, to |-> Callee(scope, f, c)]
    OBVIOUS
  <2>2. e.to # None /\ e.file = f /\ e.call = c
    BY <1>3, <2>1
  <2>3. e \in {[file |-> f, from |-> SymbolId(f, d.caller, "function", d.owner), call |-> d,
                to |-> Callee(scope, f, d)] : d \in calls}
    BY <2>1
  <2>4. e \in FileCalls(scope, f)
    BY <1>1, <2>2, <2>3
  <2> QED
    BY <2>2, <2>4
<1> QED
  BY <1>2, <1>3

\* A file whose edges were just made is resolved.
LEMMA FreshResolved ==
  ASSUME NEW g, Standing(g), NEW f \in DOMAIN g.files, DOMAIN g.refs = DOMAIN g.files,
         NEW named, Collected(named, g.symbols, g.imports),
         g.refs[f] = References(f, Kept(g.files[f].facts), named)
           \/ g.refs[f] = References(f, g.files[f].facts.imports, named),
         CallsOfFile(g, named, f)
  PROVE  Resolved(g, f, g.files[f].facts)
<1>1. PICK idx, scope : idx = g.files[f].facts /\ scope = ScopeOf(g, named)
  OBVIOUS
<1>2. /\ scope.symbols = g.symbols /\ scope.imports = g.imports /\ scope.refs = g.refs
      /\ scope.named = named /\ scope.contribs = Contribs(g.files)
  BY <1>1, ScopeFields
<1>3. scope.contribs[f].calls = idx.calls
  BY <1>1, <1>2 DEF Contribs
<1>4. Statements(idx.imports)
  BY <1>1 DEF Standing, Formed
<1>5. Usual(g.symbols, g.imports)
  BY StandingUsual
<1> SUFFICES ASSUME Kept(idx) = idx.imports
             PROVE  /\ IsList(g.refs[f]) /\ RefsOK(g.symbols, g.refs[f], f, idx)
                    /\ \A c \in idx.calls :
                         c.receiver = "" /\ SingleIn(idx, c.callee) => CallLeads(g, f, idx, c)
  BY <1>1 DEF Resolved
<1>6. g.refs[f] = References(f, idx.imports, named)
  BY <1>1
<1>7. IsList(g.refs[f]) /\ RefsOK(g.symbols, g.refs[f], f, idx)
  BY <1>4, <1>5, <1>6, ReferencesOK
<1>8. ASSUME NEW c \in idx.calls, c.receiver = "", SingleIn(idx, c.callee)
      PROVE  CallLeads(g, f, idx, c)
  <2>1. Leads(Callee(scope, f, c), g.symbols, g.imports, f, idx, c.callee)
    BY <1>2, <1>4, <1>5, <1>6, <1>8, CalleeLeads
  <2>2. /\ \A e \in FileCalls(scope, f) : e.to = Callee(scope, f, e.call)
        /\ Callee(scope, f, c) # None => \E e \in FileCalls(scope, f) : e.file = f /\ e.call = c
    BY <1>3, FileCallsAre
  <2>3. \A e : e \in EdgesOf(g, f, c) <=> e \in FileCalls(scope, f) /\ e.call = c
    BY <1>1 DEF EdgesOf, CallsOfFile
  <2> QED
    BY <2>1, <2>2, <2>3 DEF CallLeads
<1> QED
  BY <1>7, <1>8

-----------------------------------------------------------------------------
(* A full compile.                                                         *)

\* Candidates of a full compile are all that carry their name.
LEMMA CollectedCompile ==
  ASSUME NEW symbols, NEW imports, Identified(symbols, imports), NEW order \in Orders
  PROVE  Collected(CompileCandidates(symbols, imports, order), symbols, imports)
BY CompileGathered DEF Collected

\* So are those of a patch.
LEMMA CollectedPatch ==
  ASSUME NEW symbols, NEW imports, Identified(symbols, imports), NEW again \in Seq(Files),
         NEW named \in PatchNamings(symbols, imports, again)
  PROVE  Collected(named, symbols, imports)
BY PatchGathered DEF Collected

\* the candidates of a full compile
CompiledNames(g, order) == CompileCandidates(g.symbols, g.imports, order)

\* the edges of a full compile
CompiledEdges(g, order) ==
  /\ DOMAIN g.refs = DOMAIN g.files
  /\ \A f \in DOMAIN g.files :
       /\ g.refs[f] = References(f, g.files[f].facts.imports, CompiledNames(g, order))
       /\ CallsOfFile(g, CompiledNames(g, order), f)

\* A full compile makes the edges of all files.
LEMMA CompileEdges ==
  ASSUME NEW files, NEW order
  PROVE  CompiledEdges(CompileGraph(files, order), order)
<1>1. PICK g : g = CompileGraph(files, order)
  OBVIOUS
<1>2. PICK named : named = CompiledNames(g, order)
  OBVIOUS
<1>3. /\ g.files = files
      /\ named = CompileCandidates(AllSymbols(Contribs(files), DOMAIN files),
                                   AllImports(Contribs(files), DOMAIN files), order)
  BY <1>1, <1>2 DEF CompileGraph, CompiledNames
<1>4. g.refs = [f \in DOMAIN files |-> References(f, Contribs(files)[f].imports, named)]
  BY <1>1, <1>3 DEF CompileGraph
<1>5. /\ g.symbols = AllSymbols(Contribs(files), DOMAIN files)
      /\ g.imports = AllImports(Contribs(files), DOMAIN files)
  BY <1>1 DEF CompileGraph
<1>6. g.calls = CallsIn(Scope(files, g.symbols, g.imports, g.refs, named), DOMAIN files)
  BY <1>1, <1>3, <1>4, <1>5 DEF CompileGraph
<1>7. g.calls = CallsIn(ScopeOf(g, named), DOMAIN files)
  BY <1>3, <1>6 DEF ScopeOf
<1>8. BagToSet(g.calls) = UNION {FileCalls(ScopeOf(g, named), f) : f \in DOMAIN files}
  BY <1>7 DEF CallsIn, BagToSet, SetToBag
<1>9. ASSUME NEW f \in DOMAIN files PROVE CallsOfFile(g, named, f)
  <2>1. \A h \in DOMAIN files : \A e \in FileCalls(ScopeOf(g, named), h) : e.file = h
    BY FileCallsAre
  <2> QED
    BY <1>8, <1>9, <2>1 DEF CallsOfFile
<1>10. \A f \in DOMAIN files : Contribs(files)[f] = files[f].facts
  BY DEF Contribs
<1>11. CompiledEdges(g, order)
  BY <1>2, <1>3, <1>4, <1>9, <1>10 DEF CompiledEdges
<1> QED
  BY <1>1, <1>11

\* After a full compile every file is resolved.
LEMMA CompileResolved ==
  ASSUME NEW g, Standing(g), NEW order \in Orders, CompiledEdges(g, order)
  PROVE  ResolvedAll(g)
<1>1. Collected(CompiledNames(g, order), g.symbols, g.imports)
  BY StandingUsual, CollectedCompile DEF Usual, CompiledNames
<1>2. DOMAIN g.refs = DOMAIN g.files
  BY DEF CompiledEdges
<1>3. ASSUME NEW f \in DOMAIN g.files PROVE Resolved(g, f, g.files[f].facts)
  <2>1. /\ g.refs[f] = References(f, g.files[f].facts.imports, CompiledNames(g, order))
        /\ CallsOfFile(g, CompiledNames(g, order), f)
    BY DEF CompiledEdges
  <2> QED
    BY <1>1, <1>2, <2>1, FreshResolved
<1> QED
  BY <1>2, <1>3 DEF ResolvedAll

-----------------------------------------------------------------------------
(* A patch.                                                                *)

\* what carries a name that a patch does not add: a symbol stays unless its file has
\* changed, and then it is deleted; so are the imports of changed files
Stays(g, p, changed, n) ==
  /\ \A id : FileOf(id) \notin DOMAIN changed =>
       (id \in p.symbols <=> id \in g.symbols) /\ (id \in p.imports <=> id \in g.imports)
  /\ \A id \in p.symbols : NameOf(id) = n => FileOf(id) \notin DOMAIN changed
  /\ \A id \in g.symbols :
       NameOf(id) = n /\ FileOf(id) \in DOMAIN changed => id \in Deleted(g, changed)
  /\ \A id \in g.imports : FileOf(id) \in DOMAIN changed => id \in Deleted(g, changed)

\* A row is in the tables if the facts of its file give it.
LEMMA TableRows ==
  ASSUME NEW g, Tabled(g)
  PROVE  /\ \A id : id \in g.symbols <=> /\ FileOf(id) \in DOMAIN g.files
                                         /\ id \in SymbolsIn(FileOf(id), g.files[FileOf(id)].facts)
         /\ \A id : id \in g.imports <=> /\ FileOf(id) \in DOMAIN g.files
                                         /\ id \in ImportsIn(FileOf(id), g.files[FileOf(id)].facts)
<1>1. ASSUME NEW id
      PROVE  /\ id \in g.symbols <=> /\ FileOf(id) \in DOMAIN g.files
                                     /\ id \in SymbolsIn(FileOf(id), g.files[FileOf(id)].facts)
             /\ id \in g.imports <=> /\ FileOf(id) \in DOMAIN g.files
                                     /\ id \in ImportsIn(FileOf(id), g.files[FileOf(id)].facts)
  <2>1. PICK f : f = FileOf(id)
    OBVIOUS
  <2>2. {x \in g.symbols : FileOf(x) = f}
           = IF f \in DOMAIN g.files THEN SymbolsIn(f, g.files[f].facts) ELSE {}
    BY RowsOfFile
  <2>3. {x \in g.imports : FileOf(x) = f}
           = IF f \in DOMAIN g.files THEN ImportsIn(f, g.files[f].facts) ELSE {}
    BY RowsOfFile
  <2>4. id \in g.symbols <=> id \in {x \in g.symbols : FileOf(x) = f}
    BY <2>1
  <2>5. id \in g.imports <=> id \in {x \in g.imports : FileOf(x) = f}
    BY <2>1
  <2>6. id \in g.symbols <=> f \in DOMAIN g.files /\ id \in SymbolsIn(f, g.files[f].facts)
    BY <2>2, <2>4
  <2>7. id \in g.imports <=> f \in DOMAIN g.files /\ id \in ImportsIn(f, g.files[f].facts)
    BY <2>3, <2>5
  <2> QED
    BY <2>1, <2>6, <2>7
<1> QED
  BY <1>1

\* A symbol of a name that no changed file defines stays, or its file has changed and
\* it is deleted.
LEMMA NamesStay ==
  ASSUME NEW g, Tabled(g), NEW p, Tabled(p), NEW changed, p.files = Patched(g.files, changed),
         NEW n, n \notin AddedNames(changed)
  PROVE  Stays(g, p, changed, n)
<1>1. /\ \A id : id \in g.symbols <=> /\ FileOf(id) \in DOMAIN g.files
                                      /\ id \in SymbolsIn(FileOf(id), g.files[FileOf(id)].facts)
      /\ \A id : id \in g.imports <=> /\ FileOf(id) \in DOMAIN g.files
                                      /\ id \in ImportsIn(FileOf(id), g.files[FileOf(id)].facts)
  BY TableRows
<1>2. /\ \A id : id \in p.symbols <=> /\ FileOf(id) \in DOMAIN p.files
                                      /\ id \in SymbolsIn(FileOf(id), p.files[FileOf(id)].facts)
      /\ \A id : id \in p.imports <=> /\ FileOf(id) \in DOMAIN p.files
                                      /\ id \in ImportsIn(FileOf(id), p.files[FileOf(id)].facts)
  BY TableRows
<1>3. \A f : f \notin DOMAIN changed => /\ f \in DOMAIN p.files <=> f \in DOMAIN g.files
                                        /\ f \in DOMAIN p.files => p.files[f] = g.files[f]
  BY DEF Patched
<1>4. \A f \in DOMAIN p.files : f \in DOMAIN changed => /\ changed[f] # Absent
                                                        /\ p.files[f] = changed[f]
  BY DEF Patched
<1>5. \A id, f, idx : id \in SymbolsIn(f, idx) => \E s \in idx.symbols : s.name = NameOf(id)
  BY IdsTell DEF SymbolsIn
<1>6. ASSUME NEW id, FileOf(id) \notin DOMAIN changed
      PROVE  (id \in p.symbols <=> id \in g.symbols) /\ (id \in p.imports <=> id \in g.imports)
  BY <1>1, <1>2, <1>3, <1>6
<1>7. ASSUME NEW id \in p.symbols, NameOf(id) = n, FileOf(id) \in DOMAIN changed PROVE FALSE
  <2>1. PICK f : f = FileOf(id)
    OBVIOUS
  <2>2. f \in DOMAIN p.files /\ id \in SymbolsIn(f, p.files[f].facts)
    BY <1>2, <2>1
  <2>3. p.files[f].facts = NewFacts(changed[f]) /\ f \in DOMAIN changed
    BY <1>4, <1>7, <2>1, <2>2 DEF NewFacts
  <2>4. PICK s \in NewFacts(changed[f]).symbols : s.name = n
    BY <1>5, <1>7, <2>2, <2>3
  <2>5. n \in AddedNames(changed)
    BY <2>3, <2>4 DEF AddedNames
  <2> QED
    BY <2>5
<1>8. ASSUME NEW id, FileOf(id) \in DOMAIN changed,
             \/ id \in g.imports
             \/ id \in g.symbols /\ NameOf(id) = n
      PROVE  id \in Deleted(g, changed)
  <2>1. PICK f \in DOMAIN changed : f = FileOf(id)
    BY <1>8
  <2>2. /\ f \in DOMAIN g.files
        /\ \/ id \in ImportsIn(f, g.files[f].facts)
           \/ id \in SymbolsIn(f, g.files[f].facts) /\ NameOf(id) = n
    BY <1>1, <1>8, <2>1
  <2>3. n \notin {s.name : s \in NewFacts(changed[f]).symbols}
    BY DEF AddedNames
  <2>4. \E kept : /\ kept = {s.name : s \in NewFacts(changed[f]).symbols}
                  /\ id \in {i \in SymbolsIn(f, g.files[f].facts) : NameOf(i) \notin kept}
                            \union ImportsIn(f, g.files[f].facts)
    BY <2>2, <2>3
  <2> QED
    BY <2>2, <2>4 DEF Deleted
<1> QED
  BY <1>6, <1>7, <1>8 DEF Stays

\* Where a call may lead it still may, if the target was not deleted.
LEMMA LeadsStays ==
  ASSUME NEW g, NEW p, NEW changed, NEW n, Stays(g, p, changed, n),
         Usual(g.symbols, g.imports), NEW f, f \notin DOMAIN changed, NEW idx,
         NEW to, to \notin Deleted(g, changed),
         Leads(to, g.symbols, g.imports, f, idx, n)
  PROVE  Leads(to, p.symbols, p.imports, f, idx, n)
<1>1. LocalIds(p.symbols, f, n) = LocalIds(g.symbols, f, n)
  <2>1. FileOf(<<"module", f, n>>) = f /\ FileOf(<<"class", f, n>>) = f
    BY DEF FileOf
  <2>2. /\ <<"module", f, n>> \in p.symbols <=> <<"module", f, n>> \in g.symbols
        /\ <<"class", f, n>> \in p.symbols <=> <<"class", f, n>> \in g.symbols
    BY <2>1 DEF Stays
  <2> QED
    BY <2>2 DEF LocalIds
<1>3. /\ to \in g.symbols /\ NameOf(to) = n => FileOf(to) \notin DOMAIN changed /\ to \in p.symbols
      /\ to \in g.imports => FileOf(to) \notin DOMAIN changed /\ to \in p.imports
  BY DEF Stays
<1>4. \A id \in p.symbols : NameOf(id) = n => id \in g.symbols
  BY DEF Stays
<1>5. ASSUME ByImport(to, g.symbols, f, idx, n) PROVE ByImport(to, p.symbols, f, idx, n)
  BY <1>3, <1>5 DEF ByImport
<1>6. ASSUME ByName(to, g.symbols, g.imports, f, idx, n)
      PROVE  ByName(to, p.symbols, p.imports, f, idx, n)
  <2>1. NoneMet(p.symbols, f, idx, n)
    BY <1>4, <1>6 DEF ByName, NoneMet
  <2>2. CASE /\ to = None /\ <<"import", f, n>> \notin g.imports
             /\ \A id \in g.symbols : NameOf(id) # n
    <3>1. <<"import", f, n>> \notin p.imports
      BY <2>2 DEF Stays, FileOf
    <3>2. \A id \in p.symbols : NameOf(id) # n
      BY <1>4, <2>2
    <3> QED
      BY <2>1, <2>2, <3>1, <3>2 DEF ByName
  <2>3. CASE to \in g.symbols /\ NameOf(to) = n
    BY <1>3, <2>1, <2>3 DEF ByName
  <2>4. CASE /\ to = <<"import", f, n>> /\ to \in g.imports
             /\ \A id \in g.symbols : FileOf(id) = f => NameOf(id) # n
    <3>1. \A id \in p.symbols : FileOf(id) = f => NameOf(id) # n
      BY <1>4, <2>4
    <3> QED
      BY <1>3, <2>1, <2>4, <3>1 DEF ByName
  <2> QED
    BY <1>6, <2>2, <2>3, <2>4 DEF ByName
<1>7. ASSUME ByForeign(to, g.imports, f, n) PROVE ByForeign(to, p.imports, f, n)
  BY <1>3, <1>7 DEF ByForeign
<1> QED
  BY <1>1, <1>5, <1>6, <1>7 DEF Leads

\* the edges of a file that a patch leaves alone
Left(g, p, changed, f) ==
  /\ p.refs[f] = Those(g.refs[f], {i \in DOMAIN g.refs[f] : g.refs[f][i][2] \notin Deleted(g, changed)})
  /\ \A e : e \in BagToSet(p.calls) /\ e.file = f <=> e \in BagToSet(g.calls) /\ e.file = f

\* A file that a patch leaves alone stays resolved: it calls no name that a changed file
\* defines, and none of its edges leads to what is deleted.
LEMMA LeftResolved ==
  ASSUME NEW g, Standing(g), DOMAIN g.refs = DOMAIN g.files, NEW p, Tabled(p), NEW changed,
         p.files = Patched(g.files, changed),
         NEW f \in DOMAIN g.files, f \notin Affected(g, changed), Left(g, p, changed, f),
         NEW idx, idx = g.files[f].facts, Resolved(g, f, idx)
  PROVE  Resolved(p, f, idx)
<1> SUFFICES ASSUME Kept(idx) = idx.imports
             PROVE  /\ IsList(p.refs[f]) /\ RefsOK(p.symbols, p.refs[f], f, idx)
                    /\ \A c \in idx.calls :
                         c.receiver = "" /\ SingleIn(idx, c.callee) => CallLeads(p, f, idx, c)
  BY DEF Resolved
<1>1. /\ f \notin DOMAIN changed /\ f \notin Users(g, Deleted(g, changed))
      /\ f \notin Waiting(g, AddedNames(changed))
  BY DEF Affected
<1>2. /\ IsList(g.refs[f]) /\ RefsOK(g.symbols, g.refs[f], f, idx)
      /\ \A c \in idx.calls :
           c.receiver = "" /\ SingleIn(idx, c.callee) => CallLeads(g, f, idx, c)
  BY DEF Resolved
<1>3. \A c \in idx.calls : Stays(g, p, changed, c.callee)
  <2>1. \A c \in idx.calls : c.callee \notin AddedNames(changed)
    BY <1>1 DEF Waiting
  <2> QED
    BY <2>1, NamesStay DEF Standing
<1>4. Usual(g.symbols, g.imports)
  BY StandingUsual
<1>5. \A i \in DOMAIN g.refs[f] : g.refs[f][i][2] \notin Deleted(g, changed)
  BY <1>1 DEF Users
<1>6. p.refs[f] = g.refs[f]
  <2>1. {i \in DOMAIN g.refs[f] : g.refs[f][i][2] \notin Deleted(g, changed)} = DOMAIN g.refs[f]
    BY <1>5
  <2> QED
    BY <1>2, <2>1, ThoseAll DEF Left
<1>7. \A e \in ToSet(g.refs[f]) : e[2] \notin Deleted(g, changed)
  BY <1>5 DEF ToSet
<1>8. ASSUME NEW e PROVE ToCalled(g.refs[f], idx, e) <=> Given(p.symbols, f, idx, e)
  <2>1. ToCalled(g.refs[f], idx, e) <=> Given(g.symbols, f, idx, e)
    BY <1>2 DEF RefsOK
  <2>2. ASSUME ToCalled(g.refs[f], idx, e) PROVE Given(p.symbols, f, idx, e)
    <3>1. PICK s \in ToSet(idx.imports), id \in g.symbols :
            /\ \E k \in DOMAIN s.names : s.names[k] = NameOf(id)
            /\ Met(f, s, id) /\ e = <<ImportId(f, s), id>>
            /\ \E c \in idx.calls : c.callee = NameOf(id)
      BY <2>1, <2>2 DEF Given
    <3>2. id \notin Deleted(g, changed)
      BY <1>7, <2>2, <3>1 DEF ToCalled
    <3>3. id \in p.symbols
      BY <1>3, <3>1, <3>2 DEF Stays
    <3> QED
      BY <3>1, <3>3 DEF Given
  <2>3. ASSUME Given(p.symbols, f, idx, e) PROVE Given(g.symbols, f, idx, e)
    <3>1. PICK s \in ToSet(idx.imports), id \in p.symbols :
            /\ \E k \in DOMAIN s.names : s.names[k] = NameOf(id)
            /\ Met(f, s, id) /\ e = <<ImportId(f, s), id>>
            /\ \E c \in idx.calls : c.callee = NameOf(id)
      BY <2>3 DEF Given
    <3>2. id \in g.symbols
      BY <1>3, <3>1 DEF Stays
    <3> QED
      BY <3>1, <3>2 DEF Given
  <2> QED
    BY <2>1, <2>2, <2>3
<1>9. IsList(p.refs[f]) /\ RefsOK(p.symbols, p.refs[f], f, idx)
  BY <1>2, <1>6, <1>8 DEF RefsOK
<1>10. ASSUME NEW c \in idx.calls, c.receiver = "", SingleIn(idx, c.callee)
       PROVE  CallLeads(p, f, idx, c)
  <2>1. CallLeads(g, f, idx, c) /\ Stays(g, p, changed, c.callee)
    BY <1>2, <1>3, <1>10
  <2>2. \A e : e \in EdgesOf(p, f, c) <=> e \in EdgesOf(g, f, c)
    BY DEF Left, EdgesOf
  <2>3. ASSUME NEW e \in EdgesOf(p, f, c)
        PROVE  Leads(e.to, p.symbols, p.imports, f, idx, c.callee)
    <3>1. e \in BagToSet(g.calls) /\ e.file = f
      BY <2>2, <2>3 DEF EdgesOf
    <3>2. e.to \notin Deleted(g, changed)
      BY <1>1, <3>1 DEF Users
    <3>3. Leads(e.to, g.symbols, g.imports, f, idx, c.callee)
      BY <2>1, <2>2, <2>3 DEF CallLeads
    <3> QED
      BY <1>1, <1>4, <2>1, <3>2, <3>3, LeadsStays
  <2>4. ASSUME EdgesOf(p, f, c) = {}
        PROVE  Leads(None, p.symbols, p.imports, f, idx, c.callee)
    <3>1. Leads(None, g.symbols, g.imports, f, idx, c.callee)
      BY <2>1, <2>2, <2>4 DEF CallLeads
    <3>2. None \notin Deleted(g, changed)
      <4>1. /\ \A h \in DOMAIN g.files : None \notin SymbolsIn(h, g.files[h].facts)
            /\ \A h \in DOMAIN g.files : None \notin ImportsIn(h, g.files[h].facts)
        BY DEF Standing, Formed
      <4> QED
        BY <4>1 DEF Deleted
    <3> QED
      BY <1>1, <1>4, <2>1, <3>1, <3>2, LeadsStays
  <2> QED
    BY <2>3, <2>4 DEF CallLeads
<1> QED
  BY <1>9, <1>10

\* the edges after a patch
PatchedEdges(g, p, changed, named) ==
  /\ DOMAIN p.refs = DOMAIN p.files
  /\ \A f \in DOMAIN p.files :
       IF f \in Affected(g, changed)
       THEN /\ p.refs[f] = References(f, Kept(p.files[f].facts), named)
            /\ CallsOfFile(p, named, f)
       ELSE Left(g, p, changed, f)

\* A patch makes the edges of affected files anew and leaves those of the others.
LEMMA PatchEdges ==
  ASSUME NEW g, NEW changed, NEW named, NEW p, p = Patch(g, changed, named)
  PROVE  PatchedEdges(g, p, changed, named)
<1>1. PICK affected, deleted, files, fs :
        /\ affected = Affected(g, changed) /\ deleted = Deleted(g, changed)
        /\ files = Patched(g.files, changed) /\ fs = Renewed(g, changed)
  OBVIOUS
<1>2. p.files = files
  BY <1>1 DEF Patch
<1>3. /\ p.symbols = PatchedSymbols(g, changed) /\ p.imports = PatchedImports(g, changed)
      /\ fs = affected \intersect DOMAIN files
  BY <1>1 DEF Patch, Renewed
<1>5. p.refs = [f \in DOMAIN files |->
                  IF f \in affected THEN References(f, Kept(Contribs(files)[f]), named)
                  ELSE Those(g.refs[f], {i \in DOMAIN g.refs[f] : g.refs[f][i][2] \notin deleted})]
  BY <1>1 DEF Patch
<1>6. p.calls = Elsewhere(g.calls, affected)
                (+) CallsIn(Scope(files, p.symbols, p.imports, p.refs, named), fs)
  BY <1>1, <1>3, <1>5 DEF Patch
<1>7. p.calls = Elsewhere(g.calls, affected) (+) CallsIn(ScopeOf(p, named), fs)
  BY <1>2, <1>6 DEF ScopeOf
<1>8. BagToSet(p.calls)
        = BagToSet(Elsewhere(g.calls, affected)) \union BagToSet(CallsIn(ScopeOf(p, named), fs))
  BY <1>7 DEF (+), BagToSet
<1>9. BagToSet(Elsewhere(g.calls, affected)) = {e \in BagToSet(g.calls) : e.file \notin affected}
  BY DEF Elsewhere, BagToSet
<1>10. BagToSet(CallsIn(ScopeOf(p, named), fs)) = UNION {FileCalls(ScopeOf(p, named), f) : f \in fs}
  BY DEF CallsIn, BagToSet, SetToBag
<1>11. \A h : \A e \in FileCalls(ScopeOf(p, named), h) : e.file = h
  BY FileCallsAre
<1>12. \A e : e \in BagToSet(p.calls) <=>
                \/ e \in BagToSet(g.calls) /\ e.file \notin affected
                \/ e.file \in fs /\ e \in FileCalls(ScopeOf(p, named), e.file)
  BY <1>8, <1>9, <1>10, <1>11
<1>13. ASSUME NEW f \in DOMAIN files, f \in affected
       PROVE  /\ p.refs[f] = References(f, Kept(p.files[f].facts), named)
              /\ CallsOfFile(p, named, f)
  <2>1. Contribs(files)[f] = p.files[f].facts
    BY <1>2 DEF Contribs
  <2>2. p.refs[f] = References(f, Kept(Contribs(files)[f]), named)
    BY <1>5, <1>13
  <2>3. f \in fs
    BY <1>3, <1>13
  <2> QED
    BY <1>11, <1>12, <1>13, <2>1, <2>2, <2>3 DEF CallsOfFile
<1>14. ASSUME NEW f \in DOMAIN files, f \notin affected
       PROVE  Left(g, p, changed, f)
  <2>1. p.refs[f] = Those(g.refs[f], {i \in DOMAIN g.refs[f] : g.refs[f][i][2] \notin deleted})
    BY <1>5, <1>14
  <2>2. f \notin fs
    BY <1>3, <1>14
  <2> QED
    BY <1>1, <1>12, <1>14, <2>1, <2>2 DEF Left
<1>15. DOMAIN p.refs = DOMAIN p.files
  BY <1>2, <1>5
<1> QED
  BY <1>1, <1>2, <1>13, <1>14, <1>15 DEF PatchedEdges

\* After a patch every file is resolved.
LEMMA PatchResolved ==
  ASSUME NEW g, Standing(g), ResolvedAll(g), NEW changed,
         NEW again \in SetToSeqs(Renewed(g, changed)),
         NEW named \in PatchNamings(PatchedSymbols(g, changed), PatchedImports(g, changed), again),
         NEW p, p = Patch(g, changed, named), Standing(p)
  PROVE  ResolvedAll(p)
<1>1. PatchedEdges(g, p, changed, named)
  BY PatchEdges
<1>2. p.files = Patched(g.files, changed)
  BY PatchTables DEF Standing
<1>3. DOMAIN p.refs = DOMAIN p.files /\ DOMAIN g.refs = DOMAIN g.files
  BY <1>1 DEF PatchedEdges, ResolvedAll
<1>4. Collected(named, p.symbols, p.imports)
  <2>1. Renewed(g, changed) \subseteq Files
    BY <1>2 DEF Standing, Renewed
  <2>2. again \in Seq(Renewed(g, changed))
    BY <2>1, FilesAssumption, FS_Subset, SeqsList
  <2>3. again \in Seq(Files)
    BY <2>1, <2>2, SeqWider
  <2>4. p.symbols = PatchedSymbols(g, changed) /\ p.imports = PatchedImports(g, changed)
    BY DEF Patch
  <2> QED
    BY <2>3, <2>4, StandingUsual, CollectedPatch DEF Usual
<1>5. ASSUME NEW f \in DOMAIN p.files PROVE Resolved(p, f, p.files[f].facts)
  <2>1. CASE f \in Affected(g, changed)
    <3>1. /\ p.refs[f] = References(f, Kept(p.files[f].facts), named)
          /\ CallsOfFile(p, named, f)
      BY <1>1, <2>1 DEF PatchedEdges
    <3> QED
      BY <1>3, <1>4, <3>1, FreshResolved
  <2>2. CASE f \notin Affected(g, changed)
    <3>1. Left(g, p, changed, f)
      BY <1>1, <2>2 DEF PatchedEdges
    <3>2. f \in DOMAIN g.files /\ p.files[f] = g.files[f]
      BY <1>2, <2>2 DEF Affected, Patched
    <3>3. Resolved(g, f, p.files[f].facts)
      BY <3>2 DEF ResolvedAll
    <3> QED
      BY <1>2, <1>3, <2>2, <3>1, <3>2, <3>3, LeftResolved DEF Standing
  <2> QED
    BY <2>1, <2>2
<1> QED
  BY <1>3, <1>5 DEF ResolvedAll

-----------------------------------------------------------------------------
\* the inductive invariant of references and calls
ResolvedInv == TablesInv /\ ResolvedAll(graph)

\* It holds at first,
LEMMA InitResolved == Init => ResolvedInv
<1> SUFFICES ASSUME Init PROVE ResolvedInv
  OBVIOUS
<1>1. TablesInv
  BY InitInv
<1>2. PICK order \in Orders : graph = CompileGraph(Indexed(told), order)
  BY DEF Init
<1>3. Standing(graph) /\ CompiledEdges(graph, order)
  BY <1>1, <1>2, StandingGraph, CompileEdges
<1>4. ResolvedAll(graph)
  BY <1>3, CompileResolved
<1> QED
  BY <1>1, <1>4 DEF ResolvedInv

\* The next graph is of the facts of files, too.
LEMMA StandingNext == TablesInv' => Standing(graph)'
BY StandingGraph, PTL

\* A patch or none keeps the invariant,
LEMMA ApplyResolved ==
  ASSUME ResolvedInv, TablesInv', NEW changed, Apply(changed)
  PROVE  ResolvedInv'
<1>1. IF DOMAIN changed = {} THEN graph' = graph
      ELSE \E again \in SetToSeqs(Renewed(graph, changed)) :
           \E named \in PatchNamings(PatchedSymbols(graph, changed),
                                     PatchedImports(graph, changed), again) :
             graph' = Patch(graph, changed, named)
  BY DEF Apply
<1>2. Standing(graph)
  BY StandingGraph DEF ResolvedInv
<1>3. Standing(graph')
  BY StandingNext
<1>4. ResolvedAll(graph')
  <2>1. CASE DOMAIN changed = {}
    BY <1>1, <2>1 DEF ResolvedInv
  <2>2. CASE DOMAIN changed # {}
    BY <1>1, <1>2, <1>3, <2>2, PatchResolved DEF ResolvedInv
  <2> QED
    BY <2>1, <2>2
<1> QED
  BY <1>4 DEF ResolvedInv

\* and so does every step.
LEMMA NextResolved == ResolvedInv /\ [Next]_vars => ResolvedInv'
<1> SUFFICES ASSUME ResolvedInv, [Next]_vars PROVE ResolvedInv'
  OBVIOUS
<1>1. TablesInv'
  BY NextInv DEF ResolvedInv
<1>2. CASE UNCHANGED vars
  BY <1>1, <1>2 DEF ResolvedInv, vars
<1>3. CASE Next
  <2>1. PICK head \in Repos :
          \/ Incremental(head)
          \/ \E fs \in SUBSET Files : ChangedOnly(fs, head)
    BY <1>3 DEF Next
  <2>2. \E changed : Apply(changed)
    <3>1. CASE Incremental(head)
      BY <3>1 DEF Incremental
    <3>2. CASE \E fs \in SUBSET Files : ChangedOnly(fs, head)
      BY <3>2 DEF ChangedOnly
    <3> QED
      BY <2>1, <3>1, <3>2
  <2> QED
    BY <1>1, <2>2, ApplyResolved
<1> QED
  BY <1>2, <1>3

-----------------------------------------------------------------------------
(* Some order of a full compile leads where a call may lead.               *)

\* no import of another file has the name
NoForeign(imports, f, n) == \A id \in imports : NameOf(id) = n => FileOf(id) = f

\* no file has two symbols of the name
OneIn(symbols, n) ==
  \A a, b \in symbols : NameOf(a) = n /\ NameOf(b) = n /\ FileOf(a) = FileOf(b) => a = b

\* what the imports know of a name in a compile with the file of a symbol last
KnownLast(imported, to, symbols, imports, order, f, idx, n, cs) ==
  /\ Usual(symbols, imports) /\ order \in Orders /\ OneIn(symbols, n)
  /\ Statements(idx.imports) /\ Kept(idx) = idx.imports /\ NoForeign(imports, f, n)
  /\ cs = Candidates(CompileCandidates(symbols, imports, order), n)
  /\ ByImport(to, symbols, f, idx, n) /\ order[Cardinality(Files)] = FileOf(to)
  /\ Knows(imported, f, idx.imports, n, cs, symbols \union imports)

\* With the file of the symbol last, the import knows the symbol.
LEMMA ImportedMet ==
  ASSUME NEW symbols, NEW imports, NEW order, NEW f, NEW idx, NEW n, NEW cs, NEW to, NEW imported,
         KnownLast(imported, to, symbols, imports, order, f, idx, n, cs)
  PROVE  imported = to
<1> USE DEF KnownLast
<1>1. PICK h : h = FileOf(to)
  OBVIOUS
<1>2. PICK s \in ToSet(idx.imports) : s.names[1] = n /\ Met(f, s, to)
  BY DEF ByImport
<1>3. /\ to \in symbols /\ NameOf(to) = n /\ h \in Files /\ Identified(symbols, imports)
  BY <1>1 DEF ByImport, Usual, Identified
<1>4. Gathered(cs, symbols, imports, n)
  BY <1>3, CompileGathered
<1>5. to \in ToSet(cs)
  BY <1>3, <1>4 DEF Gathered
<1>6. PICK t \in ToSet(idx.imports) :
             t.names[1] = n /\ LastMet(imported, f, t, cs, symbols \union imports)
  BY <1>2, <1>5 DEF Knows
<1>7. t = s
  BY <1>2, <1>6, KeptDistinct DEF Statements
<1>8. PICK Q : Q = {id \in symbols \union imports : Met(f, s, id)}
  OBVIOUS
<1>9. PICK m : Final(cs, m, Q) /\ imported = cs[m]
  BY <1>6, <1>7, <1>8 DEF LastMet
<1>10. /\ NamedIn(symbols, h, n) \in Seq(symbols)
       /\ \A id : id \in ToSet(NamedIn(symbols, h, n))
                    <=> id \in symbols /\ FileOf(id) = h /\ NameOf(id) = n
  <2>1. IsFiniteSet({id \in symbols : FileOf(id) = h})
    BY <1>3 DEF Identified
  <2>2. /\ NamedIn(symbols, h, n) \in Seq(symbols)
        /\ ToSet(NamedIn(symbols, h, n)) = {id \in symbols : FileOf(id) = h /\ NameOf(id) = n}
    BY <2>1, NamedInIs
  <2> QED
    BY <2>2
<1>11. \A id : id \in ToSet(NamedIn(imports, h, n))
                 => id \in imports /\ FileOf(id) = h /\ NameOf(id) = n
  <2>1. IsFiniteSet({id \in imports : FileOf(id) = h})
    BY <1>3 DEF Identified
  <2>2. ToSet(NamedIn(imports, h, n)) = {id \in imports : FileOf(id) = h /\ NameOf(id) = n}
    BY <2>1, NamedInIs
  <2> QED
    BY <2>2
<1>12. Len(NamedIn(symbols, h, n)) > 0
  <2>1. to \in ToSet(NamedIn(symbols, h, n))
    BY <1>1, <1>3, <1>10
  <2>2. Len(NamedIn(symbols, h, n)) # 0 /\ Len(NamedIn(symbols, h, n)) \in Nat
    BY <1>10, <2>1, EmptyIff
  <2> QED
    BY <2>2
<1>13. ToSet(NamedIn(symbols, h, n)) \subseteq Q
  <2>1. ASSUME NEW id \in symbols, FileOf(id) = h PROVE id \in Q
    <3>1. id # ImportId(f, s)
      BY <1>3, IdsTell DEF Identified
    <3> QED
      BY <1>1, <1>2, <1>8, <2>1, <3>1 DEF Met
  <2> QED
    BY <1>10, <2>1
<1>14. ToSet(NamedIn(imports, h, n)) \intersect Q = {}
  <2>1. ASSUME NEW id \in imports, FileOf(id) = h, NameOf(id) = n PROVE id \notin Q
    <3>1. id = <<"import", f, n>>
      BY <1>3, <2>1 DEF Identified, NoForeign
    <3>2. ImportId(f, s) = <<"import", f, n>>
      BY <1>2, IdsTell
    <3> QED
      BY <1>8, <3>1, <3>2 DEF Met
  <2> QED
    BY <1>11, <2>1
<1>15. SameAt(cs, m, NamedIn(symbols, h, n), Len(NamedIn(symbols, h, n)))
  BY <1>1, <1>3, <1>9, <1>12, <1>13, <1>14, CompileLast
<1>16. imported \in ToSet(NamedIn(symbols, h, n))
  <2>1. DOMAIN NamedIn(symbols, h, n) = 1 .. Len(NamedIn(symbols, h, n))
        /\ Len(NamedIn(symbols, h, n)) \in Nat
    BY <1>10, LenProperties
  <2>2. Len(NamedIn(symbols, h, n)) \in DOMAIN NamedIn(symbols, h, n)
    BY <1>12, <2>1
  <2> QED
    BY <1>9, <1>15, <2>2 DEF SameAt, ToSet
<1> QED
  BY <1>1, <1>3, <1>10, <1>16 DEF OneIn

\* Where no import of the name meets a symbol of the name, the imports know nothing.
LEMMA ImportedNothing ==
  ASSUME NEW symbols, NEW imports, Usual(symbols, imports), NEW f, NEW idx, NEW n,
         NoForeign(imports, f, n), NoneMet(symbols, f, idx, n),
         NEW cs, Gathered(cs, symbols, imports, n),
         NEW imported, Knows(imported, f, idx.imports, n, cs, symbols \union imports)
  PROVE  imported = None
<1> SUFFICES ASSUME imported # None PROVE FALSE
  OBVIOUS
<1>1. ByImport(imported, symbols, f, idx, n) \/ ByForeign(imported, imports, f, n)
  BY KnownLeads
<1>2. ~ByForeign(imported, imports, f, n)
  BY DEF ByForeign, NoForeign
<1>3. ~ByImport(imported, symbols, f, idx, n)
  BY DEF ByImport, NoneMet
<1> QED
  BY <1>1, <1>2, <1>3

\* With the file of the identifier first, it is the first candidate.
LEMMA FirstNamed ==
  ASSUME NEW symbols, NEW imports, Usual(symbols, imports), NEW order \in Orders,
         NEW f, NEW idx, NEW n, NoForeign(imports, f, n), OneIn(symbols, n),
         NEW cs, cs = Candidates(CompileCandidates(symbols, imports, order), n),
         NEW to, ByName(to, symbols, imports, f, idx, n),
         to # None => FileOf(to) \in Files /\ order[1] = FileOf(to)
  PROVE  to = IF Len(cs) > 0 THEN cs[1] ELSE None
<1>1. Gathered(cs, symbols, imports, n) /\ Identified(symbols, imports)
  BY CompileGathered DEF Usual
<1>2. /\ cs \in Seq(symbols \union imports)
      /\ \A id : id \in ToSet(cs) <=> id \in symbols \union imports /\ NameOf(id) = n
  <2>1. /\ cs \in Seq(symbols \union imports)
        /\ ToSet(cs) = {id \in symbols \union imports : NameOf(id) = n}
    BY <1>1 DEF Gathered
  <2> QED
    BY <2>1
<1>3. \A h \in Files :
        /\ NamedIn(symbols, h, n) \in Seq(symbols)
        /\ \A id : id \in ToSet(NamedIn(symbols, h, n))
                     <=> id \in symbols /\ FileOf(id) = h /\ NameOf(id) = n
  <2>1. ASSUME NEW h \in Files
        PROVE  /\ NamedIn(symbols, h, n) \in Seq(symbols)
               /\ \A id : id \in ToSet(NamedIn(symbols, h, n))
                            <=> id \in symbols /\ FileOf(id) = h /\ NameOf(id) = n
    <3>1. IsFiniteSet({id \in symbols : FileOf(id) = h})
      BY <1>1 DEF Identified
    <3>2. /\ NamedIn(symbols, h, n) \in Seq(symbols)
          /\ ToSet(NamedIn(symbols, h, n)) = {id \in symbols : FileOf(id) = h /\ NameOf(id) = n}
      BY <3>1, NamedInIs
    <3> QED
      BY <3>2
  <2> QED
    BY <2>1
<1>4. CASE /\ to = None /\ <<"import", f, n>> \notin imports
           /\ \A id \in symbols : NameOf(id) # n
  <2>1. \A id \in imports : NameOf(id) # n
    BY <1>1, <1>4 DEF NoForeign, Identified
  <2>2. ToSet(cs) = {}
    BY <1>2, <1>4, <2>1
  <2>3. Len(cs) = 0
    BY <1>2, <2>2, EmptyIff
  <2> QED
    BY <1>4, <2>3
<1>5. CASE to \in symbols /\ NameOf(to) = n
  <2>1. PICK h : h = FileOf(to)
    OBVIOUS
  <2>2. h \in Files /\ order[1] = h
    BY <1>5, <2>1 DEF Usual
  <2>3. to \in ToSet(NamedIn(symbols, h, n)) /\ NamedIn(symbols, h, n) \in Seq(symbols)
    BY <1>3, <1>5, <2>1, <2>2
  <2>4. Len(NamedIn(symbols, h, n)) # 0 /\ Len(NamedIn(symbols, h, n)) \in Nat
    BY <2>3, EmptyIff
  <2>5. Len(cs) > 0 /\ SameAt(cs, 1, NamedIn(symbols, h, n), 1)
    <3>1. Len(NamedIn(symbols, h, n)) > 0
      BY <2>4
    <3>2. /\ Len(NamedIn(symbols, h, n)) > 0 =>
               Len(cs) > 0 /\ SameAt(cs, 1, NamedIn(symbols, h, n), 1)
          /\ Len(NamedIn(symbols, h, n)) = 0 /\ <<"import", h, n>> \in imports =>
               Len(cs) > 0 /\ cs[1] = <<"import", h, n>>
      BY <1>1, <2>2, CompileFirst
    <3> QED
      BY <3>1, <3>2
  <2>6. cs[1] \in ToSet(NamedIn(symbols, h, n))
    BY <2>3, <2>4, <2>5, HeadIn DEF SameAt
  <2>7. cs[1] = to
    BY <1>3, <1>5, <2>1, <2>2, <2>6 DEF OneIn
  <2> QED
    BY <2>5, <2>7
<1>6. CASE /\ to = <<"import", f, n>> /\ to \in imports
           /\ \A id \in symbols : FileOf(id) = f => NameOf(id) # n
  <2>1. FileOf(to) = f /\ f \in Files /\ order[1] = f
    BY <1>6 DEF Usual, FileOf
  <2>2. NamedIn(symbols, f, n) \in Seq(symbols) /\ ToSet(NamedIn(symbols, f, n)) = {}
    BY <1>3, <1>6, <2>1
  <2>3. Len(NamedIn(symbols, f, n)) = 0
    BY <2>2, EmptyIff
  <2>4. Len(cs) > 0 /\ cs[1] = <<"import", f, n>>
    BY <1>1, <1>6, <2>1, <2>3, CompileFirst
  <2> QED
    BY <1>6, <2>4
<1> QED
  BY <1>4, <1>5, <1>6 DEF ByName

\* The target of a call, with its edges named.
LEMMA TargetOf ==
  ASSUME NEW g, NEW f, NEW c,
         NEW found, found = {e \in BagToSet(g.calls) : e.file = f /\ e.call = c}
  PROVE  Target(g, f, c) = IF found = {} THEN None ELSE (CHOOSE e \in found : TRUE).to
BY DEF Target

\* what a call of a file leads to is its callee
LEMMA TargetIs ==
  ASSUME NEW g, NEW f \in DOMAIN g.files, NEW named, CallsOfFile(g, named, f),
         NEW c \in g.files[f].facts.calls
  PROVE  Target(g, f, c) = Callee(ScopeOf(g, named), f, c)
<1>1. PICK scope, calls : scope = ScopeOf(g, named) /\ calls = g.files[f].facts.calls
  OBVIOUS
<1>2. calls = scope.contribs[f].calls
  <2>1. scope.contribs = Contribs(g.files)
    BY <1>1, ScopeFields
  <2>2. Contribs(g.files)[f] = g.files[f].facts
    BY DEF Contribs
  <2> QED
    BY <1>1, <2>1, <2>2
<1>3. /\ \A e \in FileCalls(scope, f) : e.to = Callee(scope, f, e.call)
      /\ Callee(scope, f, c) # None => \E e \in FileCalls(scope, f) : e.file = f /\ e.call = c
  BY <1>1, <1>2, FileCallsAre
<1>4. PICK found : found = {e \in BagToSet(g.calls) : e.file = f /\ e.call = c}
  OBVIOUS
<1>5. \A e : e \in found <=> e \in FileCalls(scope, f) /\ e.call = c
  BY <1>1, <1>4 DEF CallsOfFile
<1>6. Target(g, f, c) = IF found = {} THEN None ELSE (CHOOSE e \in found : TRUE).to
  BY <1>4, TargetOf
<1>7. CASE found = {}
  <2>1. \A e \in FileCalls(scope, f) : e.file = f
    BY FileCallsAre
  <2> QED
    BY <1>1, <1>3, <1>5, <1>6, <1>7
<1>8. CASE found # {}
  <2>1. PICK e : e = CHOOSE d \in found : TRUE
    OBVIOUS
  <2>2. e \in found
    BY <1>8, <2>1
  <2>3. e.to = Callee(scope, f, c)
    BY <1>3, <1>5, <2>2
  <2> QED
    BY <1>1, <1>6, <1>8, <2>1, <2>3
<1> QED
  BY <1>7, <1>8

\* The target of a call is where it may lead.
LEMMA TargetLeads ==
  ASSUME NEW g, NEW f, NEW idx, NEW c, CallLeads(g, f, idx, c)
  PROVE  Leads(Target(g, f, c), g.symbols, g.imports, f, idx, c.callee)
<1>1. PICK found : found = {e \in BagToSet(g.calls) : e.file = f /\ e.call = c}
  OBVIOUS
<1>2. Target(g, f, c) = IF found = {} THEN None ELSE (CHOOSE e \in found : TRUE).to
  BY <1>1, TargetOf
<1>3. found = EdgesOf(g, f, c)
  BY <1>1 DEF EdgesOf
<1>4. CASE found = {}
  BY <1>2, <1>3, <1>4 DEF CallLeads
<1>5. CASE found # {}
  <2>1. PICK e : e = CHOOSE d \in found : TRUE
    OBVIOUS
  <2>2. e \in found /\ Target(g, f, c) = e.to
    BY <1>2, <1>5, <2>1
  <2> QED
    BY <1>3, <2>2 DEF CallLeads
<1> QED
  BY <1>4, <1>5

\* Some order makes a call lead where it may.
OrderFor(order, to, symbols, imports, f, idx, n) ==
  /\ ByImport(to, symbols, f, idx, n) => order[Cardinality(Files)] = FileOf(to)
  /\ ~ByImport(to, symbols, f, idx, n) /\ to # None => order[1] = FileOf(to)

\* There is such an order, of the file of the target at an end.
LEMMA OrderForExists ==
  ASSUME NEW symbols, NEW imports, Usual(symbols, imports), NEW f \in Files, NEW idx, NEW n, NEW to,
         NoForeign(imports, f, n), LocalIds(symbols, f, n) = {},
         Leads(to, symbols, imports, f, idx, n)
  PROVE  /\ \E order \in Orders : OrderFor(order, to, symbols, imports, f, idx, n)
         /\ ByImport(to, symbols, f, idx, n) \/ ByName(to, symbols, imports, f, idx, n)
         /\ to # None => FileOf(to) \in Files
<1>1. ByImport(to, symbols, f, idx, n) \/ ByName(to, symbols, imports, f, idx, n)
  BY DEF Leads, ByForeign, NoForeign
<1>2. to # None => FileOf(to) \in Files
  BY <1>1 DEF ByImport, ByName, Usual, Identified
<1>3. CASE to = None
  <2>1. ~ByImport(to, symbols, f, idx, n)
    BY <1>3 DEF ByImport, Usual
  <2>2. \E order \in Orders : order[1] = f
    BY OrderExists
  <2> QED
    BY <1>1, <1>2, <1>3, <2>1, <2>2 DEF OrderFor
<1>4. CASE to # None /\ ByImport(to, symbols, f, idx, n)
  <2>1. \E order \in Orders : order[Cardinality(Files)] = FileOf(to)
    BY <1>2, <1>4, OrderExists
  <2> QED
    BY <1>1, <1>2, <1>4, <2>1 DEF OrderFor
<1>5. CASE to # None /\ ~ByImport(to, symbols, f, idx, n)
  <2>1. \E order \in Orders : order[1] = FileOf(to)
    BY <1>2, <1>5, OrderExists
  <2> QED
    BY <1>1, <1>2, <1>5, <2>1 DEF OrderFor
<1> QED
  BY <1>3, <1>4, <1>5

\* a call by plain name in a compile in an order that suits a target
Suited(scope, order, f, idx, c, to) ==
  /\ Usual(scope.symbols, scope.imports) /\ Statements(idx.imports) /\ Kept(idx) = idx.imports
  /\ order \in Orders /\ scope.named = CompileCandidates(scope.symbols, scope.imports, order)
  /\ f \in DOMAIN scope.refs /\ scope.refs[f] = References(f, idx.imports, scope.named)
  /\ c.receiver = "" /\ SingleIn(idx, c.callee) /\ NoForeign(scope.imports, f, c.callee)
  /\ LocalIds(scope.symbols, f, c.callee) = {} /\ OneIn(scope.symbols, c.callee)
  /\ \/ ByImport(to, scope.symbols, f, idx, c.callee)
     \/ ByName(to, scope.symbols, scope.imports, f, idx, c.callee)
  /\ to # None => FileOf(to) \in Files
  /\ OrderFor(order, to, scope.symbols, scope.imports, f, idx, c.callee)

\* In that order a full compile leads to the target.
LEMMA CalleeInOrder ==
  ASSUME NEW scope, NEW order, NEW f, NEW idx, NEW c, NEW to, Suited(scope, order, f, idx, c, to)
  PROVE  Callee(scope, f, c) = to
<1>0. PICK symbols, imports : symbols = scope.symbols /\ imports = scope.imports
  OBVIOUS
<1> USE <1>0 DEF Suited
<1>1. PICK n, cs : n = c.callee /\ cs = Candidates(scope.named, n)
  OBVIOUS
<1>2. PICK local, imported : local = OfFile(scope, f, c) /\ imported = Imported(scope.refs, f, n)
  OBVIOUS
<1>3. Collected(scope.named, symbols, imports)
  BY CollectedCompile DEF Usual
<1>4. Gathered(cs, symbols, imports, n) /\ Offers(scope.named, symbols \union imports)
  BY <1>1, <1>3, CollectedOffers DEF Collected
<1>5. Knows(imported, f, idx.imports, n, cs, symbols \union imports)
  BY <1>1, <1>2, <1>4, ImportedIs DEF SingleIn
<1>6. Callee(scope, f, c) = PlainCallee(local, imported, cs)
  <2>1. \A h, m : <<"member", h, "", m>> \notin scope.symbols
    BY DEF Usual
  <2>2. Candidates(scope.named, c.callee) \in Seq(symbols \union imports)
        /\ None \notin symbols \union imports
    BY <1>1, <1>4 DEF Gathered, Usual
  <2> QED
    BY <1>1, <1>2, <2>1, <2>2, CalleeIsPlain
<1>7. local = None
  <2>1. {<<"module", f, c.callee>>, <<"class", f, c.callee>>} \intersect scope.symbols = {}
    BY DEF LocalIds
  <2> QED
    BY <1>2, <2>1 DEF OfFile
<1>8. CASE ByImport(to, symbols, f, idx, n)
  <2>0. /\ order[Cardinality(Files)] = FileOf(to) /\ NoForeign(imports, f, n) /\ OneIn(symbols, n)
        /\ cs = Candidates(CompileCandidates(symbols, imports, order), n)
    <3>1. ByImport(to, symbols, f, idx, c.callee)
      BY <1>1, <1>8
    <3>2. order[Cardinality(Files)] = FileOf(to)
      BY <3>1 DEF OrderFor
    <3>3. cs = Candidates(CompileCandidates(symbols, imports, order), n)
      BY <1>1
    <3>4. NoForeign(imports, f, n) /\ OneIn(symbols, n)
      BY <1>1
    <3> QED
      BY <3>2, <3>3, <3>4
  <2>1. imported = to
    <3>1. KnownLast(imported, to, symbols, imports, order, f, idx, n, cs)
      BY <1>5, <1>8, <2>0 DEF KnownLast
    <3> QED
      BY <3>1, ImportedMet
  <2>2. to # None
    BY <1>8 DEF ByImport, Usual
  <2> QED
    BY <1>6, <1>7, <2>1, <2>2 DEF PlainCallee
<1>9. CASE ~ByImport(to, symbols, f, idx, n)
  <2>1. ByName(to, symbols, imports, f, idx, n)
    BY <1>1, <1>9
  <2>2. imported = None
    BY <1>1, <1>4, <1>5, <2>1, ImportedNothing DEF ByName
  <2>3. to = IF Len(cs) > 0 THEN cs[1] ELSE None
    BY <1>1, <1>9, <2>1, FirstNamed DEF OrderFor
  <2> QED
    BY <1>6, <1>7, <2>2, <2>3 DEF PlainCallee
<1> QED
  BY <1>8, <1>9

-----------------------------------------------------------------------------
\* a full compile of what the adapter was told
FullIs(g) ==
  /\ Standing(g) /\ g.symbols = graph.symbols /\ g.imports = graph.imports
  /\ DOMAIN g.files = Parsed /\ \A f \in Parsed : g.files[f] = graph.files[f]

\* A full compile has the tables of the graph and the facts of the files that parse.
LEMMA FullGraph ==
  ASSUME TablesInv, NEW order \in Orders
  PROVE  FullIs(Full(order)) /\ CompiledEdges(Full(order), order)
<1>1. PICK g : g = Full(order)
  OBVIOUS
<1>2. PICK full : full = Full(SomeOrder)
  OBVIOUS
<1>3. g.files = full.files /\ g.symbols = full.symbols /\ g.imports = full.imports
  BY <1>1, <1>2 DEF Full, CompileGraph
<1>4. /\ Restrict(graph.files, Parsed) = full.files
      /\ graph.symbols = full.symbols /\ graph.imports = full.imports
  BY <1>2, ExactFromInv DEF GraphTablesExact
<1>5. Parsed \subseteq DOMAIN graph.files
  BY DEF TablesInv, ContributionsCurrent
<1>6. DOMAIN g.files = Parsed /\ \A f \in Parsed : g.files[f] = graph.files[f]
  BY <1>3, <1>4, <1>5 DEF Restrict
<1>7. Tabled(g) /\ CompiledEdges(g, order)
  BY <1>1, CompileTables, CompileEdges DEF Full
<1>8. Standing(g)
  BY <1>5, <1>6, <1>7, StandingGraph DEF Standing
<1> QED
  BY <1>1, <1>3, <1>4, <1>6, <1>7, <1>8 DEF FullIs

\* The references that RefsCurrent compares.
LEMMA CalledRefsAre ==
  ASSUME NEW g, NEW f
  PROVE  \A e : e \in CalledRefs(g, f) <=> ToCalled(g.refs[f], FactsIn(f), e)
BY DEF CalledRefs, ToCalled

\* Both the graph and a full compile are resolved, on the same tables.
LEMMA RefsFromInv == ResolvedInv => RefsCurrent
<1> SUFFICES ASSUME ResolvedInv, NEW f \in Parsed, Kept(FactsIn(f)) = FactsIn(f).imports
             PROVE  CalledRefs(graph, f) = CalledRefs(Full(SomeOrder), f)
  BY DEF RefsCurrent
<1>1. PICK full, idx : full = Full(SomeOrder) /\ idx = FactsIn(f)
  OBVIOUS
<1>2. SomeOrder \in Orders
  <2>1. f \in Files
    BY DEF Parsed, Parsing
  <2>2. \E order \in Orders : order[1] = f
    BY <2>1, OrderExists
  <2> QED
    BY <2>2 DEF SomeOrder
<1>3. FullIs(full) /\ ResolvedAll(full)
  BY <1>1, <1>2, FullGraph, CompileResolved DEF ResolvedInv, FullIs
<1>4. f \in DOMAIN graph.files /\ graph.files[f].facts = idx
  BY <1>1 DEF ResolvedInv, TablesInv, ContributionsCurrent, FactsIn
<1>5. f \in DOMAIN full.files /\ full.files[f].facts = idx
  BY <1>1, <1>3, <1>4 DEF FullIs
<1>6. Resolved(graph, f, idx) /\ Resolved(full, f, idx)
  BY <1>3, <1>4, <1>5 DEF ResolvedInv, ResolvedAll
<1>7. RefsOK(graph.symbols, graph.refs[f], f, idx) /\ RefsOK(full.symbols, full.refs[f], f, idx)
  BY <1>1, <1>6 DEF Resolved
<1>8. full.symbols = graph.symbols
  BY <1>3 DEF FullIs
<1>9. \A e : ToCalled(graph.refs[f], idx, e) <=> ToCalled(full.refs[f], idx, e)
  BY <1>7, <1>8 DEF RefsOK
<1>10. \A e : e \in CalledRefs(graph, f) <=> e \in CalledRefs(full, f)
  BY <1>1, <1>9, CalledRefsAre
<1>11. CalledRefs(graph, f) \subseteq ToSet(graph.refs[f]) /\ CalledRefs(full, f) \subseteq ToSet(full.refs[f])
  BY DEF CalledRefs
<1> QED
  BY <1>1, <1>10

\* The target of a call in the graph is where it may lead, and some order of a full
\* compile leads there.
LEMMA CallsFromInv == ResolvedInv => CallsCurrent
<1> SUFFICES ASSUME ResolvedInv, NEW f \in Parsed, NEW c \in FactsIn(f).calls,
                    Kept(FactsIn(f)) = FactsIn(f).imports, c.receiver = "",
                    c.callee \notin FirstNames(Parsed \ {f}), Single(f, c.callee),
                    OnePerFile(c.callee)
             PROVE  \E order \in Orders : Target(graph, f, c) = Target(Full(order), f, c)
  BY DEF CallsCurrent, Plain, AsCompiled
<1>1. PICK idx, n, symbols, imports, to :
        /\ idx = FactsIn(f) /\ n = c.callee
        /\ symbols = graph.symbols /\ imports = graph.imports /\ to = Target(graph, f, c)
  OBVIOUS
<1>2. f \in Files
  BY DEF Parsed, Parsing
<1>3. f \in DOMAIN graph.files /\ graph.files[f].facts = idx
  BY <1>1 DEF ResolvedInv, TablesInv, ContributionsCurrent, FactsIn
<1>4. Standing(graph) /\ Usual(symbols, imports) /\ Statements(idx.imports)
  BY <1>1, <1>3, StandingGraph, StandingUsual DEF ResolvedInv, Standing, Formed
<1>5. SingleIn(idx, n) /\ OneIn(symbols, n)
  BY <1>1 DEF Single, SingleIn, OnePerFile, OneIn
<1>6. CallLeads(graph, f, idx, c)
  BY <1>1, <1>3, <1>5 DEF ResolvedInv, ResolvedAll, Resolved
<1>7. Leads(to, symbols, imports, f, idx, n)
  BY <1>1, <1>6, TargetLeads
<1>8. NoForeign(imports, f, n)
  <2> SUFFICES ASSUME NEW id \in imports, NameOf(id) = n, FileOf(id) # f PROVE FALSE
    BY DEF NoForeign
  <2>1. PICK h : h = FileOf(id)
    OBVIOUS
  <2>2. h \in DOMAIN graph.files /\ id \in ImportsIn(h, graph.files[h].facts)
    BY <1>1, <1>4, <2>1, TableRows DEF Standing
  <2>3. h \in Files /\ told[h] # Absent /\ graph.files[h] = Contribution(told[h])
    BY <2>2 DEF ResolvedInv, TablesInv, ContributionsCurrent
  <2>4. told[h] \notin Unparsable
    BY <2>2, <2>3, UnparsableHasNoFacts, NoRows
  <2>5. h \in Parsed \ {f}
    BY <2>1, <2>3, <2>4 DEF Parsed, Parsing
  <2>6. id = <<"import", h, n>>
    <3>1. id = <<"import", FileOf(id), NameOf(id)>>
      BY <1>4 DEF Usual, Identified
    <3> QED
      BY <2>1, <3>1, Zenon
  <2>7. id[3] = n
    <3>1. <<"import", h, n>>[3] = n
      OBVIOUS
    <3> QED
      BY <2>6, <3>1, Zenon
  <2>8. id \in AllImports(Contribs(graph.files), Parsed \ {f})
    BY <2>2, <2>5 DEF AllImports, Contribs
  <2> QED
    BY <1>1, <2>7, <2>8 DEF FirstNames
<1>9. ASSUME NEW order \in Orders,
             LocalIds(symbols, f, n) # {} \/
               /\ OrderFor(order, to, symbols, imports, f, idx, n)
               /\ LocalIds(symbols, f, n) = {}
               /\ ByImport(to, symbols, f, idx, n) \/ ByName(to, symbols, imports, f, idx, n)
               /\ to # None => FileOf(to) \in Files
      PROVE  Target(Full(order), f, c) = to
  <2>1. PICK full, named, scope : /\ full = Full(order) /\ named = CompiledNames(full, order)
                                  /\ scope = ScopeOf(full, named)
    OBVIOUS
  <2>2. FullIs(full) /\ CompiledEdges(full, order)
    BY <2>1, FullGraph DEF ResolvedInv
  <2>3. f \in DOMAIN full.files /\ full.files[f].facts = idx
    BY <1>3, <2>2 DEF FullIs
  <2>4. /\ full.refs[f] = References(f, idx.imports, named) /\ CallsOfFile(full, named, f)
        /\ f \in DOMAIN full.refs
    BY <2>1, <2>2, <2>3 DEF CompiledEdges
  <2>5. Target(full, f, c) = Callee(scope, f, c)
    <3>1. c \in full.files[f].facts.calls
      BY <1>1, <2>3
    <3> QED
      BY <2>1, <2>3, <2>4, <3>1, TargetIs
  <2>6. /\ scope.symbols = symbols /\ scope.imports = imports /\ scope.refs = full.refs
        /\ scope.named = named
    <3>1. /\ scope.symbols = full.symbols /\ scope.imports = full.imports /\ scope.refs = full.refs
          /\ scope.named = named
      <4>1. scope = ScopeOf(full, named)
        BY <2>1, Zenon
      <4> QED
        BY <4>1, ScopeFields
    <3>2. full.symbols = symbols /\ full.imports = imports
      BY <1>1, <2>2 DEF FullIs
    <3> QED
      BY <3>1, <3>2
  <2>7. named = CompileCandidates(symbols, imports, order)
    BY <1>1, <2>1, <2>2 DEF FullIs, CompiledNames
  <2>8. CASE LocalIds(symbols, f, n) # {}
    <3>1. Collected(named, symbols, imports)
      BY <1>4, <2>7, CollectedCompile DEF Usual
    <3>2. Leads(Callee(scope, f, c), symbols, imports, f, idx, n)
      BY <1>1, <1>4, <1>5, <2>4, <2>6, <3>1, CalleeLeads
    <3> QED
      BY <1>7, <2>1, <2>5, <2>8, <3>2 DEF Leads
  <2>9. CASE LocalIds(symbols, f, n) = {}
    <3>1. Callee(scope, f, c) = to
      <4>1. /\ Usual(scope.symbols, scope.imports) /\ Statements(idx.imports)
            /\ Kept(idx) = idx.imports /\ order \in Orders /\ f \in DOMAIN scope.refs
            /\ scope.named = CompileCandidates(scope.symbols, scope.imports, order)
            /\ scope.refs[f] = References(f, idx.imports, scope.named)
        BY <1>1, <1>4, <2>4, <2>6, <2>7
      <4>2. /\ c.receiver = "" /\ SingleIn(idx, c.callee) /\ NoForeign(scope.imports, f, c.callee)
            /\ LocalIds(scope.symbols, f, c.callee) = {} /\ OneIn(scope.symbols, c.callee)
        BY <1>1, <1>5, <1>8, <2>6, <2>9
      <4>3. /\ OrderFor(order, to, symbols, imports, f, idx, n)
            /\ ByImport(to, symbols, f, idx, n) \/ ByName(to, symbols, imports, f, idx, n)
            /\ to # None => FileOf(to) \in Files
        BY <1>9, <2>9
      <4>4. Suited(scope, order, f, idx, c, to)
        BY <1>1, <2>6, <4>1, <4>2, <4>3 DEF Suited
      <4> QED
        BY <4>4, CalleeInOrder
    <3> QED
      BY <2>1, <2>5, <3>1
  <2> QED
    BY <2>8, <2>9
<1>10. CASE LocalIds(symbols, f, n) # {}
  <2>1. \E order \in Orders : order[1] = f
    BY <1>2, OrderExists
  <2> QED
    BY <1>1, <1>9, <1>10, <2>1
<1>11. CASE LocalIds(symbols, f, n) = {}
  <2>1. PICK order \in Orders : OrderFor(order, to, symbols, imports, f, idx, n)
    BY <1>2, <1>4, <1>7, <1>8, <1>11, OrderForExists
  <2>2. /\ ByImport(to, symbols, f, idx, n) \/ ByName(to, symbols, imports, f, idx, n)
        /\ to # None => FileOf(to) \in Files
    BY <1>2, <1>4, <1>7, <1>8, <1>11, OrderForExists
  <2> QED
    BY <1>1, <1>9, <1>11, <2>1, <2>2
<1> QED
  BY <1>10, <1>11

\* The invariant holds, whatever is patched.
LEMMA ResolvedHolds == Spec => []ResolvedInv
BY InitResolved, NextResolved, PTL DEF Spec

\* Whatever was patched, the imports of a file refer to the symbols of called names that
\* a full compile finds: for every set of files, whatever they hold, in every order in
\* which the candidates of a name are met.
THEOREM RefsCurrentHolds == Spec => []RefsCurrent
BY ResolvedHolds, RefsFromInv, PTL

\* Whatever was patched, a call by plain name leads where a full compile leads it in some
\* order of the files, unless another file imports the name, a statement of the file names
\* several things, two begin with one name or a file has two symbols of the name: a file
\* that was not resolved again would resolve to the same, in whatever order the tables of
\* the graph list the candidates.
THEOREM CallsCurrentHolds == Spec => []CallsCurrent
BY ResolvedHolds, CallsFromInv, PTL
=============================================================================
