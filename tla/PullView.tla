------------------------------ MODULE PullView ------------------------------
(***************************************************************************)
(* How the lazy pipeline builds the view of a pull request                 *)
(* (Pipeline._lazy_compile_facts_and_view and RepositoryView.get_symbol).  *)
(* The background tasks of one API process share a pipeline and, with it,  *)
(* one SQLiteRepositoryStore whose version context any of them may move.   *)
(* A task indexes the changed files of the head commit, reads what the     *)
(* base has of them, and puts the rows of the head over those of the base; *)
(* from then on base files are indexed when a query asks for them.         *)
(*                                                                         *)
(* A task gives up the event loop only while it waits for get_files; what  *)
(* lies between two waits happens in one piece, here in several steps that *)
(* no other task's step comes between.  Tables, caches and failures of the *)
(* indexer are the subject of FactIndex: here a file is indexed in one     *)
(* step, and no two paths have the same content.                           *)
(***************************************************************************)
EXTENDS Integers, FiniteSetsExt, Functions

CONSTANTS
  Tasks,        \* analysis requests
  Versions,     \* commits
  Paths,        \* file paths, numbered in their sorted order
  Names,        \* short names of symbols
  Blobs,        \* contents of files
  Base,         \* [Tasks -> Versions], the base commit of the pull request
  Head,         \* [Tasks -> Versions], its head commit
  Diff,         \* [Tasks -> SUBSET Paths], the paths its diff names
  Tree,         \* [Versions -> [Paths -> Blobs \cup {None}]]
  Defs,         \* [Blobs -> SUBSET Names], symbols the content defines
  Uses,         \* [Blobs -> SUBSET (Names \X Names)], caller and callee names
  Undecodable,  \* contents that are not UTF-8
  Unresolved,   \* the pseudo path of "unresolved://name" symbols
  None,         \* no value
  FetchErrors,  \* may get_files raise?
  BatchSize,    \* files in a call of get_files (100 in the code)
  MaxRuns       \* bound: how many runs begin

Ids == Nat \ {0}
Fqns == (Paths \cup {Unresolved}) \X Names

ASSUME ConstantsAssumption ==
  /\ Paths \subseteq Nat /\ IsFiniteSet(Paths)
  /\ IsFiniteSet(Names)
  /\ Base \in [Tasks -> Versions]
  /\ Head \in [Tasks -> Versions]
  /\ Diff \in [Tasks -> SUBSET Paths]
  /\ Tree \in [Versions -> [Paths -> Blobs \cup {None}]]
  /\ \A v, w \in Versions, p, q \in Paths :
       Tree[v][p] = Tree[w][q] /\ p # q => Tree[v][p] = None
  /\ Defs \in [Blobs -> SUBSET Names]
  /\ Uses \in [Blobs -> SUBSET (Names \X Names)]
  /\ None \notin Blobs \cup Versions
  /\ Unresolved \notin Paths
  /\ FetchErrors \in BOOLEAN
  /\ BatchSize \in Nat \ {0}
  /\ MaxRuns \in Nat

VARIABLES
  \* the store
  ctx,      \* its version context
  files,    \* rows of table files, by version
  symbols,  \* rows of table symbols, by version
  calls,    \* rows of table calls, by version
  mat,      \* paths with a materialization record "indexed", by version
  \* the tasks
  pc,       \* where a task is in its run
  todo,     \* changed files still to be fetched
  batch,    \* fetched files still to be indexed
  headIx,   \* id maps of the indexer for the head version
  baseIx,   \* id maps of the indexer for the base version
  overlay,  \* the RepositoryOverlay of the run
  runs      \* how many runs have begun

tables == <<files, symbols, calls, mat>>
vars == <<ctx, tables, pc, todo, batch, headIx, baseIx, overlay, runs>>

FileRows == [id : Ids, path : Paths]
SymbolRows == [id : Ids, name : Names, file : Ids]
CallRows == [file : Ids, caller : Ids, callee : Ids]
IdMaps == [file : [Paths -> Ids \cup {0}], sym : [Fqns -> Ids \cup {0}]]
Overlays ==
  [added : SUBSET SymbolRows, calls : SUBSET CallRows,
   gone : SUBSET Ids, removed : SUBSET Ids]

(* Rows, id maps and overlays hold what the tables and dictionaries of the *)
(* code hold, and a task keeps files of its own diff only.                 *)
TypeOK ==
  /\ ctx \in Versions \cup {None}
  /\ files \in [Versions -> SUBSET FileRows]
  /\ symbols \in [Versions -> SUBSET SymbolRows]
  /\ calls \in [Versions -> SUBSET CallRows]
  /\ mat \in [Versions -> SUBSET Paths]
  /\ pc \in [Tasks -> {"idle", "fetch", "index", "overlay", "view"}]
  /\ todo \in [Tasks -> SUBSET Paths]
  /\ batch \in [Tasks -> SUBSET Paths]
  /\ \A t \in Tasks : todo[t] \cup batch[t] \subseteq Diff[t]
  /\ headIx \in [Tasks -> IdMaps]
  /\ baseIx \in [Tasks -> IdMaps]
  /\ overlay \in [Tasks -> Overlays]
  /\ runs \in 0 .. MaxRuns

NoIds == [file |-> [p \in Paths |-> 0], sym |-> [x \in Fqns |-> 0]]
NoOverlay == [added |-> {}, calls |-> {}, gone |-> {}, removed |-> {}]

Init ==
  /\ ctx = None
  /\ files = [v \in Versions |-> {}]
  /\ symbols = [v \in Versions |-> {}]
  /\ calls = [v \in Versions |-> {}]
  /\ mat = [v \in Versions |-> {}]
  /\ pc = [t \in Tasks |-> "idle"]
  /\ todo = [t \in Tasks |-> {}]
  /\ batch = [t \in Tasks |-> {}]
  /\ headIx = [t \in Tasks |-> NoIds]
  /\ baseIx = [t \in Tasks |-> NoIds]
  /\ overlay = [t \in Tasks |-> NoOverlay]
  /\ runs = 0

-----------------------------------------------------------------------------
(* Indexing one file.                                                      *)

\* INSERT OR REPLACE of the rows N, keyed by id
Replace(S, N) == {r \in S : \A n \in N : n.id # r.id} \cup N

RowsOf(v, p) == {r \in files[v] : r.path = p}
RowIds(v, P) == {r.id : r \in {s \in files[v] : s.path \in P}}
SymbolsOf(v, x) ==
  {s \in symbols[v] : s.name = x[2] /\ s.file \in RowIds(v, {x[1]})}

\* Mutant of Synced: the indexer trusts the maps it has
NotSynced(m, v) == m

\* _sync_mappings_from_sink: rows of the version override the maps
Synced(m, v) ==
  [file |-> [p \in Paths |->
     IF RowsOf(v, p) = {} THEN m.file[p] ELSE (CHOOSE r \in RowsOf(v, p) : TRUE).id],
   sym |-> [x \in Fqns |->
     IF SymbolsOf(v, x) = {} THEN m.sym[x] ELSE (CHOOSE s \in SymbolsOf(v, x) : TRUE).id]]

\* Mutant of NextAfter: the id in use once more, 0 to begin with
LastAgain(S) == {n \in S \cup {0} : \A k \in S : k <= n}

\* the counter, here in a set: no id is lost from a map, so it follows the
\* largest of those in use, S
NextAfter(S) == {n \in {k + 1 : k \in S \cup {0}} : \A k \in S : k < n}

\* S numbered from n on, in some order
Numbered(S, n) == Injection(S, n .. (n + Cardinality(S) - 1))

\* names a file's content mentions: what it defines comes first
Defined(p, b) == {p} \X Defs[b]
Mentions(p, b) ==
  Defined(p, b) \cup ({p} \X {u[1] : u \in Uses[b]})
                \cup ({Unresolved} \X {u[2] : u \in Uses[b]})

\* get_or_create_file_id(p): the file map m, with an id for p
WithFile(m, p) ==
  IF m[p] # 0 THEN {m} ELSE {[m EXCEPT ![p] = n] : n \in NextAfter(Range(m))}

\* get_or_create_symbol_id of the names in X, those in first before the rest
WithSymbols(m, X, first) ==
  LET new == {x \in X : m[x] = 0}
      numberings == {f \in UNION {Numbered(new, n) : n \in NextAfter(Range(m))} :
                       \A x \in new \cap first, y \in new \ first : f[x] < f[y]}
  IN {[x \in Fqns |-> IF x \in new THEN f[x] ELSE m[x]] : f \in numberings}

\* index_files({p: b}) into version v: the maps m may leave behind ...
IndexMaps(m, v, p, b) ==
  LET s == Synced(m, v) IN
  [file : WithFile(s.file, p), sym : WithSymbols(s.sym, Mentions(p, b), Defined(p, b))]

\* ... and the rows it writes with the ids of the maps n
WriteRows(n, v, p, b) ==
  /\ files' = [files EXCEPT ![v] = Replace(@, {[id |-> n.file[p], path |-> p]})]
  /\ symbols' = [symbols EXCEPT ![v] = Replace(@,
       {[id |-> n.sym[<<p, d>>], name |-> d, file |-> n.file[p]] : d \in Defs[b]})]
  /\ calls' = [calls EXCEPT ![v] = @ \cup
       {[file |-> n.file[p], caller |-> n.sym[<<p, u[1]>>],
         callee |-> n.sym[<<Unresolved, u[2]>>]] : u \in Uses[b]}]
  /\ mat' = [mat EXCEPT ![v] = @ \cup {p}]

-----------------------------------------------------------------------------
(* The steps of a run.                                                     *)

\* every other task is between runs or waits for get_files
HasLoop(t) == \A u \in Tasks \ {t} : pc[u] \in {"idle", "fetch"}

InTree(v, p) == Tree[v][p] # None
Live(t) == {p \in Diff[t] : InTree(Head[t], p)}
Readable(v, P) == {p \in P : InTree(v, p) /\ Tree[v][p] \notin Undecodable}

\* the store is set to the base, every path of the diff that the base tree
\* has gets a file row, and the materializer sets the store to the head
Begin(t) ==
  /\ pc[t] = "idle"
  /\ HasLoop(t)
  /\ runs < MaxRuns
  /\ runs' = runs + 1
  /\ LET v == Base[t]
         rowless == {p \in Diff[t] : InTree(v, p) /\ RowsOf(v, p) = {}}
     IN \E n \in NextAfter({r.id : r \in files[v]}) : \E f \in Numbered(rowless, n) :
          files' = [files EXCEPT ![v] = @ \cup {[id |-> f[p], path |-> p] : p \in rowless}]
  /\ ctx' = IF Live(t) = {} THEN Base[t] ELSE Head[t]
  /\ todo' = [todo EXCEPT ![t] = Live(t)]
  /\ pc' = [pc EXCEPT ![t] = IF Live(t) = {} THEN "overlay" ELSE "fetch"]
  /\ UNCHANGED <<symbols, calls, mat, batch, headIx, baseIx, overlay>>

\* get_files returns the next batch; binary files are left out
Fetch(t) ==
  /\ pc[t] = "fetch"
  /\ HasLoop(t)
  /\ \E S \in SUBSET todo[t] :
       /\ Cardinality(S) = Min({BatchSize, Cardinality(todo[t])})
       /\ \A p \in S, q \in todo[t] \ S : p < q
       /\ batch' = [batch EXCEPT ![t] = Readable(Head[t], S)]
       /\ todo' = [todo EXCEPT ![t] = @ \ S]
  /\ pc' = [pc EXCEPT ![t] = "index"]
  /\ UNCHANGED <<ctx, tables, headIx, baseIx, overlay, runs>>

\* get_files raises and the lazy path is left as it is; the eager path that
\* takes over starts in the base context (the rest of it is not modelled)
FetchFails(t) ==
  /\ FetchErrors
  /\ pc[t] = "fetch"
  /\ HasLoop(t)
  /\ ctx' = Base[t]
  /\ pc' = [pc EXCEPT ![t] = "idle"]
  /\ todo' = [todo EXCEPT ![t] = {}]
  /\ headIx' = [headIx EXCEPT ![t] = NoIds]
  /\ UNCHANGED <<tables, batch, baseIx, overlay, runs>>

\* Mutant of SinkVersion: the sink writes to the version context
SinkOfContext(t) == ctx

\* the version the materializer bound the sink of the head indexer to
SinkVersion(t) == Head[t]

IndexHead(t) ==
  /\ pc[t] = "index"
  /\ \E p \in batch[t] :
       /\ \A q \in batch[t] : p <= q
       /\ \E n \in IndexMaps(headIx[t], SinkVersion(t), p, Tree[Head[t]][p]) :
            /\ WriteRows(n, SinkVersion(t), p, Tree[Head[t]][p])
            /\ headIx' = [headIx EXCEPT ![t] = n]
       /\ batch' = [batch EXCEPT ![t] = @ \ {p}]
  /\ UNCHANGED <<ctx, pc, todo, baseIx, overlay, runs>>

NextBatch(t) ==
  /\ pc[t] = "index"
  /\ batch[t] = {}
  /\ pc' = [pc EXCEPT ![t] = IF todo[t] = {} THEN "overlay" ELSE "fetch"]
  /\ UNCHANGED <<ctx, tables, todo, batch, headIx, baseIx, overlay, runs>>

\* Mutants of OverlayVersion and ViewContext: the store keeps the context
OverlayOfContext(t) == ctx
ContextLeft(t) == ctx

\* the version whose rows the overlay takes, by name
OverlayVersion(t) == Head[t]

\* the context the store is left in
ViewContext(t) == Base[t]

\* the overlay: what the diff takes away is looked up in the context the
\* store happens to be in, what it adds are all rows of the head version
BuildOverlay(t) ==
  /\ pc[t] = "overlay"
  /\ LET changedInBase == {p \in Diff[t] : InTree(Base[t], p)}
         gone == RowIds(ctx, changedInBase)
         v == OverlayVersion(t)
     IN overlay' = [overlay EXCEPT ![t] =
          [added |-> symbols[v], calls |-> calls[v], gone |-> gone,
           removed |-> {s.id : s \in {r \in symbols[ctx] : r.file \in gone}}]]
  /\ ctx' = ViewContext(t)
  /\ pc' = [pc EXCEPT ![t] = "view"]
  /\ UNCHANGED <<tables, todo, batch, headIx, baseIx, runs>>

\* a query of the view makes the resolver index a file of the base
IndexBase(t, p) ==
  /\ pc[t] = "view"
  /\ p \in Readable(Base[t], Paths) \ mat[Base[t]]
  /\ ctx' = Base[t]
  /\ \E n \in IndexMaps(baseIx[t], Base[t], p, Tree[Base[t]][p]) :
       /\ WriteRows(n, Base[t], p, Tree[Base[t]][p])
       /\ baseIx' = [baseIx EXCEPT ![t] = n]
  /\ UNCHANGED <<pc, todo, batch, headIx, overlay, runs>>

\* the run is over, its view and indexers are garbage
End(t) ==
  /\ pc[t] = "view"
  /\ pc' = [pc EXCEPT ![t] = "idle"]
  /\ headIx' = [headIx EXCEPT ![t] = NoIds]
  /\ baseIx' = [baseIx EXCEPT ![t] = NoIds]
  /\ overlay' = [overlay EXCEPT ![t] = NoOverlay]
  /\ UNCHANGED <<ctx, tables, todo, batch, runs>>

Next ==
  \E t \in Tasks :
    \/ Begin(t)
    \/ Fetch(t)
    \/ FetchFails(t)
    \/ IndexHead(t)
    \/ NextBatch(t)
    \/ BuildOverlay(t)
    \/ \E p \in Paths : IndexBase(t, p)
    \/ End(t)

Spec == Init /\ [][Next]_vars

-----------------------------------------------------------------------------
(* What a view answers.                                                    *)

WithSymbolId(S, k) == {s \in S : s.id = k}
NamesOf(m, k) == {x \in Fqns : m.sym[x] = k}

\* the name behind an id that stands for a name to be resolved: the map of
\* the head indexer is asked first, that of the base indexer if it is silent
PlaceholderNames(t, k) ==
  LET m == IF NamesOf(headIx[t], k) # {} THEN headIx[t] ELSE baseIx[t]
      known == NamesOf(m, k)
  IN IF \A x \in known : x[1] = Unresolved THEN {x[2] : x \in known} ELSE {}

\* the ids _resolve_unresolved_symbol_id may return
Resolved(t, k) ==
  LET found == {s.id : s \in {r \in symbols[ctx] : r.name \in PlaceholderNames(t, k)}}
  IN IF found = {} THEN {k} ELSE found

\* the rows get_symbol may return: at most one, unless names are ambiguous
Seen(t, k) ==
  LET o == overlay[t]
      ofBase == {s \in symbols[ctx] : s.id \in Resolved(t, k)}
  IN IF WithSymbolId(o.added, k) # {} THEN WithSymbolId(o.added, k)
     ELSE IF k \in o.removed THEN {}
     ELSE {s \in ofBase : s.file \notin o.gone}

-----------------------------------------------------------------------------
(* Properties.                                                             *)

(* Whoever has a view asks the commit it was built for: while its queries  *)
(* run the store is in the context of the base commit, whatever runs of    *)
(* other tasks began or were abandoned in the middle.                      *)
ContextOfView == \A t \in Tasks : pc[t] = "view" => ctx = Base[t]

(* The symbols filed under a version are symbols of files of that version, *)
(* although tasks move the context of the store while others wait in the   *)
(* middle of their indexing: rows go where the sink was bound to.          *)
RowsOfVersion ==
  \A v \in Versions : \A s \in symbols[v] : \E f \in files[v] :
    f.id = s.file /\ InTree(v, f.path) /\ s.name \in Defs[Tree[v][f.path]]

(* A view loses no symbol of its pull request: the overlay has what every  *)
(* readable changed file defines at the head, however the run was          *)
(* interleaved with runs for other commits and for the same one.           *)
OverlayHasHead ==
  \A t \in Tasks : pc[t] = "view" =>
    \A p \in Readable(Head[t], Diff[t]) : \A d \in Defs[Tree[Head[t]][p]] :
      \E s \in SymbolsOf(Head[t], <<p, d>>) : s \in overlay[t].added

(* Ids are for good: no run replaces the file row or the symbol row of     *)
(* another, also when several runs index the same commit at the same time, *)
(* each with maps of its own, and base rows are reserved in between.       *)
RowsStay ==
  [][\A v \in Versions : files[v] \subseteq files'[v] /\ symbols[v] \subseteq symbols'[v]]_tables

(* An unchanged file is intact in the view: each of its symbols in the     *)
(* base is what get_symbol returns for its id.                             *)
UnchangedIntact ==
  \A t \in Tasks : pc[t] = "view" =>
    \A s \in symbols[Base[t]] :
      s.file \notin RowIds(Base[t], Diff[t]) => Seen(t, s.id) = {s}
=============================================================================
