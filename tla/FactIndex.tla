----------------------------- MODULE FactIndex -----------------------------
(***************************************************************************)
(* The fact store of engine/repository: the tables of                      *)
(* SQLiteRepositoryStore that the indexer reads and writes, and the        *)
(* indexers (RepositoryIndexer over PersistentFactSink) that fill them.    *)
(* Every process (the API, a dramatiq worker) opens the same database      *)
(* file, every pipeline run creates its own indexer, and an indexer gives  *)
(* numbers to paths and to symbol names from maps it keeps in memory.      *)
(*                                                                         *)
(* One step is what one commit makes durable, or what one call reads       *)
(* before its next write: index_files has no await in it, so indexers of   *)
(* one process take turns by the call, while those of two processes        *)
(* interleave between any two commits.  A process may die at any moment.   *)
(***************************************************************************)
EXTENDS Integers, FiniteSets, Functions

CONSTANTS
  Hosts,           \* processes that open the database file
  Indexers,        \* indexers, one per pipeline run and version
  Host,            \* [Indexers -> Hosts], the process an indexer lives in
  Versions,        \* versions (repository@commit)
  Paths,           \* file paths
  Idents,          \* short names of symbols
  Blobs,           \* file contents, named by their sha1
  Content,         \* [Versions -> [Paths -> Blobs \cup {None}]], the trees
  Facts,           \* [Blobs -> [defs, uses]], what parsing a blob yields
  Unresolved,      \* the pseudo path of "unresolved://name" symbols
  None,            \* no value
  ParseErrors,     \* may parsing raise (RecursionError, MemoryError...)?
  StorageErrors,   \* may a write raise (database is locked, disk full)?
  Reservations,    \* does the pipeline reserve base file ids?
  ConcurrentRuns,  \* may two runs work on one version at the same time?
  MaxRuns,         \* bound: how many indexers are ever created
  MaxStarts,       \* bound: how often processes start
  MaxId            \* bound: ids above it are not explored

Ids == 1 .. MaxId
Nexts == 1 .. (MaxId + 1)
Fqns == (Paths \cup {Unresolved}) \X Idents

ASSUME ConstantsAssumption ==
  /\ Host \in [Indexers -> Hosts]
  /\ Content \in [Versions -> [Paths -> Blobs \cup {None}]]
  /\ Facts \in [Blobs -> [defs : SUBSET Idents, uses : SUBSET (Idents \X Idents)]]
  /\ None \notin Paths \cup Blobs \cup Versions
  /\ Unresolved \notin Paths
  /\ ParseErrors \in BOOLEAN
  /\ StorageErrors \in BOOLEAN
  /\ Reservations \in BOOLEAN
  /\ ConcurrentRuns \in BOOLEAN
  /\ MaxId \in Nat
  /\ MaxRuns \in Nat
  /\ MaxStarts \in Nat

VARIABLES
  \* the database
  files,    \* rows of table files, by version
  symbols,  \* rows of table symbols, by version
  calls,    \* rows of table calls, by version, and the callee's name
  cache,    \* blob_fact_cache: the path whose facts are kept for a blob
  mat,      \* repository_materialization, by version and path
  \* the processes
  up,       \* has the process opened the store?
  starts,   \* how often processes have started
  runs,     \* how many indexers have been created
  \* the indexers
  ver,      \* version of the indexer's sink, None when there is no indexer
  pc,       \* where the indexer is in index_files
  cur,      \* the file it is working on
  origin,   \* the path whose facts it stores for that file
  fmap,     \* _file_id_map, 0 for a path that has no id
  fnext,    \* _next_file_id
  smap,     \* _symbol_id_map, 0 for a name that has no id
  snext     \* _next_symbol_id

db == <<files, symbols, calls, cache, mat>>
fileIds == <<fmap, fnext>>
symbolIds == <<smap, snext>>
maps == <<fileIds, symbolIds>>
process == <<up, starts, runs>>
vars == <<db, process, ver, pc, cur, origin, maps>>

FileRows == [id : Ids, path : Paths]
SymbolRows == [id : Ids, name : Idents, file : Ids]
CallRows == [file : Ids, caller : Ids, callee : Ids, calleeName : Idents]
Record == [status : {"indexed", "failed"}, blob : Blobs \cup {None}]
NoRecord == [status |-> "none", blob |-> None]
Stages == {"off", "idle", "batch", "hit", "miss", "record", "raised"}

(* Every variable holds a value of the kind the code keeps there: rows,    *)
(* records and maps of the right shape, ids inside the explored range.     *)
TypeOK ==
  /\ files \in [Versions -> SUBSET FileRows]
  /\ symbols \in [Versions -> SUBSET SymbolRows]
  /\ calls \in [Versions -> SUBSET CallRows]
  /\ cache \in [Blobs -> Paths \cup {None}]
  /\ mat \in [Versions -> [Paths -> Record \cup {NoRecord}]]
  /\ up \in [Hosts -> BOOLEAN]
  /\ starts \in 0 .. MaxStarts
  /\ runs \in 0 .. MaxRuns
  /\ ver \in [Indexers -> Versions \cup {None}]
  /\ pc \in [Indexers -> Stages]
  /\ cur \in [Indexers -> Paths \cup {None}]
  /\ origin \in [Indexers -> Paths \cup {None}]
  /\ fmap \in [Indexers -> [Paths -> Ids \cup {0}]]
  /\ fnext \in [Indexers -> Nexts]
  /\ smap \in [Indexers -> [Fqns -> Ids \cup {0}]]
  /\ snext \in [Indexers -> Nexts]

NoFileIds == [p \in Paths |-> 0]
NoSymbolIds == [x \in Fqns |-> 0]

Init ==
  /\ files = [v \in Versions |-> {}]
  /\ symbols = [v \in Versions |-> {}]
  /\ calls = [v \in Versions |-> {}]
  /\ cache = [b \in Blobs |-> None]
  /\ mat = [v \in Versions |-> [p \in Paths |-> NoRecord]]
  /\ up = [h \in Hosts |-> FALSE]
  /\ starts = 0
  /\ runs = 0
  /\ ver = [i \in Indexers |-> None]
  /\ pc = [i \in Indexers |-> "off"]
  /\ cur = [i \in Indexers |-> None]
  /\ origin = [i \in Indexers |-> None]
  /\ fmap = [i \in Indexers |-> NoFileIds]
  /\ fnext = [i \in Indexers |-> 1]
  /\ smap = [i \in Indexers |-> NoSymbolIds]
  /\ snext = [i \in Indexers |-> 1]

-----------------------------------------------------------------------------
(* Tables and id maps.                                                     *)

\* INSERT OR REPLACE of the rows N, keyed by id
Replace(S, N) == {r \in S : \A n \in N : n.id # r.id} \cup N

HasRow(v, p) == \E r \in files[v] : r.path = p
RowId(v, p) == (CHOOSE r \in files[v] : r.path = p).id

Indexed(v, p) == mat[v][p].status = "indexed"

\* Mutant of IsNextAfter: the counter stops at the largest id in use
NextAfterLargest(n, S, old) ==
  /\ n >= old
  /\ \A k \in S : k <= n
  /\ n = old \/ n \in S

\* the counter after "if id >= next: next = id + 1" over the ids in S
IsNextAfter(n, S, old) ==
  /\ n >= old
  /\ \A k \in S : k < n
  /\ n = old \/ n - 1 \in S

\* n is the counter once every member of S has taken an id
IsNextFor(n, S, old) == n = old + Cardinality(S)

\* the ids old, old + 1, ... before next given out to S, in some order
Numberings(S, old, next) == Injection(S, old .. (next - 1))

\* symbol rows joined with the file row that gives them a path
Joined(v, p, n) ==
  {s \in symbols[v] : s.name = n /\ \E r \in files[v] : r.id = s.file /\ r.path = p}
JoinedIds(v) ==
  {s.id : s \in {t \in symbols[v] : \E r \in files[v] : r.id = t.file}}

\* Mutants of WithId and NextId: the map is not looked up, the counter not moved
WithNewId(m, n, p) == [m EXCEPT ![p] = n]
SameNextId(m, n, p) == n

\* get_or_create_file_id(p) on a map m whose counter is n
WithId(m, n, p) == IF m[p] # 0 THEN m ELSE [m EXCEPT ![p] = n]
NextId(m, n, p) == IF m[p] # 0 THEN n ELSE n + 1

Blob(i) == Content[ver[i]][cur[i]]

\* names a blob's facts mention when they are those of path o
Mentions(b, o) ==
  IF o = None THEN {}
  ELSE ({o} \X (Facts[b].defs \cup {u[1] : u \in Facts[b].uses}))
       \cup ({Unresolved} \X {u[2] : u \in Facts[b].uses})

-----------------------------------------------------------------------------
(* Processes and runs.                                                     *)

\* index_files does not await: one call at a time in a process
HostFree(h) == \A j \in Indexers : Host[j] = h => pc[j] \in {"off", "idle"}

\* SQLiteRepositoryStore.__init__: a database with file rows and no
\* materialization record is taken for an old one, and back-filled
OpenStore(h) ==
  /\ ~up[h]
  /\ starts < MaxStarts
  /\ up' = [up EXCEPT ![h] = TRUE]
  /\ starts' = starts + 1
  /\ mat' = IF \A v \in Versions, p \in Paths : mat[v][p] = NoRecord
            THEN [v \in Versions |-> [p \in Paths |->
                   IF HasRow(v, p) THEN [status |-> "indexed", blob |-> None]
                                   ELSE NoRecord]]
            ELSE mat
  /\ UNCHANGED <<files, symbols, calls, cache, runs, ver, pc, cur, origin, maps>>

\* the process dies: open transactions roll back, its memory is gone
Crash(h) ==
  /\ up[h]
  /\ up' = [up EXCEPT ![h] = FALSE]
  /\ LET Lost(i) == Host[i] = h IN
     /\ ver' = [i \in Indexers |-> IF Lost(i) THEN None ELSE ver[i]]
     /\ pc' = [i \in Indexers |-> IF Lost(i) THEN "off" ELSE pc[i]]
     /\ cur' = [i \in Indexers |-> IF Lost(i) THEN None ELSE cur[i]]
     /\ origin' = [i \in Indexers |-> IF Lost(i) THEN None ELSE origin[i]]
     /\ fmap' = [i \in Indexers |-> IF Lost(i) THEN NoFileIds ELSE fmap[i]]
     /\ fnext' = [i \in Indexers |-> IF Lost(i) THEN 1 ELSE fnext[i]]
     /\ smap' = [i \in Indexers |-> IF Lost(i) THEN NoSymbolIds ELSE smap[i]]
     /\ snext' = [i \in Indexers |-> IF Lost(i) THEN 1 ELSE snext[i]]
  /\ UNCHANGED <<db, starts, runs>>

MayWorkOn(v) == ConcurrentRuns \/ \A j \in Indexers : ver[j] # v

NewIndexer(i, v) ==
  /\ up[Host[i]]
  /\ HostFree(Host[i])
  /\ ver[i] = None
  /\ MayWorkOn(v)
  /\ runs < MaxRuns
  /\ runs' = runs + 1
  /\ ver' = [ver EXCEPT ![i] = v]
  /\ pc' = [pc EXCEPT ![i] = "idle"]
  /\ UNCHANGED <<db, up, starts, cur, origin, maps>>

\* the run ends and its indexer is garbage
DropIndexer(i) ==
  /\ pc[i] = "idle"
  /\ HostFree(Host[i])
  /\ ver' = [ver EXCEPT ![i] = None]
  /\ pc' = [pc EXCEPT ![i] = "off"]
  /\ fmap' = [fmap EXCEPT ![i] = NoFileIds]
  /\ fnext' = [fnext EXCEPT ![i] = 1]
  /\ smap' = [smap EXCEPT ![i] = NoSymbolIds]
  /\ snext' = [snext EXCEPT ![i] = 1]
  /\ UNCHANGED <<db, process, cur, origin>>

\* before it materializes anything a run inserts a file row, with a fresh
\* id, for the changed files of the base tree that have none
ReserveFileIds(h, v, S) ==
  /\ Reservations
  /\ up[h]
  /\ HostFree(h)
  /\ MayWorkOn(v)
  /\ \A p \in S : Content[v][p] # None /\ ~HasRow(v, p)
  /\ \E n, top \in Nexts :
       /\ IsNextAfter(n, {r.id : r \in files[v]}, 1)
       /\ IsNextFor(top, S, n)
       /\ \E f \in Numberings(S, n, top) :
            files' = [files EXCEPT ![v] = @ \cup {[id |-> f[p], path |-> p] : p \in S}]
  /\ UNCHANGED <<symbols, calls, cache, mat, process, ver, pc, cur, origin, maps>>

-----------------------------------------------------------------------------
(* index_files.                                                            *)

\* the call begins: _sync_mappings_from_sink
BeginCall(i) ==
  /\ pc[i] = "idle"
  /\ HostFree(Host[i])
  /\ pc' = [pc EXCEPT ![i] = "batch"]
  /\ LET v == ver[i] IN
     /\ fmap' = [fmap EXCEPT ![i] =
          [p \in Paths |-> IF HasRow(v, p) THEN RowId(v, p) ELSE fmap[i][p]]]
     /\ \E n \in Nexts :
          /\ IsNextAfter(n, {r.id : r \in files[v]}, fnext[i])
          /\ fnext' = [fnext EXCEPT ![i] = n]
     /\ smap' = [smap EXCEPT ![i] =
          [x \in Fqns |-> IF Joined(v, x[1], x[2]) # {}
                          THEN (CHOOSE s \in Joined(v, x[1], x[2]) : TRUE).id
                          ELSE smap[i][x]]]
     /\ \E n \in Nexts :
          /\ IsNextAfter(n, JoinedIds(v), snext[i])
          /\ snext' = [snext EXCEPT ![i] = n]
  /\ UNCHANGED <<db, process, ver, cur, origin>>

\* the next file of the call: _get_cached_facts
StartFile(i, p) ==
  /\ pc[i] = "batch"
  /\ LET b == Content[ver[i]][p]
         known == \E v \in Versions, q \in Paths : mat[v][q].blob = b
     IN
     /\ b # None
     /\ cur' = [cur EXCEPT ![i] = p]
     /\ pc' = [pc EXCEPT ![i] = IF cache[b] # None \/ known THEN "hit" ELSE "miss"]
     /\ origin' = [origin EXCEPT ![i] =
                     IF cache[b] # None THEN cache[b]
                     ELSE IF known THEN None ELSE p]
  /\ UNCHANGED <<db, process, ver, maps>>

\* ids for the file, for the path its facts come from, and for their names
AllocateIds(i) ==
  LET o == origin[i]
      m == WithId(fmap[i], fnext[i], cur[i])
      n == NextId(fmap[i], fnext[i], cur[i])
      new == {x \in Mentions(Blob(i), o) : smap[i][x] = 0}
  IN
  /\ fmap' = [fmap EXCEPT ![i] = IF o = None THEN m ELSE WithId(m, n, o)]
  /\ fnext' = [fnext EXCEPT ![i] = IF o = None THEN n ELSE NextId(m, n, o)]
  /\ fnext'[i] \in Nexts
  /\ \E top \in Nexts :
       /\ IsNextFor(top, new, snext[i])
       /\ snext' = [snext EXCEPT ![i] = top]
       /\ \E f \in Numberings(new, snext[i], top) :
            smap' = [smap EXCEPT ![i] =
                       [x \in Fqns |-> IF x \in new THEN f[x] ELSE smap[i][x]]]

\* add_file, then one row for each fact; the ids are those just allocated
WriteRows(i) ==
  LET v == ver[i]
      o == origin[i]
      b == Blob(i)
      fid == fmap'[i][cur[i]]
      defs == IF o = None THEN {} ELSE Facts[b].defs
      uses == IF o = None THEN {} ELSE Facts[b].uses
  IN
  /\ files' = [files EXCEPT ![v] = Replace(@, {[id |-> fid, path |-> cur[i]]})]
  /\ symbols' = [symbols EXCEPT ![v] = Replace(@,
       {[id |-> smap'[i][<<o, d>>], name |-> d, file |-> fmap'[i][o]] : d \in defs})]
  /\ calls' = [calls EXCEPT ![v] = @ \cup
       {[file |-> fid, caller |-> smap'[i][<<o, u[1]>>],
         callee |-> smap'[i][<<Unresolved, u[2]>>], calleeName |-> u[2]] : u \in uses}]

\* cache hit: the kept facts and the record "indexed" in one commit
IndexHit(i) ==
  /\ pc[i] = "hit"
  /\ AllocateIds(i)
  /\ WriteRows(i)
  /\ mat' = [mat EXCEPT ![ver[i]][cur[i]] = [status |-> "indexed", blob |-> Blob(i)]]
  /\ pc' = [pc EXCEPT ![i] = "batch"]
  /\ UNCHANGED <<cache, process, ver, cur, origin>>

\* cache miss, first commit: _save_cached_facts commits the facts it caches
IndexMiss(i) ==
  /\ pc[i] = "miss"
  /\ AllocateIds(i)
  /\ WriteRows(i)
  /\ cache' = IF cache[Blob(i)] = None /\ Mentions(Blob(i), cur[i]) # {}
              THEN [cache EXCEPT ![Blob(i)] = cur[i]] ELSE cache
  /\ pc' = [pc EXCEPT ![i] = "record"]
  /\ UNCHANGED <<mat, process, ver, cur, origin>>

\* ... when that commit fails, everything is rolled back and the failure is
\* swallowed: the file goes on to be recorded
IndexMissUnsaved(i) ==
  /\ StorageErrors
  /\ pc[i] = "miss"
  /\ AllocateIds(i)
  /\ pc' = [pc EXCEPT ![i] = "record"]
  /\ UNCHANGED <<db, process, ver, cur, origin>>

\* Mutant of RecordIndexed: the record may come before the facts
RecordBeforeFacts(i) ==
  /\ pc[i] \in {"miss", "record"}
  /\ mat' = [mat EXCEPT ![ver[i]][cur[i]] = [status |-> "indexed", blob |-> Blob(i)]]
  /\ pc' = [pc EXCEPT ![i] = IF pc[i] = "miss" THEN "miss" ELSE "batch"]
  /\ UNCHANGED <<files, symbols, calls, cache, process, ver, cur, origin, maps>>

\* cache miss, second commit
RecordIndexed(i) ==
  /\ pc[i] = "record"
  /\ mat' = [mat EXCEPT ![ver[i]][cur[i]] = [status |-> "indexed", blob |-> Blob(i)]]
  /\ pc' = [pc EXCEPT ![i] = "batch"]
  /\ UNCHANGED <<files, symbols, calls, cache, process, ver, cur, origin, maps>>

\* parsing or the first write of a commit raises: what is not committed is
\* rolled back, the id the file was given stays in the map
Raise(i) ==
  /\ \/ ParseErrors /\ pc[i] = "miss"
     \/ StorageErrors /\ pc[i] \in {"hit", "miss", "record"}
  /\ NextId(fmap[i], fnext[i], cur[i]) \in Nexts
  /\ fmap' = [fmap EXCEPT ![i] = WithId(fmap[i], fnext[i], cur[i])]
  /\ fnext' = [fnext EXCEPT ![i] = NextId(fmap[i], fnext[i], cur[i])]
  /\ pc' = [pc EXCEPT ![i] = "raised"]
  /\ UNCHANGED <<db, process, ver, cur, origin, symbolIds>>

\* Mutant of RecordFailed: the record keeps the status of a file that waits
RecordPending(i) ==
  /\ pc[i] = "raised"
  /\ mat' = [mat EXCEPT ![ver[i]][cur[i]] = [status |-> "pending", blob |-> Blob(i)]]
  /\ pc' = [pc EXCEPT ![i] = "idle"]
  /\ cur' = [cur EXCEPT ![i] = None]
  /\ origin' = [origin EXCEPT ![i] = None]
  /\ UNCHANGED <<files, symbols, calls, cache, process, ver, maps>>

\* the handler commits the record "failed" and the call ends; if even that
\* write fails nobody hears of it
RecordFailed(i) ==
  /\ pc[i] = "raised"
  /\ \/ mat' = [mat EXCEPT ![ver[i]][cur[i]] = [status |-> "failed", blob |-> Blob(i)]]
     \/ StorageErrors /\ mat' = mat
  /\ pc' = [pc EXCEPT ![i] = "idle"]
  /\ cur' = [cur EXCEPT ![i] = None]
  /\ origin' = [origin EXCEPT ![i] = None]
  /\ UNCHANGED <<files, symbols, calls, cache, process, ver, maps>>

EndCall(i) ==
  /\ pc[i] = "batch"
  /\ pc' = [pc EXCEPT ![i] = "idle"]
  /\ cur' = [cur EXCEPT ![i] = None]
  /\ origin' = [origin EXCEPT ![i] = None]
  /\ UNCHANGED <<db, process, ver, maps>>

Next ==
  \/ \E h \in Hosts : OpenStore(h) \/ Crash(h)
  \/ \E h \in Hosts, v \in Versions, S \in (SUBSET Paths) \ {{}} : ReserveFileIds(h, v, S)
  \/ \E i \in Indexers, v \in Versions : NewIndexer(i, v)
  \/ \E i \in Indexers, p \in Paths : StartFile(i, p)
  \/ \E i \in Indexers :
       \/ DropIndexer(i)
       \/ BeginCall(i)
       \/ IndexHit(i)
       \/ IndexMiss(i)
       \/ IndexMissUnsaved(i)
       \/ RecordIndexed(i)
       \/ Raise(i)
       \/ RecordFailed(i)
       \/ EndCall(i)

Spec == Init /\ [][Next]_vars

-----------------------------------------------------------------------------
(* Properties.                                                             *)

(* A path has one id in a version and an id names one path, so that the    *)
(* facts filed under the id are the facts of that path.  The numbers come  *)
(* from maps in the memory of indexers that crash, fail half way and are   *)
(* created anew for every run, each time synced from the table.            *)
OneIdPerPath ==
  \A v \in Versions : \A r, s \in files[v] : r.path = s.path <=> r.id = s.id

(* A committed file row is never replaced: INSERT OR REPLACE must not be   *)
(* given an id that belongs to another path, whatever ids were handed out  *)
(* and lost in between.                                                    *)
FileRowsStable == [][\A v \in Versions : files[v] \subseteq files'[v]]_files

(* Together: with one run on a version at a time, the file table is the    *)
(* catalogue of FileCatalog.                                               *)
Catalog == INSTANCE FileCatalog WITH rows <- files
CatalogSpec == Catalog!Spec

(* A path recorded "indexed" was indexed successfully, as is_materialized  *)
(* promises, so it has at least its file row.  Not so when the commit that *)
(* caches the facts fails: the error is swallowed, the rows are rolled     *)
(* back, and the next commit records the file all the same.                *)
IndexedHasRow == \A v \in Versions, p \in Paths : Indexed(v, p) => HasRow(v, p)

FactsStored(v, p) ==
  LET b == Content[v][p] IN
  /\ \A d \in Facts[b].defs : Joined(v, p, d) # {}
  /\ \A u \in Facts[b].uses : \E c \in calls[v] :
       /\ c.file = RowId(v, p)
       /\ c.calleeName = u[2]
       /\ \E s \in Joined(v, p, u[1]) : s.id = c.caller

(* A path recorded "indexed" is one whose facts can be queried: the        *)
(* symbols its content defines and the calls it makes are in the store,    *)
(* under its file row.  Queries answer "complete" on the strength of this. *)
IndexedHasFacts ==
  \A v \in Versions, p \in Paths : Indexed(v, p) => HasRow(v, p) /\ FactsStored(v, p)

(* The id stored for the callee of an unresolved call is not the id of a   *)
(* symbol with another name: calls, symbols and placeholders share one     *)
(* number space, but only symbols are rows the next indexer syncs from.    *)
CalleeNamesSound ==
  \A v \in Versions : \A c \in calls[v], s \in symbols[v] :
    c.callee = s.id => s.name = c.calleeName
=============================================================================
