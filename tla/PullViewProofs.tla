--------------------------- MODULE PullViewProofs ---------------------------
(***************************************************************************)
(* Theorems about PullView, for every value of its constants.              *)
(*                                                                         *)
(* The inductive invariant has four parts: one task at most is beyond a    *)
(* wait for get_files (OneRuns) and a run keeps its place (Places); the    *)
(* rows of a version are those of its files, one id for each (RowsOK); the *)
(* id maps of an indexer may be behind the tables, but what they hold for  *)
(* a file or for a symbol its content defines is a row (MapsOK); and what  *)
(* is neither waiting to be fetched nor to be indexed is indexed (Done).   *)
(***************************************************************************)
EXTENDS PullView, FiniteSetTheorems, TLAPS

OneRuns ==
  \A t, u \in Tasks :
    pc[t] \notin {"idle", "fetch"} /\ pc[u] \notin {"idle", "fetch"} => t = u

\* v's content of p defines d
DefinesAt(v, p, d) == InTree(v, p) /\ d \in Defs[Tree[v][p]]

FilesFit(v, F) ==
  /\ \A r \in F : InTree(v, r.path)
  /\ \A r, q \in F : r.id = q.id <=> r.path = q.path

SymbolsFit(v, F, S) ==
  /\ \A s \in S : \E f \in F : f.id = s.file /\ DefinesAt(v, f.path, s.name)
  /\ \A s, q \in S : s.id = q.id <=> s.name = q.name /\ s.file = q.file

RowsOK ==
  \A v \in Versions : FilesFit(v, files[v]) /\ SymbolsFit(v, files[v], symbols[v])

\* the id k is that of the row of symbol d of file p
IsSymbol(F, S, k, p, d) ==
  \E f \in F, s \in S : f.path = p /\ s.file = f.id /\ s.name = d /\ s.id = k

MapFits(m, v, F, S) ==
  /\ \A p \in Paths : m.file[p] # 0 => \E f \in F : f.path = p /\ f.id = m.file[p]
  /\ \A p \in Paths, d \in Names :
       m.sym[<<p, d>>] # 0 /\ DefinesAt(v, p, d) => IsSymbol(F, S, m.sym[<<p, d>>], p, d)

MapsOK ==
  \A t \in Tasks :
    /\ MapFits(headIx[t], Head[t], files[Head[t]], symbols[Head[t]])
    /\ MapFits(baseIx[t], Base[t], files[Base[t]], symbols[Base[t]])

\* all that v's content of p defines has a row
Indexed(v, p, F, S) ==
  \A d \in Defs[Tree[v][p]] : \E s \in S : IsSymbol(F, S, s.id, p, d)

Places ==
  \A t \in Tasks :
    /\ pc[t] # "idle" => ctx \in Versions
    /\ batch[t] \subseteq Readable(Head[t], Diff[t])
    /\ pc[t] # "index" => batch[t] = {}
    /\ pc[t] \notin {"fetch", "index"} => todo[t] = {}

Done ==
  \A t \in Tasks : pc[t] \notin {"idle", "view"} =>
    \A p \in Readable(Head[t], Diff[t]) \ (todo[t] \cup batch[t]) :
      Indexed(Head[t], p, files[Head[t]], symbols[Head[t]])

\* OverlayHasHead in terms of rows
Overlaid ==
  \A t \in Tasks : pc[t] = "view" =>
    \A p \in Readable(Head[t], Diff[t]) : \A d \in Defs[Tree[Head[t]][p]] :
      \E s \in symbols[Head[t]], f \in files[Head[t]] :
        s \in overlay[t].added /\ f.path = p /\ s.file = f.id /\ s.name = d

IInv ==
  /\ TypeOK
  /\ OneRuns
  /\ ContextOfView
  /\ RowsOK
  /\ MapsOK
  /\ Places
  /\ Done
  /\ Overlaid

-----------------------------------------------------------------------------
(* Numbers.                                                                *)

(* The next id is greater than all in use.                                 *)
LEMMA NextAfterAbove ==
  ASSUME NEW S \in SUBSET Nat, NEW n \in NextAfter(S)
  PROVE  n \in Ids /\ \A k \in S : k < n
  BY DEF NextAfter, Ids

(* A numbering of a finite set from n on gives each element an id of its   *)
(* own that is not below n.                                                *)
LEMMA NumberedIds ==
  ASSUME NEW S, IsFiniteSet(S), NEW n \in Ids, NEW f \in Numbered(S, n)
  PROVE  /\ f \in [S -> Ids]
         /\ \A x \in S : n <= f[x]
         /\ \A x, y \in S : f[x] = f[y] => x = y
PROOF
  <1>1. Cardinality(S) \in Nat
    BY FS_CardinalityType
  <1>2. /\ f \in [S -> n .. (n + Cardinality(S) - 1)]
        /\ \A x, y \in S : f[x] = f[y] => x = y
    BY DEF Numbered, Injection, IsInjective
  <1>3. \A k \in n .. (n + Cardinality(S) - 1) : k \in Ids /\ n <= k
    BY <1>1 DEF Ids
  <1> QED
    BY <1>2, <1>3

(* The names of files and of symbols are finitely many.                    *)
LEMMA FiniteNames ==
  /\ \A P \in SUBSET Paths : IsFiniteSet(P)
  /\ \A X \in SUBSET Fqns : IsFiniteSet(X)
PROOF
  <1>1. IsFiniteSet(Paths) /\ IsFiniteSet(Names)
    BY ConstantsAssumption
  <1>2. IsFiniteSet(Paths \cup {Unresolved})
    BY <1>1, FS_AddElement
  <1>3. IsFiniteSet(Fqns)
    BY <1>1, <1>2, FS_Product DEF Fqns
  <1> QED
    BY <1>1, <1>3, FS_Subset

-----------------------------------------------------------------------------
(* Id maps.                                                                *)

(* get_or_create_file_id: p has an id, which is a new one if p had none,   *)
(* and nothing else changes.                                               *)
LEMMA WithFileFacts ==
  ASSUME NEW m \in [Paths -> Ids \cup {0}], NEW p \in Paths, NEW n \in WithFile(m, p)
  PROVE  /\ n \in [Paths -> Ids \cup {0}]
         /\ n[p] \in Ids
         /\ \A q \in Paths : m[q] # 0 \/ q # p => n[q] = m[q]
         /\ m[p] = 0 => \A q \in Paths : m[q] < n[p]
PROOF
  <1>1. Range(m) \in SUBSET Nat
    BY DEF Range, Ids
  <1>2. CASE m[p] # 0
    BY <1>2 DEF WithFile, Ids
  <1>3. CASE m[p] = 0
    <2>1. PICK k \in NextAfter(Range(m)) : n = [m EXCEPT ![p] = k]
      BY <1>3 DEF WithFile
    <2>2. k \in Ids /\ \A q \in Paths : m[q] < k
      BY <2>1, <1>1, NextAfterAbove DEF Range
    <2> QED
      BY <2>1, <2>2, <1>3 DEF Ids
  <1> QED
    BY <1>2, <1>3

(* get_or_create_symbol_id of the names in X: each has an id, a name that  *)
(* had none has a new one of its own, and nothing else changes.            *)
LEMMA WithSymbolsFacts ==
  ASSUME NEW m \in [Fqns -> Ids \cup {0}], NEW X \in SUBSET Fqns, NEW first,
         NEW n \in WithSymbols(m, X, first)
  PROVE  /\ n \in [Fqns -> Ids \cup {0}]
         /\ \A x \in X : n[x] \in Ids
         /\ \A x \in Fqns : m[x] # 0 \/ x \notin X => n[x] = m[x]
         /\ \A x \in X : m[x] = 0 => \A y \in Fqns : m[y] < n[x]
         /\ \A x, y \in X : m[x] = 0 /\ m[y] = 0 /\ n[x] = n[y] => x = y
PROOF
  <1> DEFINE new == {x \in X : m[x] = 0}
  <1>1. Range(m) \in SUBSET Nat
    BY DEF Range, Ids
  <1>2. PICK f \in UNION {Numbered(new, k) : k \in NextAfter(Range(m))} :
          n = [x \in Fqns |-> IF x \in new THEN f[x] ELSE m[x]]
    BY Zenon DEF WithSymbols
  <1>3. PICK k \in NextAfter(Range(m)) : f \in Numbered(new, k)
    OBVIOUS
  <1>4. k \in Ids /\ \A y \in Fqns : m[y] < k
    BY <1>1, NextAfterAbove DEF Range
  <1>5. IsFiniteSet(new)
    BY FiniteNames
  <1>6. /\ f \in [new -> Ids]
        /\ \A x \in new : k <= f[x]
        /\ \A x, y \in new : f[x] = f[y] => x = y
    BY <1>3, <1>4, <1>5, NumberedIds
  <1>7. \A x \in X : m[x] = 0 => n[x] = f[x] /\ x \in new
    BY <1>2
  <1>8. \A x \in Fqns : m[x] # 0 \/ x \notin X => n[x] = m[x]
    BY <1>2
  <1>9. \A x \in X : m[x] = 0 => \A y \in Fqns : m[y] < n[x]
    BY <1>4, <1>6, <1>7 DEF Ids
  <1> HIDE DEF new
  <1> QED
    BY <1>2, <1>6, <1>7, <1>8, <1>9

\* map m holds the id of every row
Knows(m, F, S) ==
  /\ \A r \in F : m.file[r.path] = r.id
  /\ \A r \in F, q \in S : q.file = r.id => m.sym[<<r.path, q.name>>] = q.id

(* _sync_mappings_from_sink: a map that may be behind the tables knows     *)
(* every row afterwards, and what else it holds is as before.              *)
LEMMA SyncedFits ==
  ASSUME TypeOK, NEW v \in Versions, NEW m \in IdMaps,
         FilesFit(v, files[v]), SymbolsFit(v, files[v], symbols[v]),
         MapFits(m, v, files[v], symbols[v])
  PROVE  /\ Synced(m, v) \in IdMaps
         /\ MapFits(Synced(m, v), v, files[v], symbols[v])
         /\ Knows(Synced(m, v), files[v], symbols[v])
PROOF
  <1> DEFINE s == Synced(m, v)
  <1>1. files[v] \in SUBSET FileRows /\ symbols[v] \in SUBSET SymbolRows
    BY DEF TypeOK
  <1>2. \A p \in Paths : \/ RowsOf(v, p) = {} /\ s.file[p] = m.file[p]
                         \/ \E r \in files[v] : r.path = p /\ s.file[p] = r.id
    BY DEF Synced, RowsOf
  <1>3. \A x \in Fqns : \/ SymbolsOf(v, x) = {} /\ s.sym[x] = m.sym[x]
                        \/ \E q \in SymbolsOf(v, x) : s.sym[x] = q.id
    BY DEF Synced
  <1>4. \A p \in Paths, d \in Names, q \in symbols[v] :
          q \in SymbolsOf(v, <<p, d>>)
            <=> q.name = d /\ \E r \in files[v] : r.path = p /\ q.file = r.id
    BY DEF SymbolsOf, RowIds
  <1>5. \A x \in Fqns : \A q \in SymbolsOf(v, x) : q \in symbols[v]
    BY DEF SymbolsOf
  <1>6. s \in IdMaps
    <2>1. \A p \in Paths : s.file[p] \in Ids \cup {0}
      BY <1>1, <1>2 DEF IdMaps, FileRows
    <2>2. \A x \in Fqns : s.sym[x] \in Ids \cup {0}
      BY <1>1, <1>3, <1>5 DEF IdMaps, SymbolRows
    <2>3. /\ s = [file |-> s.file, sym |-> s.sym]
          /\ s.file = [p \in Paths |-> s.file[p]]
          /\ s.sym = [x \in Fqns |-> s.sym[x]]
      BY DEF Synced
    <2> HIDE DEF s
    <2> QED
      BY <2>1, <2>2, <2>3 DEF IdMaps
  <1>7. Knows(s, files[v], symbols[v])
    <2>1. \A r \in files[v] : s.file[r.path] = r.id
      <3> TAKE r \in files[v]
      <3>1. r.path \in Paths /\ r \in RowsOf(v, r.path)
        BY <1>1 DEF FileRows, RowsOf
      <3> HIDE DEF s
      <3> QED
        BY <1>2, <3>1 DEF FilesFit
    <2>2. \A r \in files[v], q \in symbols[v] :
            q.file = r.id => s.sym[<<r.path, q.name>>] = q.id
      <3> SUFFICES ASSUME NEW r \in files[v], NEW q \in symbols[v], q.file = r.id
                   PROVE  s.sym[<<r.path, q.name>>] = q.id
        OBVIOUS
      <3> DEFINE x == <<r.path, q.name>>
      <3>1. r.path \in Paths /\ q.name \in Names /\ x \in Fqns
        BY <1>1 DEF FileRows, SymbolRows, Fqns
      <3>2. q \in SymbolsOf(v, x)
        BY <1>4, <3>1
      <3>3. PICK z \in SymbolsOf(v, x) : s.sym[x] = z.id
        BY <1>3, <3>1, <3>2
      <3>4. z \in symbols[v] /\ z.name = q.name
        BY <1>4, <1>5, <3>1
      <3>5. \E f \in files[v] : f.path = r.path /\ z.file = f.id
        BY <1>4, <1>5, <3>1
      <3>6. z.file = r.id
        BY <3>5 DEF FilesFit
      <3> QED
        BY <3>3, <3>4, <3>6 DEF SymbolsFit
    <2> QED
      BY <2>1, <2>2 DEF Knows
  <1>8. MapFits(s, v, files[v], symbols[v])
    <2> HIDE DEF s
    <2>1. \A p \in Paths :
            s.file[p] # 0 => \E f \in files[v] : f.path = p /\ f.id = s.file[p]
      BY <1>2 DEF MapFits
    <2>2. ASSUME NEW p \in Paths, NEW d \in Names,
                 s.sym[<<p, d>>] # 0, DefinesAt(v, p, d)
          PROVE  IsSymbol(files[v], symbols[v], s.sym[<<p, d>>], p, d)
      <3>1. <<p, d>> \in Fqns
        BY DEF Fqns
      <3>2. CASE s.sym[<<p, d>>] = m.sym[<<p, d>>]
        BY <2>2, <3>2 DEF MapFits
      <3>3. CASE \E q \in SymbolsOf(v, <<p, d>>) : s.sym[<<p, d>>] = q.id
        BY <1>4, <1>5, <3>1, <3>3 DEF IsSymbol
      <3> QED
        BY <1>3, <3>1, <3>2, <3>3
    <2> QED
      BY <2>1, <2>2 DEF MapFits
  <1> QED
    BY <1>6, <1>7, <1>8

-----------------------------------------------------------------------------
(* Indexing one file.                                                      *)

\* in F, k is the id of p and of nothing else
IsIdOf(k, p, F) == \A r \in F : r.path = p <=> r.id = k

\* k is above all ids in F, where p has none
IsNewFor(k, p, F) == \A r \in F : r.id < k /\ r.path # p

\* k is above all ids in S, where symbol d of file i has none
IsNewSymbol(k, d, i, S) == \A q \in S : q.id < k /\ ~(q.name = d /\ q.file = i)

\* map n has what map m has of names that are not in X
KeepsOthers(m, n, X) == \A x \in Fqns : x \notin X => n[x] = m[x]

\* the rows WriteRows adds to the tables of files and of symbols
FileRow(n, p) == {[id |-> n.file[p], path |-> p]}
SymbolRowsOf(n, p, b) ==
  {[id |-> n.sym[<<p, d>>], name |-> d, file |-> n.file[p]] : d \in Defs[b]}

(* The row of the file is there already, or its id is above all in use.    *)
LEMMA FileRowNew ==
  ASSUME NEW v \in Versions, NEW p \in Paths, InTree(v, p),
         NEW F \in SUBSET FileRows, NEW S \in SUBSET SymbolRows,
         NEW s \in IdMaps, FilesFit(v, F), MapFits(s, v, F, S), Knows(s, F, S),
         NEW n \in IdMaps, n.file \in WithFile(s.file, p)
  PROVE  /\ n.file[p] \in Ids
         /\ Replace(F, FileRow(n, p)) = F \cup FileRow(n, p)
         /\ FilesFit(v, F \cup FileRow(n, p))
         /\ IsIdOf(n.file[p], p, F)
         /\ [id |-> n.file[p], path |-> p] \in F \/ IsNewFor(n.file[p], p, F)
PROOF
  <1> DEFINE row == [id |-> n.file[p], path |-> p]
  <1>1. s.file \in [Paths -> Ids \cup {0}]
    BY DEF IdMaps
  <1>2. /\ n.file[p] \in Ids
        /\ \A q \in Paths : s.file[q] # 0 \/ q # p => n.file[q] = s.file[q]
        /\ s.file[p] = 0 => \A q \in Paths : s.file[q] < n.file[p]
    BY <1>1, WithFileFacts
  <1>3. \A r \in F : r.path \in Paths /\ r.id \in Ids /\ r = [id |-> r.id, path |-> r.path]
    BY DEF FileRows
  <1>4. row \in F \/ IsNewFor(n.file[p], p, F)
    <2>1. CASE s.file[p] # 0
      <3>1. PICK r \in F : r.path = p /\ r.id = n.file[p]
        BY <1>2, <2>1 DEF MapFits
      <3> QED
        BY <1>3, <3>1
    <2>2. CASE s.file[p] = 0
      BY <1>2, <1>3, <2>2 DEF Knows, Ids, IsNewFor
    <2> QED
      BY <2>1, <2>2
  <1>5. IsIdOf(n.file[p], p, F)
    BY <1>2, <1>3, <1>4 DEF FilesFit, Ids, IsNewFor, IsIdOf
  <1>6. Replace(F, {row}) = F \cup {row}
    <2>1. \A r \in F : r.id = row.id => r = row
      BY <1>3, <1>5 DEF IsIdOf
    <2> QED
      BY <2>1 DEF Replace
  <1>7. FilesFit(v, F \cup {row})
    BY <1>4, <1>2, <1>3 DEF FilesFit, Ids, IsNewFor
  <1> QED
    BY <1>2, <1>4, <1>5, <1>6, <1>7 DEF FileRow

(* Each symbol has its row already, or its id is above all in use and no   *)
(* row has its name in this file; different symbols have different ids.    *)
LEMMA SymbolRowNew ==
  ASSUME NEW v \in Versions, NEW p \in Paths, InTree(v, p),
         NEW F \in SUBSET FileRows, NEW S \in SUBSET SymbolRows,
         NEW s \in IdMaps, FilesFit(v, F), SymbolsFit(v, F, S),
         MapFits(s, v, F, S), Knows(s, F, S), NEW n \in IdMaps,
         n.file \in WithFile(s.file, p),
         n.sym \in WithSymbols(s.sym, Mentions(p, Tree[v][p]), Defined(p, Tree[v][p]))
  PROVE  /\ \A d \in Defs[Tree[v][p]] :
              /\ n.sym[<<p, d>>] \in Ids
              /\ \/ [id |-> n.sym[<<p, d>>], name |-> d, file |-> n.file[p]] \in S
                 \/ IsNewSymbol(n.sym[<<p, d>>], d, n.file[p], S)
         /\ \A d, e \in Defs[Tree[v][p]] : n.sym[<<p, d>>] = n.sym[<<p, e>>] => d = e
         /\ KeepsOthers(s.sym, n.sym, Mentions(p, Tree[v][p]))
PROOF
  <1> DEFINE b == Tree[v][p]
             X == Mentions(p, b)
  <1>1. s.sym \in [Fqns -> Ids \cup {0}] /\ n.sym \in [Fqns -> Ids \cup {0}]
    BY DEF IdMaps
  <1>2. b \in Blobs /\ Defs[b] \subseteq Names /\ Uses[b] \subseteq Names \X Names
    BY ConstantsAssumption DEF InTree
  <1>3. /\ X \subseteq Fqns
        /\ \A d \in Defs[b] : <<p, d>> \in X /\ <<p, d>> \in Fqns
    BY <1>2 DEF Mentions, Defined, Fqns
  <1>a. n.sym \in WithSymbols(s.sym, X, Defined(p, b))
    OBVIOUS
  <1> HIDE DEF X
  <1>4. /\ \A x \in X : n.sym[x] \in Ids
        /\ \A x \in Fqns : s.sym[x] # 0 \/ x \notin X => n.sym[x] = s.sym[x]
        /\ \A x \in X : s.sym[x] = 0 => \A y \in Fqns : s.sym[y] < n.sym[x]
        /\ \A x, y \in X : s.sym[x] = 0 /\ s.sym[y] = 0 /\ n.sym[x] = n.sym[y] => x = y
    BY <1>1, <1>3, <1>a, WithSymbolsFacts
  <1>5. \A q \in S : \E r \in F :
          /\ r.id = q.file
          /\ <<r.path, q.name>> \in Fqns
          /\ s.sym[<<r.path, q.name>>] = q.id
    <2> TAKE q \in S
    <2>1. PICK r \in F : r.id = q.file /\ DefinesAt(v, r.path, q.name)
      BY DEF SymbolsFit
    <2>2. r.path \in Paths /\ q.name \in Names
      BY DEF FileRows, SymbolRows
    <2> QED
      BY <2>1, <2>2 DEF Knows, Fqns
  <1>6. IsIdOf(n.file[p], p, F)
    BY FileRowNew
  <1>7. ASSUME NEW d \in Defs[b], s.sym[<<p, d>>] # 0
        PROVE  [id |-> n.sym[<<p, d>>], name |-> d, file |-> n.file[p]] \in S
    <2>1. n.sym[<<p, d>>] = s.sym[<<p, d>>]
      BY <1>3, <1>4, <1>7
    <2>2. IsSymbol(F, S, s.sym[<<p, d>>], p, d)
      BY <1>2, <1>7 DEF MapFits, DefinesAt
    <2>3. PICK q \in S : q.name = d /\ q.id = n.sym[<<p, d>>] /\ q.file = n.file[p]
      BY <1>6, <2>1, <2>2 DEF IsSymbol, IsIdOf
    <2>4. q = [id |-> q.id, name |-> q.name, file |-> q.file]
      BY DEF SymbolRows
    <2> QED
      BY <2>3, <2>4
  <1>8. ASSUME NEW d \in Defs[b], s.sym[<<p, d>>] = 0
        PROVE  IsNewSymbol(n.sym[<<p, d>>], d, n.file[p], S)
    <2>1. \A q \in S : q.id < n.sym[<<p, d>>]
      BY <1>3, <1>4, <1>5, <1>8
    <2>2. ASSUME NEW q \in S, q.name = d, q.file = n.file[p] PROVE FALSE
      <3>1. PICK r \in F : r.id = q.file /\ s.sym[<<r.path, q.name>>] = q.id
        BY <1>5
      <3>2. r.path = p
        BY <1>6, <2>2, <3>1 DEF IsIdOf
      <3>3. q.id \in Ids
        BY DEF SymbolRows
      <3> QED
        BY <1>8, <2>2, <3>1, <3>2, <3>3 DEF Ids
    <2> QED
      BY <2>1, <2>2 DEF IsNewSymbol
  <1>9. ASSUME NEW d \in Defs[b], NEW e \in Defs[b], n.sym[<<p, d>>] = n.sym[<<p, e>>]
        PROVE  d = e
    <2>1. CASE s.sym[<<p, d>>] = 0 /\ s.sym[<<p, e>>] = 0
      <3>1. <<p, d>> = <<p, e>>
        BY <1>3, <1>4, <1>9, <2>1
      <3> QED
        BY <3>1
    <2>2. CASE s.sym[<<p, d>>] # 0 /\ s.sym[<<p, e>>] # 0
      BY <1>7, <1>9, <2>2 DEF SymbolsFit
    <2>3. CASE s.sym[<<p, d>>] = 0 /\ s.sym[<<p, e>>] # 0
      BY <1>1, <1>3, <1>4, <1>9, <2>3 DEF Ids
    <2>4. CASE s.sym[<<p, d>>] # 0 /\ s.sym[<<p, e>>] = 0
      BY <1>1, <1>3, <1>4, <1>9, <2>4 DEF Ids
    <2> QED
      BY <2>1, <2>2, <2>3, <2>4
  <1>10. KeepsOthers(s.sym, n.sym, X)
    BY <1>4 DEF KeepsOthers
  <1> QED
    BY <1>3, <1>4, <1>7, <1>8, <1>9, <1>10 DEF X

(* Tables that grow keep what a map and an indexed file have in them.      *)
LEMMA GrownFits ==
  ASSUME NEW v, NEW F, NEW S, NEW F2, NEW S2, F \subseteq F2, S \subseteq S2
  PROVE  /\ \A m : MapFits(m, v, F, S) => MapFits(m, v, F2, S2)
         /\ \A p : Indexed(v, p, F, S) => Indexed(v, p, F2, S2)
PROOF
  <1>1. \A k, p, d : IsSymbol(F, S, k, p, d) => IsSymbol(F2, S2, k, p, d)
    BY DEF IsSymbol
  <1>2. \A m : MapFits(m, v, F, S) => MapFits(m, v, F2, S2)
    BY <1>1 DEF MapFits
  <1>3. \A p : Indexed(v, p, F, S) => Indexed(v, p, F2, S2)
    BY <1>1 DEF Indexed
  <1> QED
    BY <1>2, <1>3

(* The rows of one more file fit, and so do the maps they come from.       *)
LEMMA IndexedRows ==
  ASSUME NEW v \in Versions, NEW p \in Paths, InTree(v, p),
         NEW F \in SUBSET FileRows, NEW S \in SUBSET SymbolRows,
         NEW s \in IdMaps, FilesFit(v, F), SymbolsFit(v, F, S),
         MapFits(s, v, F, S), Knows(s, F, S), NEW n \in IdMaps,
         n.file \in WithFile(s.file, p),
         n.sym \in WithSymbols(s.sym, Mentions(p, Tree[v][p]), Defined(p, Tree[v][p])),
         NEW F2, F2 = F \cup FileRow(n, p),
         NEW S2, S2 = S \cup SymbolRowsOf(n, p, Tree[v][p])
  PROVE  /\ F2 \in SUBSET FileRows /\ S2 \in SUBSET SymbolRows
         /\ Replace(F, FileRow(n, p)) = F2
         /\ Replace(S, SymbolRowsOf(n, p, Tree[v][p])) = S2
         /\ FilesFit(v, F2) /\ SymbolsFit(v, F2, S2)
         /\ MapFits(n, v, F2, S2)
         /\ Indexed(v, p, F2, S2)
PROOF
  <1> DEFINE b == Tree[v][p]
             i == n.file[p]
             k(d) == n.sym[<<p, d>>]
             row(d) == [id |-> k(d), name |-> d, file |-> i]
             N == SymbolRowsOf(n, p, b)
  <1>1. /\ i \in Ids
        /\ Replace(F, FileRow(n, p)) = F \cup FileRow(n, p)
        /\ FilesFit(v, F2)
        /\ IsIdOf(i, p, F)
        /\ [id |-> i, path |-> p] \in F \/ IsNewFor(i, p, F)
    BY FileRowNew
  <1>2. /\ \A d \in Defs[b] : k(d) \in Ids /\ (row(d) \in S \/ IsNewSymbol(k(d), d, i, S))
        /\ \A d, e \in Defs[b] : k(d) = k(e) => d = e
    BY SymbolRowNew
  <1>3. b \in Blobs /\ Defs[b] \subseteq Names /\ Uses[b] \subseteq Names \X Names
    BY ConstantsAssumption DEF InTree
  <1>4. /\ \A d \in Defs[b] : /\ row(d) \in N
                            /\ row(d).id = k(d) /\ row(d).name = d /\ row(d).file = i
        /\ \A r \in N : \E d \in Defs[b] : r = row(d)
    BY DEF SymbolRowsOf
  <1>a. \A q \in S : q = [id |-> q.id, name |-> q.name, file |-> q.file]
    BY DEF SymbolRows
  <1>b. \A d \in Defs[b] : row(d) = [id |-> k(d), name |-> d, file |-> i]
    OBVIOUS
  <1>c. \E f \in F2 : f.id = i /\ f.path = p
    <2>1. [id |-> i, path |-> p] \in F2
      BY DEF FileRow
    <2>2. [id |-> i, path |-> p].id = i /\ [id |-> i, path |-> p].path = p
      OBVIOUS
    <2> QED
      BY <2>1, <2>2
  <1> HIDE DEF k, i, row, N
  <1>5. F2 \in SUBSET FileRows /\ S2 \in SUBSET SymbolRows
    <2>1. FileRow(n, p) \subseteq FileRows
      BY <1>1 DEF FileRow, FileRows, i
    <2>2. \A d \in Defs[b] : row(d) \in SymbolRows
      BY <1>1, <1>2, <1>3, <1>b DEF SymbolRows
    <2>3. N \subseteq SymbolRows
      BY <1>4, <2>2
    <2> QED
      BY <2>1, <2>3 DEF N
  <1>6. ASSUME NEW q \in S, NEW d \in Defs[b], q.id = k(d)
        PROVE  q = row(d)
    <2>1. q.id \in Ids /\ k(d) \in Ids
      BY <1>2 DEF SymbolRows
    <2>2. ~ IsNewSymbol(k(d), d, i, S)
      BY <1>6, <2>1 DEF IsNewSymbol, Ids
    <2>3. row(d) \in S
      BY <1>2, <2>2
    <2> QED
      <3>1. q.name = d /\ q.file = i /\ q.id = k(d)
        BY <1>4, <1>6, <2>3 DEF SymbolsFit
      <3> QED
        BY <1>a, <1>b, <3>1
  <1>7. ASSUME NEW q \in S, NEW d \in Defs[b], q.name = d, q.file = i
        PROVE  q.id = k(d)
    <2>1. ~ IsNewSymbol(k(d), d, i, S)
      BY <1>7 DEF IsNewSymbol
    <2>2. row(d) \in S
      BY <1>2, <2>1
    <2> QED
      BY <1>4, <1>7, <2>2 DEF SymbolsFit
  <1>8. Replace(S, N) = S2
    <2>1. \A q \in S : \A r \in N : r.id = q.id => q \in N
      BY <1>4, <1>6
    <2> QED
      BY <2>1 DEF Replace, N
  <1>9. SymbolsFit(v, F2, S2)
    <2>1. ASSUME NEW q \in S2
          PROVE  \E f \in F2 : f.id = q.file /\ DefinesAt(v, f.path, q.name)
      <3>1. CASE q \in S
        BY <3>1 DEF SymbolsFit
      <3>2. CASE q \in N
        <4>1. PICK d \in Defs[b] : q = row(d)
          BY <1>4, <3>2
        <4>2. DefinesAt(v, p, d)
          BY DEF DefinesAt
        <4> QED
          BY <1>4, <1>c, <4>1, <4>2
      <3> QED
        BY <3>1, <3>2 DEF N
    <2>2. ASSUME NEW q \in S2, NEW r \in S2
          PROVE  q.id = r.id <=> q.name = r.name /\ q.file = r.file
      <3>1. CASE q \in S /\ r \in S
        BY <3>1 DEF SymbolsFit
      <3>2. CASE q \in S /\ r \in N
        BY <1>4, <1>6, <1>7, <3>2
      <3>3. CASE q \in N /\ r \in S
        BY <1>4, <1>6, <1>7, <3>3
      <3>4. CASE q \in N /\ r \in N
        BY <1>2, <1>4, <3>4
      <3> QED
        BY <3>1, <3>2, <3>3, <3>4 DEF N
    <2> QED
      BY <2>1, <2>2 DEF SymbolsFit
  <1>10. ASSUME NEW d \in Defs[b]
         PROVE  IsSymbol(F2, S2, k(d), p, d)
    BY <1>4, <1>c DEF IsSymbol, N
  <1>11. Indexed(v, p, F2, S2)
    <2>1. \A d \in Defs[b] : row(d) \in S2 /\ row(d).id = k(d)
      BY <1>4 DEF N
    <2> QED
      BY <1>10, <2>1 DEF Indexed
  <1>12. MapFits(n, v, F2, S2)
    <2>1. MapFits(s, v, F2, S2)
      BY GrownFits
    <2>2. ASSUME NEW q \in Paths, n.file[q] # 0
          PROVE  \E f \in F2 : f.path = q /\ f.id = n.file[q]
      <3>1. CASE q = p
        BY <1>c, <3>1 DEF i
      <3>2. CASE q # p
        <4>1. n.file[q] = s.file[q]
          BY <3>2, WithFileFacts DEF IdMaps
        <4> QED
          BY <2>1, <2>2, <4>1 DEF MapFits
      <3> QED
        BY <3>1, <3>2
    <2>3. ASSUME NEW q \in Paths, NEW d \in Names, n.sym[<<q, d>>] # 0,
                 DefinesAt(v, q, d)
          PROVE  IsSymbol(F2, S2, n.sym[<<q, d>>], q, d)
      <3>1. CASE q = p
        BY <1>10, <2>3, <3>1 DEF DefinesAt, k
      <3>2. CASE q # p
        <4> DEFINE X == Mentions(p, b)
        <4>1. KeepsOthers(s.sym, n.sym, X)
          BY SymbolRowNew
        <4>2. <<q, d>> \in Fqns /\ <<q, d>> \notin X
          BY <3>2, ConstantsAssumption DEF Mentions, Defined, Fqns
        <4> HIDE DEF X
        <4>4. n.sym[<<q, d>>] = s.sym[<<q, d>>]
          BY <4>1, <4>2 DEF KeepsOthers
        <4> QED
          BY <2>1, <2>3, <4>4 DEF MapFits
      <3> QED
        BY <3>1, <3>2
    <2> QED
      BY <2>2, <2>3 DEF MapFits
  <1> QED
    BY <1>1, <1>5, <1>8, <1>9, <1>11, <1>12 DEF N

-----------------------------------------------------------------------------
(* Steps of the tables.                                                    *)

RowsGrow ==
  \A v \in Versions : files[v] \subseteq files'[v] /\ symbols[v] \subseteq symbols'[v]

(* Rows of one file are written: the maps they come from fit afterwards,   *)
(* the tables are in order and nothing is gone from them.                  *)
LEMMA IndexStep ==
  ASSUME TypeOK, RowsOK, NEW v \in Versions, NEW m \in IdMaps,
         MapFits(m, v, files[v], symbols[v]), NEW p \in Paths, InTree(v, p),
         NEW n \in IndexMaps(m, v, p, Tree[v][p]), WriteRows(n, v, p, Tree[v][p])
  PROVE  /\ n \in IdMaps
         /\ files' \in [Versions -> SUBSET FileRows]
         /\ symbols' \in [Versions -> SUBSET SymbolRows]
         /\ calls' \in [Versions -> SUBSET CallRows]
         /\ mat' \in [Versions -> SUBSET Paths]
         /\ RowsGrow
         /\ RowsOK'
         /\ MapFits(n, v, files'[v], symbols'[v])
         /\ Indexed(v, p, files'[v], symbols'[v])
PROOF
  <1> DEFINE b == Tree[v][p]
             s == Synced(m, v)
             X == Mentions(p, b)
             F == files[v]
             S == symbols[v]
  <1>1. F \in SUBSET FileRows /\ S \in SUBSET SymbolRows
    BY DEF TypeOK
  <1>2. FilesFit(v, F) /\ SymbolsFit(v, F, S)
    BY DEF RowsOK
  <1>3. s \in IdMaps /\ MapFits(s, v, F, S) /\ Knows(s, F, S)
    BY <1>2, SyncedFits
  <1>4. /\ n = [file |-> n.file, sym |-> n.sym]
        /\ n.file \in WithFile(s.file, p)
        /\ n.sym \in WithSymbols(s.sym, X, Defined(p, b))
    BY DEF IndexMaps
  <1>5. b \in Blobs /\ Defs[b] \subseteq Names /\ Uses[b] \subseteq Names \X Names
    BY ConstantsAssumption DEF InTree
  <1>6. /\ X \subseteq Fqns
        /\ \A u \in Uses[b] : <<p, u[1]>> \in X /\ <<Unresolved, u[2]>> \in X
    BY <1>5 DEF Mentions, Defined, Fqns
  <1>7. /\ n.file \in [Paths -> Ids \cup {0}]
        /\ n.file[p] \in Ids
    <2>1. s.file \in [Paths -> Ids \cup {0}]
      BY <1>3 DEF IdMaps
    <2> HIDE DEF s
    <2> QED
      BY <1>4, <2>1, WithFileFacts
  <1>8. /\ n.sym \in [Fqns -> Ids \cup {0}]
        /\ \A x \in X : n.sym[x] \in Ids
    <2>1. s.sym \in [Fqns -> Ids \cup {0}]
      BY <1>3 DEF IdMaps
    <2> HIDE DEF s, X
    <2> QED
      BY <1>4, <1>6, <2>1, WithSymbolsFacts
  <1>9. n \in IdMaps
    BY <1>4, <1>7, <1>8 DEF IdMaps
  <1>10. /\ files' = [files EXCEPT ![v] = Replace(F, FileRow(n, p))]
         /\ symbols' = [symbols EXCEPT ![v] = Replace(S, SymbolRowsOf(n, p, b))]
    BY DEF WriteRows, FileRow, SymbolRowsOf
  <1> DEFINE F2 == F \cup FileRow(n, p)
             S2 == S \cup SymbolRowsOf(n, p, b)
  <1>11. /\ F2 \in SUBSET FileRows /\ S2 \in SUBSET SymbolRows
         /\ Replace(F, FileRow(n, p)) = F2
         /\ Replace(S, SymbolRowsOf(n, p, b)) = S2
         /\ FilesFit(v, F2) /\ SymbolsFit(v, F2, S2)
         /\ MapFits(n, v, F2, S2)
         /\ Indexed(v, p, F2, S2)
    <2> HIDE DEF s, F, S
    <2> QED
      BY <1>1, <1>2, <1>3, <1>4, <1>9, IndexedRows DEF X
  <1>12. /\ files' \in [Versions -> SUBSET FileRows]
         /\ symbols' \in [Versions -> SUBSET SymbolRows]
         /\ files'[v] = F2 /\ symbols'[v] = S2
         /\ \A w \in Versions \ {v} : files'[w] = files[w] /\ symbols'[w] = symbols[w]
    <2> HIDE DEF F2, S2
    <2> QED
      BY <1>10, <1>11 DEF TypeOK
  <1>13. calls' \in [Versions -> SUBSET CallRows]
    <2> DEFINE C == {[file |-> n.file[p], caller |-> n.sym[<<p, u[1]>>],
                      callee |-> n.sym[<<Unresolved, u[2]>>]] : u \in Uses[b]}
    <2>1. C \subseteq CallRows
      <3>1. \A u \in Uses[b] :
              n.sym[<<p, u[1]>>] \in Ids /\ n.sym[<<Unresolved, u[2]>>] \in Ids
        BY <1>6, <1>8
      <3> SUFFICES ASSUME NEW u \in Uses[b]
                   PROVE  [file |-> n.file[p], caller |-> n.sym[<<p, u[1]>>],
                           callee |-> n.sym[<<Unresolved, u[2]>>]] \in CallRows
        OBVIOUS
      <3>2. /\ n.sym[<<p, u[1]>>] \in Ids
            /\ n.sym[<<Unresolved, u[2]>>] \in Ids
            /\ n.file[p] \in Ids
        BY <1>7, <3>1
      <3> QED
        BY <3>2, Zenon DEF CallRows
    <2>2. calls' = [calls EXCEPT ![v] = @ \cup C]
      BY DEF WriteRows
    <2> HIDE DEF C
    <2> QED
      BY <2>1, <2>2 DEF TypeOK
  <1>14. mat' \in [Versions -> SUBSET Paths]
    BY DEF WriteRows, TypeOK
  <1>15. RowsGrow
    BY <1>12 DEF RowsGrow
  <1>16. RowsOK'
    <2> SUFFICES ASSUME NEW w \in Versions
                 PROVE  FilesFit(w, files'[w]) /\ SymbolsFit(w, files'[w], symbols'[w])
      BY DEF RowsOK
    <2> HIDE DEF F2, S2
    <2>1. CASE w = v
      BY <1>11, <1>12, <2>1
    <2>2. CASE w # v
      BY <1>12, <2>2 DEF RowsOK
    <2> QED
      BY <2>1, <2>2
  <1> HIDE DEF F2, S2
  <1> QED
    BY <1>9, <1>11, <1>12, <1>13, <1>14, <1>15, <1>16

(* Base rows are reserved under fresh ids: nothing is replaced.            *)
LEMMA ReserveStep ==
  ASSUME TypeOK, RowsOK, NEW v \in Versions, NEW P \in SUBSET Paths,
         \A p \in P : InTree(v, p) /\ RowsOf(v, p) = {},
         NEW n \in NextAfter({r.id : r \in files[v]}), NEW f \in Numbered(P, n),
         files' = [files EXCEPT ![v] = @ \cup {[id |-> f[p], path |-> p] : p \in P}],
         symbols' = symbols
  PROVE  /\ files' \in [Versions -> SUBSET FileRows]
         /\ RowsGrow
         /\ RowsOK'
PROOF
  <1> DEFINE F == files[v]
             N == {[id |-> f[p], path |-> p] : p \in P}
  <1>1. F \in SUBSET FileRows /\ symbols[v] \in SUBSET SymbolRows
    BY DEF TypeOK
  <1>2. {r.id : r \in F} \in SUBSET Nat
    BY <1>1 DEF FileRows, Ids
  <1>3. n \in Ids /\ \A r \in F : r.id < n
    BY <1>2, NextAfterAbove
  <1>4. /\ f \in [P -> Ids]
        /\ \A p \in P : n <= f[p]
        /\ \A p, q \in P : f[p] = f[q] => p = q
    BY <1>3, FiniteNames, NumberedIds
  <1>5. /\ \A r \in N : r.path \in P /\ r.id = f[r.path] /\ r \in FileRows
        /\ \A r \in N, q \in F : q.id < r.id /\ q.path # r.path
    <2>1. \A r \in N : r.path \in P /\ r.id = f[r.path] /\ r \in FileRows
      BY <1>4 DEF FileRows
    <2>2. \A q \in F, p \in P : q.path # p
      BY DEF RowsOf
    <2>3. \A q \in F, p \in P : q.id < f[p]
      BY <1>1, <1>3, <1>4 DEF FileRows, Ids
    <2> HIDE DEF N
    <2> QED
      BY <2>1, <2>2, <2>3
  <1> HIDE DEF N
  <1>6. FilesFit(v, F \cup N)
    <2>1. \A r \in F : r.id \in Ids
      BY <1>1 DEF FileRows
    <2>2. \A r \in F : InTree(v, r.path)
      BY DEF RowsOK, FilesFit
    <2>3. \A r, q \in F : r.id = q.id <=> r.path = q.path
      BY DEF RowsOK, FilesFit
    <2>4. \A r, q \in N : r.id = q.id <=> r.path = q.path
      BY <1>4, <1>5
    <2>5. \A r \in N, q \in F : r.id # q.id
      BY <1>4, <1>5, <2>1 DEF Ids
    <2> QED
      BY <1>5, <2>2, <2>3, <2>4, <2>5 DEF FilesFit
  <1>7. SymbolsFit(v, F \cup N, symbols[v])
    BY DEF RowsOK, SymbolsFit
  <1>8. /\ files'[v] = F \cup N
        /\ \A w \in Versions \ {v} : files'[w] = files[w]
        /\ files' \in [Versions -> SUBSET FileRows]
    BY <1>5 DEF TypeOK, N
  <1>9. RowsGrow
    BY <1>8 DEF RowsGrow
  <1>10. RowsOK'
    <2> SUFFICES ASSUME NEW w \in Versions
                 PROVE  FilesFit(w, files'[w]) /\ SymbolsFit(w, files'[w], symbols[w])
      BY DEF RowsOK
    <2>1. CASE w = v
      BY <1>6, <1>7, <1>8, <2>1
    <2>2. CASE w # v
      BY <1>8, <2>2 DEF RowsOK
    <2> QED
      BY <2>1, <2>2
  <1> QED
    BY <1>8, <1>9, <1>10

(* What the growing tables leave true of tasks that do nothing.            *)
LEMMA OthersKeep ==
  ASSUME TypeOK, RowsGrow, NEW t \in Tasks
  PROVE  /\ \A m : MapFits(m, Head[t], files[Head[t]], symbols[Head[t]])
                     => MapFits(m, Head[t], files'[Head[t]], symbols'[Head[t]])
         /\ \A m : MapFits(m, Base[t], files[Base[t]], symbols[Base[t]])
                     => MapFits(m, Base[t], files'[Base[t]], symbols'[Base[t]])
         /\ \A p : Indexed(Head[t], p, files[Head[t]], symbols[Head[t]])
                     => Indexed(Head[t], p, files'[Head[t]], symbols'[Head[t]])
PROOF
  <1>1. Head[t] \in Versions /\ Base[t] \in Versions
    BY ConstantsAssumption
  <1>2. /\ files[Head[t]] \subseteq files'[Head[t]]
        /\ symbols[Head[t]] \subseteq symbols'[Head[t]]
        /\ files[Base[t]] \subseteq files'[Base[t]]
        /\ symbols[Base[t]] \subseteq symbols'[Base[t]]
    BY <1>1 DEF RowsGrow
  <1> QED
    BY <1>2, GrownFits

(* Overlays keep what they have of the head while tables grow.             *)
LEMMA OverlaidKeeps ==
  ASSUME Overlaid, RowsGrow,
         \A u \in Tasks : pc'[u] = "view" => pc[u] = "view" /\ overlay'[u] = overlay[u]
  PROVE  Overlaid'
PROOF
  <1> SUFFICES ASSUME NEW u \in Tasks, pc'[u] = "view",
                      NEW p \in Readable(Head[u], Diff[u]),
                      NEW d \in Defs[Tree[Head[u]][p]]
               PROVE  \E s \in symbols'[Head[u]], f \in files'[Head[u]] :
                        s \in overlay'[u].added /\ f.path = p
                          /\ s.file = f.id /\ s.name = d
    BY DEF Overlaid
  <1>1. pc[u] = "view" /\ overlay'[u] = overlay[u]
    OBVIOUS
  <1>2. PICK s \in symbols[Head[u]], f \in files[Head[u]] :
          s \in overlay[u].added /\ f.path = p /\ s.file = f.id /\ s.name = d
    BY <1>1 DEF Overlaid
  <1>3. s \in symbols'[Head[u]] /\ f \in files'[Head[u]]
    BY ConstantsAssumption DEF RowsGrow
  <1> QED
    BY <1>1, <1>2, <1>3

-----------------------------------------------------------------------------
(* Steps of the tasks.                                                     *)

(* No table changes: what is said of the tables alone stays true.          *)
LEMMA SameTables ==
  ASSUME UNCHANGED tables
  PROVE  /\ RowsGrow
         /\ RowsOK => RowsOK'
  BY DEF tables, RowsGrow, RowsOK

(* A run begins while no other task is beyond a wait.                      *)
LEMMA BeginKeeps ==
  ASSUME IInv, NEW t \in Tasks, Begin(t)
  PROVE  IInv' /\ RowsGrow
PROOF
  <1> DEFINE v == Base[t]
             P == {p \in Diff[t] : InTree(v, p) /\ RowsOf(v, p) = {}}
  <1>1. /\ TypeOK /\ OneRuns /\ RowsOK /\ MapsOK /\ Places /\ Done
        /\ v \in Versions /\ Head[t] \in Versions /\ Diff[t] \subseteq Paths
        /\ P \in SUBSET Paths
    BY ConstantsAssumption DEF IInv
  <1>2. PICK n \in NextAfter({r.id : r \in files[v]}) : \E f \in Numbered(P, n) :
          files' = [files EXCEPT ![v] = @ \cup {[id |-> f[p], path |-> p] : p \in P}]
    BY DEF Begin
  <1>3. PICK f \in Numbered(P, n) :
          files' = [files EXCEPT ![v] = @ \cup {[id |-> f[p], path |-> p] : p \in P}]
    BY <1>2
  <1>4. symbols' = symbols
    BY DEF Begin
  <1>5. /\ files' \in [Versions -> SUBSET FileRows]
        /\ RowsGrow
        /\ RowsOK'
    <2>1. \A p \in P : InTree(v, p) /\ RowsOf(v, p) = {}
      OBVIOUS
    <2> HIDE DEF P
    <2> QED
      BY <1>1, <1>3, <1>4, <2>1, ReserveStep
  <1>6. /\ pc[t] = "idle"
        /\ \A u \in Tasks \ {t} : pc[u] \in {"idle", "fetch"}
        /\ todo' = [todo EXCEPT ![t] = Live(t)]
        /\ pc' = [pc EXCEPT ![t] = IF Live(t) = {} THEN "overlay" ELSE "fetch"]
        /\ ctx' \in Versions
        /\ runs' = runs + 1 /\ runs < MaxRuns
        /\ UNCHANGED <<symbols, calls, mat, batch, headIx, baseIx, overlay>>
    BY <1>1 DEF Begin, HasLoop
  <1>7. /\ Live(t) \subseteq Diff[t]
        /\ Readable(Head[t], Diff[t]) \subseteq Live(t)
    BY DEF Live, Readable
  <1>8. TypeOK'
    BY <1>1, <1>5, <1>6, <1>7, ConstantsAssumption DEF TypeOK, Places
  <1>9. OneRuns' /\ ContextOfView' /\ Overlaid'
    BY <1>1, <1>6 DEF TypeOK, OneRuns, ContextOfView, Overlaid
  <1>10. MapsOK'
    BY <1>1, <1>5, <1>6, OthersKeep DEF MapsOK
  <1>11. Places'
    BY <1>1, <1>6 DEF TypeOK, Places
  <1>12. Done'
    <2> SUFFICES ASSUME NEW u \in Tasks, pc'[u] \notin {"idle", "view"},
                        NEW p \in Readable(Head[u], Diff[u]) \ (todo'[u] \cup batch'[u])
                 PROVE  Indexed(Head[u], p, files'[Head[u]], symbols'[Head[u]])
      BY DEF Done
    <2>1. CASE u = t
      BY <1>1, <1>6, <1>7, <2>1 DEF TypeOK
    <2>2. CASE u # t
      BY <1>1, <1>5, <1>6, <2>2, OthersKeep DEF TypeOK, Done
    <2> QED
      BY <2>1, <2>2
  <1> QED
    BY <1>5, <1>8, <1>9, <1>10, <1>11, <1>12 DEF IInv

(* A batch arrives: what is readable of it is to be indexed.               *)
LEMMA FetchKeeps ==
  ASSUME IInv, NEW t \in Tasks, Fetch(t)
  PROVE  IInv' /\ RowsGrow
PROOF
  <1>1. /\ TypeOK /\ OneRuns /\ RowsOK /\ MapsOK /\ Places /\ Done
        /\ Diff[t] \subseteq Paths
    BY ConstantsAssumption DEF IInv
  <1>2. PICK S \in SUBSET todo[t] :
          /\ batch' = [batch EXCEPT ![t] = Readable(Head[t], S)]
          /\ todo' = [todo EXCEPT ![t] = @ \ S]
    BY DEF Fetch
  <1>3. /\ pc[t] = "fetch"
        /\ \A u \in Tasks \ {t} : pc[u] \in {"idle", "fetch"}
        /\ pc' = [pc EXCEPT ![t] = "index"]
        /\ UNCHANGED <<ctx, headIx, baseIx, overlay, runs>>
        /\ UNCHANGED tables
    BY DEF Fetch, HasLoop
  <1>4. RowsGrow /\ RowsOK'
    BY <1>1, <1>3, SameTables
  <1>5. TypeOK'
    <2>1. Readable(Head[t], S) \subseteq S
      BY DEF Readable
    <2> QED
      BY <1>1, <1>2, <1>3, <2>1 DEF TypeOK, tables
  <1>6. OneRuns' /\ ContextOfView' /\ Overlaid'
    BY <1>1, <1>3 DEF TypeOK, OneRuns, ContextOfView, Overlaid
  <1>7. MapsOK'
    BY <1>1, <1>3 DEF MapsOK, tables
  <1>8. Places'
    <2>1. S \subseteq Diff[t]
      BY <1>1 DEF TypeOK
    <2>2. Readable(Head[t], S) \subseteq Readable(Head[t], Diff[t])
      BY <2>1 DEF Readable
    <2> QED
      BY <1>1, <1>2, <1>3, <2>2 DEF TypeOK, Places
  <1>9. Done'
    <2> SUFFICES ASSUME NEW u \in Tasks, pc'[u] \notin {"idle", "view"},
                        NEW p \in Readable(Head[u], Diff[u]) \ (todo'[u] \cup batch'[u])
                 PROVE  Indexed(Head[u], p, files[Head[u]], symbols[Head[u]])
      BY <1>3 DEF Done, tables
    <2>1. CASE u = t
      <3>1. p \notin S
        BY <1>1, <1>2, <2>1 DEF TypeOK, Readable
      <3>2. p \notin todo[t] /\ p \notin batch[t]
        BY <1>1, <1>2, <1>3, <2>1, <3>1 DEF TypeOK, Places
      <3> QED
        BY <1>1, <1>3, <2>1, <3>2 DEF Done
    <2>2. CASE u # t
      BY <1>1, <1>2, <1>3, <2>2 DEF TypeOK, Done
    <2> QED
      BY <2>1, <2>2
  <1> QED
    BY <1>4, <1>5, <1>6, <1>7, <1>8, <1>9 DEF IInv

(* A run is abandoned with an empty batch.                                 *)
LEMMA FetchFailsKeeps ==
  ASSUME IInv, NEW t \in Tasks, FetchFails(t)
  PROVE  IInv' /\ RowsGrow
PROOF
  <1>1. /\ TypeOK /\ OneRuns /\ RowsOK /\ MapsOK /\ Places /\ Done
        /\ Base[t] \in Versions
    BY ConstantsAssumption DEF IInv
  <1>2. /\ pc[t] = "fetch"
        /\ \A u \in Tasks \ {t} : pc[u] \in {"idle", "fetch"}
        /\ ctx' = Base[t]
        /\ pc' = [pc EXCEPT ![t] = "idle"]
        /\ todo' = [todo EXCEPT ![t] = {}]
        /\ headIx' = [headIx EXCEPT ![t] = NoIds]
        /\ UNCHANGED <<batch, baseIx, overlay, runs>>
        /\ UNCHANGED tables
    BY DEF FetchFails, HasLoop
  <1>3. RowsGrow /\ RowsOK'
    BY <1>1, <1>2, SameTables
  <1>4. TypeOK'
    <2>1. NoIds \in IdMaps
      BY DEF NoIds, IdMaps
    <2> QED
      BY <1>1, <1>2, <2>1 DEF TypeOK, tables
  <1>5. OneRuns' /\ ContextOfView' /\ Overlaid'
    BY <1>1, <1>2 DEF TypeOK, OneRuns, ContextOfView, Overlaid
  <1>6. MapsOK'
    <2>1. \A v \in Versions : \A F, S : MapFits(NoIds, v, F, S)
      BY DEF NoIds, MapFits, Fqns
    <2>2. \A u \in Tasks : /\ headIx'[u] = headIx[u] \/ headIx'[u] = NoIds
                           /\ baseIx'[u] = baseIx[u] \/ baseIx'[u] = NoIds
      BY <1>1, <1>2 DEF TypeOK
    <2>3. files' = files /\ symbols' = symbols
      BY <1>2 DEF tables
    <2> SUFFICES ASSUME NEW u \in Tasks
                 PROVE  /\ MapFits(headIx'[u], Head[u], files[Head[u]], symbols[Head[u]])
                        /\ MapFits(baseIx'[u], Base[u], files[Base[u]], symbols[Base[u]])
      BY <2>3 DEF MapsOK
    <2>4. Head[u] \in Versions /\ Base[u] \in Versions
      BY ConstantsAssumption
    <2> QED
      BY <1>1, <2>1, <2>2, <2>4 DEF MapsOK
  <1>7. Places'
    BY <1>1, <1>2 DEF TypeOK, Places
  <1>8. Done'
    BY <1>1, <1>2 DEF TypeOK, Done, tables
  <1> QED
    BY <1>3, <1>4, <1>5, <1>6, <1>7, <1>8 DEF IInv

(* The indexer of the head writes a file into the version it was bound to. *)
LEMMA IndexHeadKeeps ==
  ASSUME IInv, NEW t \in Tasks, IndexHead(t)
  PROVE  IInv' /\ RowsGrow
PROOF
  <1> DEFINE v == Head[t]
  <1>1. /\ TypeOK /\ OneRuns /\ ContextOfView /\ RowsOK /\ MapsOK /\ Places
        /\ Done /\ Overlaid
        /\ v \in Versions /\ Diff[t] \subseteq Paths
    BY ConstantsAssumption DEF IInv
  <1>2. PICK p \in batch[t] :
          /\ \E n \in IndexMaps(headIx[t], v, p, Tree[v][p]) :
               /\ WriteRows(n, v, p, Tree[v][p])
               /\ headIx' = [headIx EXCEPT ![t] = n]
          /\ batch' = [batch EXCEPT ![t] = @ \ {p}]
    BY DEF IndexHead, SinkVersion
  <1>3. PICK n \in IndexMaps(headIx[t], v, p, Tree[v][p]) :
          /\ WriteRows(n, v, p, Tree[v][p])
          /\ headIx' = [headIx EXCEPT ![t] = n]
    BY <1>2
  <1>4. pc[t] = "index" /\ UNCHANGED <<ctx, pc, todo, baseIx, overlay, runs>>
    BY DEF IndexHead
  <1>5. p \in Paths /\ InTree(v, p)
    BY <1>1 DEF Places, Readable
  <1>6. headIx[t] \in IdMaps /\ MapFits(headIx[t], v, files[v], symbols[v])
    BY <1>1 DEF TypeOK, MapsOK
  <1>7. /\ n \in IdMaps
        /\ files' \in [Versions -> SUBSET FileRows]
        /\ symbols' \in [Versions -> SUBSET SymbolRows]
        /\ calls' \in [Versions -> SUBSET CallRows]
        /\ mat' \in [Versions -> SUBSET Paths]
        /\ RowsGrow
        /\ RowsOK'
        /\ MapFits(n, v, files'[v], symbols'[v])
        /\ Indexed(v, p, files'[v], symbols'[v])
    <2> HIDE DEF v
    <2> QED
      BY <1>1, <1>3, <1>5, <1>6, IndexStep
  <1>8. TypeOK'
    BY <1>1, <1>2, <1>3, <1>4, <1>7 DEF TypeOK
  <1>9. OneRuns' /\ ContextOfView'
    BY <1>1, <1>4 DEF OneRuns, ContextOfView
  <1>10. Overlaid'
    BY <1>1, <1>4, <1>7, OverlaidKeeps
  <1>11. MapsOK'
    <2> SUFFICES ASSUME NEW u \in Tasks
                 PROVE  /\ MapFits(headIx'[u], Head[u], files'[Head[u]], symbols'[Head[u]])
                        /\ MapFits(baseIx[u], Base[u], files'[Base[u]], symbols'[Base[u]])
      BY <1>4 DEF MapsOK
    <2>1. MapFits(baseIx[u], Base[u], files'[Base[u]], symbols'[Base[u]])
      BY <1>1, <1>7, OthersKeep DEF MapsOK
    <2>2. CASE u = t
      BY <1>1, <1>3, <1>7, <2>1, <2>2 DEF TypeOK
    <2>3. CASE u # t
      <3>1. headIx'[u] = headIx[u]
        BY <1>1, <1>3, <2>3 DEF TypeOK
      <3> QED
        BY <1>1, <1>7, <2>1, <3>1, OthersKeep DEF MapsOK
    <2> QED
      BY <2>2, <2>3
  <1>12. Places'
    BY <1>1, <1>2, <1>4 DEF TypeOK, Places
  <1>13. Done'
    <2> SUFFICES ASSUME NEW u \in Tasks, pc[u] \notin {"idle", "view"},
                        NEW q \in Readable(Head[u], Diff[u]) \ (todo[u] \cup batch'[u])
                 PROVE  Indexed(Head[u], q, files'[Head[u]], symbols'[Head[u]])
      BY <1>4 DEF Done
    <2>1. CASE u = t /\ q = p
      BY <1>7, <2>1
    <2>2. CASE ~ (u = t /\ q = p)
      <3>1. q \notin batch[u]
        BY <1>1, <1>2, <2>2 DEF TypeOK
      <3>2. Indexed(Head[u], q, files[Head[u]], symbols[Head[u]])
        BY <1>1, <3>1 DEF Done
      <3> QED
        BY <1>1, <1>7, <3>2, OthersKeep
    <2> QED
      BY <2>1, <2>2
  <1> QED
    BY <1>7, <1>8, <1>9, <1>10, <1>11, <1>12, <1>13 DEF IInv

(* A batch is done.                                                        *)
LEMMA NextBatchKeeps ==
  ASSUME IInv, NEW t \in Tasks, NextBatch(t)
  PROVE  IInv' /\ RowsGrow
PROOF
  <1>1. TypeOK /\ OneRuns /\ ContextOfView /\ RowsOK /\ MapsOK /\ Places /\ Done /\ Overlaid
    BY DEF IInv
  <1>2. /\ pc[t] = "index" /\ batch[t] = {}
        /\ pc' = [pc EXCEPT ![t] = IF todo[t] = {} THEN "overlay" ELSE "fetch"]
        /\ UNCHANGED <<ctx, todo, batch, headIx, baseIx, overlay, runs>>
        /\ UNCHANGED tables
    BY DEF NextBatch
  <1>3. RowsGrow /\ RowsOK'
    BY <1>1, <1>2, SameTables
  <1>4. TypeOK'
    BY <1>1, <1>2 DEF TypeOK, tables
  <1>5. OneRuns' /\ ContextOfView'
    BY <1>1, <1>2 DEF TypeOK, OneRuns, ContextOfView
  <1>6. MapsOK'
    BY <1>1, <1>2 DEF MapsOK, tables
  <1>7. Overlaid'
    <2>1. \A u \in Tasks :
            pc'[u] = "view" => pc[u] = "view" /\ overlay'[u] = overlay[u]
      BY <1>1, <1>2 DEF TypeOK
    <2> QED
      BY <1>1, <1>3, <2>1, OverlaidKeeps
  <1>8. Places'
    BY <1>1, <1>2 DEF TypeOK, Places
  <1>9. Done'
    BY <1>1, <1>2 DEF TypeOK, Done, tables
  <1> QED
    BY <1>3, <1>4, <1>5, <1>6, <1>7, <1>8, <1>9 DEF IInv

(* The overlay takes all rows of the head version, among them those of     *)
(* every readable changed file; the store is left in the base context.     *)
LEMMA BuildOverlayKeeps ==
  ASSUME IInv, NEW t \in Tasks, BuildOverlay(t)
  PROVE  IInv' /\ RowsGrow
PROOF
  <1> DEFINE o == overlay'[t]
  <1>1. /\ TypeOK /\ OneRuns /\ ContextOfView /\ RowsOK /\ MapsOK /\ Places
        /\ Done /\ Overlaid
        /\ Base[t] \in Versions /\ Head[t] \in Versions
    BY ConstantsAssumption DEF IInv
  <1>2. /\ pc[t] = "overlay"
        /\ pc' = [pc EXCEPT ![t] = "view"]
        /\ ctx' = Base[t]
        /\ UNCHANGED <<todo, batch, headIx, baseIx, runs>>
        /\ UNCHANGED tables
    BY DEF BuildOverlay, ViewContext
  <1>3. ctx \in Versions
    BY <1>1, <1>2 DEF Places
  <1>4. RowsGrow /\ RowsOK'
    BY <1>1, <1>2, SameTables
  <1>5. /\ overlay' = [overlay EXCEPT ![t] = o]
        /\ o \in Overlays
        /\ o.added = symbols[Head[t]]
    <2> DEFINE gone == RowIds(ctx, {p \in Diff[t] : InTree(Base[t], p)})
               removed == {s.id : s \in {r \in symbols[ctx] : r.file \in gone}}
    <2>1. gone \subseteq Ids /\ removed \subseteq Ids
      BY <1>1, <1>3 DEF RowIds, TypeOK, FileRows, SymbolRows
    <2> HIDE DEF gone, removed
    <2>2. overlay' = [overlay EXCEPT ![t] =
            [added |-> symbols[Head[t]], calls |-> calls[Head[t]], gone |-> gone,
             removed |-> removed]]
      BY DEF BuildOverlay, OverlayVersion, gone, removed
    <2>3. o = [added |-> symbols[Head[t]], calls |-> calls[Head[t]], gone |-> gone,
               removed |-> removed]
      BY <1>1, <2>2 DEF TypeOK
    <2>4. symbols[Head[t]] \subseteq SymbolRows /\ calls[Head[t]] \subseteq CallRows
      BY <1>1 DEF TypeOK
    <2> HIDE DEF o
    <2>5. o \in Overlays
      BY <2>1, <2>3, <2>4 DEF Overlays
    <2> QED
      BY <2>2, <2>3, <2>5
  <1> HIDE DEF o
  <1>6. TypeOK'
    BY <1>1, <1>2, <1>5 DEF TypeOK, tables
  <1>7. OneRuns' /\ ContextOfView'
    BY <1>1, <1>2 DEF TypeOK, OneRuns, ContextOfView
  <1>8. MapsOK'
    BY <1>1, <1>2 DEF MapsOK, tables
  <1>9. Places'
    BY <1>1, <1>2 DEF TypeOK, Places
  <1>10. Done'
    BY <1>1, <1>2 DEF TypeOK, Done, tables
  <1>11. Overlaid'
    <2> SUFFICES ASSUME NEW u \in Tasks, pc'[u] = "view",
                        NEW p \in Readable(Head[u], Diff[u]),
                        NEW d \in Defs[Tree[Head[u]][p]]
                 PROVE  \E s \in symbols[Head[u]], f \in files[Head[u]] :
                          s \in overlay'[u].added /\ f.path = p
                            /\ s.file = f.id /\ s.name = d
      BY <1>2 DEF Overlaid, tables
    <2>1. CASE u = t
      <3>1. Indexed(Head[t], p, files[Head[t]], symbols[Head[t]])
        BY <1>1, <1>2, <2>1 DEF Places, Done
      <3> QED
        BY <1>5, <2>1, <3>1 DEF Indexed, IsSymbol, o
    <2>2. CASE u # t
      <3>1. pc[u] = "view" /\ overlay'[u] = overlay[u]
        BY <1>1, <1>2, <1>5, <2>2 DEF TypeOK
      <3> QED
        BY <1>1, <3>1 DEF Overlaid
    <2> QED
      BY <2>1, <2>2
  <1> QED
    BY <1>4, <1>6, <1>7, <1>8, <1>9, <1>10, <1>11 DEF IInv

(* A query of a view indexes a file of the base.                           *)
LEMMA IndexBaseKeeps ==
  ASSUME IInv, NEW t \in Tasks, NEW p \in Paths, IndexBase(t, p)
  PROVE  IInv' /\ RowsGrow
PROOF
  <1> DEFINE v == Base[t]
  <1>1. /\ TypeOK /\ OneRuns /\ ContextOfView /\ RowsOK /\ MapsOK /\ Places
        /\ Done /\ Overlaid
        /\ v \in Versions
    BY ConstantsAssumption DEF IInv
  <1>2. PICK n \in IndexMaps(baseIx[t], v, p, Tree[v][p]) :
          /\ WriteRows(n, v, p, Tree[v][p])
          /\ baseIx' = [baseIx EXCEPT ![t] = n]
    BY DEF IndexBase
  <1>3. /\ pc[t] = "view" /\ ctx' = v
        /\ UNCHANGED <<pc, todo, batch, headIx, overlay, runs>>
        /\ InTree(v, p)
    BY DEF IndexBase, Readable
  <1>4. baseIx[t] \in IdMaps /\ MapFits(baseIx[t], v, files[v], symbols[v])
    BY <1>1 DEF TypeOK, MapsOK
  <1>5. /\ n \in IdMaps
        /\ files' \in [Versions -> SUBSET FileRows]
        /\ symbols' \in [Versions -> SUBSET SymbolRows]
        /\ calls' \in [Versions -> SUBSET CallRows]
        /\ mat' \in [Versions -> SUBSET Paths]
        /\ RowsGrow
        /\ RowsOK'
        /\ MapFits(n, v, files'[v], symbols'[v])
    <2> HIDE DEF v
    <2> QED
      BY <1>1, <1>2, <1>3, <1>4, IndexStep
  <1>6. TypeOK'
    BY <1>1, <1>2, <1>3, <1>5 DEF TypeOK
  <1>7. OneRuns'
    BY <1>1, <1>3 DEF OneRuns
  <1>8. ContextOfView'
    BY <1>1, <1>3 DEF OneRuns, ContextOfView
  <1>9. Overlaid'
    BY <1>1, <1>3, <1>5, OverlaidKeeps
  <1>10. MapsOK'
    <2> SUFFICES ASSUME NEW u \in Tasks
                 PROVE  /\ MapFits(headIx[u], Head[u], files'[Head[u]], symbols'[Head[u]])
                        /\ MapFits(baseIx'[u], Base[u], files'[Base[u]], symbols'[Base[u]])
      BY <1>3 DEF MapsOK
    <2>1. MapFits(headIx[u], Head[u], files'[Head[u]], symbols'[Head[u]])
      BY <1>1, <1>5, OthersKeep DEF MapsOK
    <2>2. CASE u = t
      BY <1>1, <1>2, <1>5, <2>1, <2>2 DEF TypeOK
    <2>3. CASE u # t
      <3>1. baseIx'[u] = baseIx[u]
        BY <1>1, <1>2, <2>3 DEF TypeOK
      <3> QED
        BY <1>1, <1>5, <2>1, <3>1, OthersKeep DEF MapsOK
    <2> QED
      BY <2>2, <2>3
  <1>11. Places'
    BY <1>1, <1>3 DEF Places
  <1>12. Done'
    BY <1>1, <1>3, <1>5, OthersKeep DEF Done
  <1> QED
    BY <1>5, <1>6, <1>7, <1>8, <1>9, <1>10, <1>11, <1>12 DEF IInv

(* The run is over.                                                        *)
LEMMA EndKeeps ==
  ASSUME IInv, NEW t \in Tasks, End(t)
  PROVE  IInv' /\ RowsGrow
PROOF
  <1>1. TypeOK /\ OneRuns /\ ContextOfView /\ RowsOK /\ MapsOK /\ Places /\ Done /\ Overlaid
    BY DEF IInv
  <1>2. /\ pc[t] = "view"
        /\ pc' = [pc EXCEPT ![t] = "idle"]
        /\ headIx' = [headIx EXCEPT ![t] = NoIds]
        /\ baseIx' = [baseIx EXCEPT ![t] = NoIds]
        /\ overlay' = [overlay EXCEPT ![t] = NoOverlay]
        /\ UNCHANGED <<ctx, todo, batch, runs>>
        /\ UNCHANGED tables
    BY DEF End
  <1>3. RowsGrow /\ RowsOK'
    BY <1>1, <1>2, SameTables
  <1>4. TypeOK'
    <2>1. NoIds \in IdMaps /\ NoOverlay \in Overlays
      BY DEF NoIds, IdMaps, NoOverlay, Overlays
    <2> QED
      BY <1>1, <1>2, <2>1 DEF TypeOK, tables
  <1>5. OneRuns' /\ ContextOfView'
    BY <1>1, <1>2 DEF TypeOK, OneRuns, ContextOfView
  <1>6. Overlaid'
    <2>1. \A u \in Tasks :
            pc'[u] = "view" => pc[u] = "view" /\ overlay'[u] = overlay[u]
      BY <1>1, <1>2 DEF TypeOK
    <2> QED
      BY <1>1, <1>3, <2>1, OverlaidKeeps
  <1>7. MapsOK'
    <2>1. \A v \in Versions : \A F, S : MapFits(NoIds, v, F, S)
      BY DEF NoIds, MapFits, Fqns
    <2>2. \A u \in Tasks : /\ headIx'[u] = headIx[u] \/ headIx'[u] = NoIds
                           /\ baseIx'[u] = baseIx[u] \/ baseIx'[u] = NoIds
      BY <1>1, <1>2 DEF TypeOK
    <2>3. files' = files /\ symbols' = symbols
      BY <1>2 DEF tables
    <2> SUFFICES ASSUME NEW u \in Tasks
                 PROVE  /\ MapFits(headIx'[u], Head[u], files[Head[u]], symbols[Head[u]])
                        /\ MapFits(baseIx'[u], Base[u], files[Base[u]], symbols[Base[u]])
      BY <2>3 DEF MapsOK
    <2>4. Head[u] \in Versions /\ Base[u] \in Versions
      BY ConstantsAssumption
    <2> QED
      BY <1>1, <2>1, <2>2, <2>4 DEF MapsOK
  <1>8. Places'
    BY <1>1, <1>2 DEF TypeOK, Places
  <1>9. Done'
    BY <1>1, <1>2 DEF TypeOK, Done, tables
  <1> QED
    BY <1>3, <1>4, <1>5, <1>6, <1>7, <1>8, <1>9 DEF IInv

-----------------------------------------------------------------------------
(* The inductive invariant.                                                *)

(* It holds at the start, where there is nothing.                          *)
LEMMA InvInit == Init => IInv
PROOF
  <1> SUFFICES ASSUME Init PROVE IInv
    OBVIOUS
  <1>1. NoIds \in IdMaps /\ NoOverlay \in Overlays
    BY DEF NoIds, IdMaps, NoOverlay, Overlays
  <1>2. TypeOK
    BY <1>1, ConstantsAssumption DEF Init, TypeOK
  <1>3. OneRuns /\ ContextOfView /\ Places /\ Done /\ Overlaid
    BY DEF Init, OneRuns, ContextOfView, Places, Done, Overlaid
  <1>4. RowsOK
    BY DEF Init, RowsOK, FilesFit, SymbolsFit
  <1>5. MapsOK
    <2>1. \A v \in Versions : \A F, S : MapFits(NoIds, v, F, S)
      BY DEF NoIds, MapFits, Fqns
    <2> QED
      BY <2>1, ConstantsAssumption DEF Init, MapsOK
  <1> QED
    BY <1>2, <1>3, <1>4, <1>5 DEF IInv

(* Every step keeps it, and no step takes a row from a table.              *)
LEMMA InvStep == IInv /\ [Next]_vars => IInv' /\ RowsGrow
PROOF
  <1> SUFFICES ASSUME IInv, [Next]_vars PROVE IInv' /\ RowsGrow
    OBVIOUS
  <1>1. ASSUME NEW t \in Tasks, Begin(t) PROVE IInv' /\ RowsGrow
    BY <1>1, BeginKeeps
  <1>2. ASSUME NEW t \in Tasks, Fetch(t) PROVE IInv' /\ RowsGrow
    BY <1>2, FetchKeeps
  <1>3. ASSUME NEW t \in Tasks, FetchFails(t) PROVE IInv' /\ RowsGrow
    BY <1>3, FetchFailsKeeps
  <1>4. ASSUME NEW t \in Tasks, IndexHead(t) PROVE IInv' /\ RowsGrow
    BY <1>4, IndexHeadKeeps
  <1>5. ASSUME NEW t \in Tasks, NextBatch(t) PROVE IInv' /\ RowsGrow
    BY <1>5, NextBatchKeeps
  <1>6. ASSUME NEW t \in Tasks, BuildOverlay(t) PROVE IInv' /\ RowsGrow
    BY <1>6, BuildOverlayKeeps
  <1>7. ASSUME NEW t \in Tasks, NEW p \in Paths, IndexBase(t, p) PROVE IInv' /\ RowsGrow
    BY <1>7, IndexBaseKeeps
  <1>8. ASSUME NEW t \in Tasks, End(t) PROVE IInv' /\ RowsGrow
    BY <1>8, EndKeeps
  <1>9. CASE UNCHANGED vars
    BY <1>9 DEF vars, tables, IInv, TypeOK, OneRuns, ContextOfView, RowsOK, MapsOK,
                Places, Done, Overlaid, RowsGrow
  <1> QED
    BY <1>1, <1>2, <1>3, <1>4, <1>5, <1>6, <1>7, <1>8, <1>9 DEF Next

(* The inductive invariant holds in every reachable state.                 *)
THEOREM Invariant == Spec => []IInv
  BY InvInit, InvStep, PTL DEF Spec

-----------------------------------------------------------------------------
(* The properties.                                                         *)

(* Tables, id maps, overlays and stages always have their types: no id of  *)
(* a row or of an overlay is ever missing or zero.                         *)
THEOREM TypeCorrect == Spec => []TypeOK
PROOF
  <1>1. IInv => TypeOK
    BY DEF IInv
  <1> QED
    BY <1>1, Invariant, PTL

(* While a view answers queries, the store it shares with every other run  *)
(* is in the context of its base commit (_lazy_compile_facts_and_view).    *)
THEOREM ContextOfViewHolds == Spec => []ContextOfView
PROOF
  <1>1. IInv => ContextOfView
    BY DEF IInv
  <1> QED
    BY <1>1, Invariant, PTL

(* Rows of a version are symbols of that commit's files, wherever the      *)
(* context of the store has been moved meanwhile (RepositoryIndexer).      *)
THEOREM RowsOfVersionHolds == Spec => []RowsOfVersion
PROOF
  <1>1. IInv => RowsOfVersion
    BY DEF IInv, RowsOK, SymbolsFit, DefinesAt, RowsOfVersion
  <1> QED
    BY <1>1, Invariant, PTL

(* The overlay of a view has every symbol of the readable changed files    *)
(* (RepositoryOverlay as the lazy path fills it).                          *)
THEOREM OverlayHasHeadHolds == Spec => []OverlayHasHead
PROOF
  <1>1. ASSUME IInv PROVE OverlayHasHead
    <2> SUFFICES ASSUME NEW t \in Tasks, pc[t] = "view",
                        NEW p \in Readable(Head[t], Diff[t]),
                        NEW d \in Defs[Tree[Head[t]][p]]
                 PROVE  \E s \in SymbolsOf(Head[t], <<p, d>>) : s \in overlay[t].added
      BY DEF OverlayHasHead
    <2>1. PICK s \in symbols[Head[t]], f \in files[Head[t]] :
            s \in overlay[t].added /\ f.path = p /\ s.file = f.id /\ s.name = d
      BY <1>1 DEF IInv, Overlaid
    <2> QED
      BY <2>1 DEF SymbolsOf, RowIds
  <1> QED
    BY <1>1, Invariant, PTL

(* No step of any task takes away or replaces a file row or a symbol row   *)
(* (INSERT OR REPLACE never replaces anything).                            *)
THEOREM RowsStayHolds == Spec => RowsStay
PROOF
  <1>1. IInv /\ [Next]_vars =>
          [\A v \in Versions :
             files[v] \subseteq files'[v] /\ symbols[v] \subseteq symbols'[v]]_tables
    BY InvStep DEF RowsGrow
  <1> QED
    BY <1>1, Invariant, PTL DEF Spec, RowsStay
=============================================================================
