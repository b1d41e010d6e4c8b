-------------------------- MODULE FactIndexProofs --------------------------
(***************************************************************************)
(* Theorems about FactIndex, for every value of its constants.             *)
(*                                                                         *)
(* The inductive invariant says three things of an indexer that is at      *)
(* work: what its program counter implies (WorkInv); that it is alone on   *)
(* its version (OneRun, where runs on a version do not overlap); and that  *)
(* its map of file ids fits the table (IdsInv): between calls it may be    *)
(* behind the table or hold ids no row has, but it never holds a row's id  *)
(* for another path, and within a call it knows every row.                 *)
(***************************************************************************)
EXTENDS FactIndex, FiniteSetTheorems, TLAPS

WorkInv ==
  \A i \in Indexers :
    /\ pc[i] = "off" <=> ver[i] = None
    /\ pc[i] = "off" => fmap[i] = NoFileIds
    /\ pc[i] \in {"hit", "miss", "record", "raised"} =>
         cur[i] \in Paths /\ Content[ver[i]][cur[i]] \in Blobs
    /\ pc[i] = "miss" => origin[i] = cur[i]

OneRun ==
  \A i, j \in Indexers : ver[i] = ver[j] /\ ver[i] # None => i = j

\* map m with counter n holds no id of a row in R for another path
Fits(m, n, R) ==
  /\ \A p \in Paths : m[p] < n
  /\ \A p, q \in Paths : m[p] = m[q] /\ m[p] # 0 => p = q
  /\ \A r \in R : \A p \in Paths : m[p] = r.id => p = r.path

\* map m holds the id of every row in R
Knows(m, R) == \A r \in R : m[r.path] = r.id

IdsInv ==
  \A i \in Indexers : ver[i] # None =>
    /\ Fits(fmap[i], fnext[i], files[ver[i]])
    /\ pc[i] # "idle" => Knows(fmap[i], files[ver[i]])

TypeInv == TypeOK /\ WorkInv

-----------------------------------------------------------------------------
(* get_or_create_file_id: the map keeps its type.                          *)
LEMMA AllocType ==
  ASSUME NEW m \in [Paths -> Ids \cup {0}], NEW n \in Nexts, NEW p \in Paths,
         NextId(m, n, p) \in Nexts
  PROVE  /\ WithId(m, n, p) \in [Paths -> Ids \cup {0}]
         /\ WithId(m, n, p)[p] \in Ids
  BY ConstantsAssumption DEF WithId, NextId, Nexts, Ids

(* The initial state has the types and holds no work.                      *)
LEMMA TypeInit == Init => TypeInv
  BY ConstantsAssumption
  DEF Init, TypeInv, TypeOK, WorkInv, NoRecord, Stages, NoFileIds, NoSymbolIds,
      Ids, Nexts

(* ... and no other indexer's map is touched.                              *)
LEMMA AllocateKeeps ==
  ASSUME TypeInv, NEW i \in Indexers, AllocateIds(i)
  PROVE  \A j \in Indexers : j # i => fmap'[j] = fmap[j] /\ fnext'[j] = fnext[j]
  BY DEF AllocateIds, TypeInv, TypeOK

(* Allocation keeps the types and gives an id to all that needs one.       *)
LEMMA AllocateType ==
  ASSUME TypeInv, NEW i \in Indexers, pc[i] \in {"hit", "miss"}, AllocateIds(i)
  PROVE  /\ fmap' \in [Indexers -> [Paths -> Ids \cup {0}]]
         /\ fnext' \in [Indexers -> Nexts]
         /\ smap' \in [Indexers -> [Fqns -> Ids \cup {0}]]
         /\ snext' \in [Indexers -> Nexts]
         /\ fmap'[i][cur[i]] \in Ids
         /\ origin[i] # None => fmap'[i][origin[i]] \in Ids
         /\ \A x \in Mentions(Blob(i), origin[i]) : smap'[i][x] \in Ids
PROOF
  <1> DEFINE o == origin[i]
             m == WithId(fmap[i], fnext[i], cur[i])
             n == NextId(fmap[i], fnext[i], cur[i])
             new == {x \in Mentions(Blob(i), o) : smap[i][x] = 0}
  <1>1. /\ cur[i] \in Paths
        /\ o \in Paths \cup {None}
        /\ fmap[i] \in [Paths -> Ids \cup {0}]
        /\ fnext[i] \in Nexts
    BY DEF TypeInv, TypeOK, WorkInv
  <1>2. /\ fmap' = [fmap EXCEPT ![i] = IF o = None THEN m ELSE WithId(m, n, o)]
        /\ fnext' = [fnext EXCEPT ![i] = IF o = None THEN n ELSE NextId(m, n, o)]
        /\ fnext'[i] \in Nexts
    BY DEF AllocateIds
  <1>3. fnext'[i] = IF o = None THEN n ELSE NextId(m, n, o)
    BY <1>2 DEF TypeInv, TypeOK
  <1>4. n \in Nexts
    BY <1>1, <1>2, <1>3, ConstantsAssumption DEF NextId, Nexts, Ids
  <1>5. m \in [Paths -> Ids \cup {0}] /\ m[cur[i]] \in Ids
    BY <1>1, <1>4, AllocType
  <1>6. ASSUME o # None
        PROVE  /\ WithId(m, n, o) \in [Paths -> Ids \cup {0}]
               /\ WithId(m, n, o)[o] \in Ids
               /\ WithId(m, n, o)[cur[i]] \in Ids
    <2>1. NextId(m, n, o) \in Nexts /\ o \in Paths
      BY <1>1, <1>2, <1>3, <1>6
    <2>2. WithId(m, n, o) \in [Paths -> Ids \cup {0}] /\ WithId(m, n, o)[o] \in Ids
      BY <1>4, <1>5, <2>1, AllocType
    <2>3. WithId(m, n, o)[cur[i]] \in Ids
      BY <1>1, <1>5, <2>1, <2>2 DEF WithId
    <2> QED BY <2>2, <2>3
  <1>7. PICK top \in Nexts :
          /\ snext' = [snext EXCEPT ![i] = top]
          /\ \E f \in Numberings(new, snext[i], top) :
               smap' = [smap EXCEPT ![i] =
                          [x \in Fqns |-> IF x \in new THEN f[x] ELSE smap[i][x]]]
    BY DEF AllocateIds
  <1>8. PICK f \in Numberings(new, snext[i], top) :
          smap' = [smap EXCEPT ![i] =
                     [x \in Fqns |-> IF x \in new THEN f[x] ELSE smap[i][x]]]
    BY <1>7
  <1>9. \A x \in new : f[x] \in Ids
    BY <1>8, ConstantsAssumption DEF Numberings, Injection, Nexts, Ids, TypeInv, TypeOK
  <1>10. Mentions(Blob(i), o) \subseteq Fqns
    <2>1. Blob(i) \in Blobs /\ Facts[Blob(i)] \in
             [defs : SUBSET Idents, uses : SUBSET (Idents \X Idents)]
      BY ConstantsAssumption DEF Blob, TypeInv, WorkInv
    <2> QED BY <1>1, <2>1 DEF Mentions, Fqns
  <1>11. \A x \in Mentions(Blob(i), o) : smap'[i][x] \in Ids
    BY <1>8, <1>9, <1>10 DEF TypeInv, TypeOK
  <1>12. smap' \in [Indexers -> [Fqns -> Ids \cup {0}]]
    BY <1>8, <1>9 DEF TypeInv, TypeOK
  <1>13. /\ fmap' \in [Indexers -> [Paths -> Ids \cup {0}]]
         /\ fmap'[i][cur[i]] \in Ids
         /\ o # None => fmap'[i][o] \in Ids
    BY <1>2, <1>5, <1>6 DEF TypeInv, TypeOK
  <1>14. fnext' \in [Indexers -> Nexts] /\ snext' \in [Indexers -> Nexts]
    BY <1>2, <1>3, <1>7 DEF TypeInv, TypeOK
  <1> QED BY <1>11, <1>12, <1>13, <1>14

(* The rows add_file and the facts add are rows of their tables.           *)
LEMMA WriteType ==
  ASSUME TypeInv, NEW i \in Indexers, pc[i] \in {"hit", "miss"},
         AllocateIds(i), WriteRows(i)
  PROVE  /\ files' \in [Versions -> SUBSET FileRows]
         /\ symbols' \in [Versions -> SUBSET SymbolRows]
         /\ calls' \in [Versions -> SUBSET CallRows]
PROOF
  <1> DEFINE o == origin[i]
             b == Blob(i)
             v == ver[i]
             fid == fmap'[i][cur[i]]
             defs == IF o = None THEN {} ELSE Facts[b].defs
             uses == IF o = None THEN {} ELSE Facts[b].uses
             F == {[id |-> fid, path |-> cur[i]]}
             S == {[id |-> smap'[i][<<o, d>>], name |-> d, file |-> fmap'[i][o]] : d \in defs}
             C == {[file |-> fid, caller |-> smap'[i][<<o, u[1]>>],
                    callee |-> smap'[i][<<Unresolved, u[2]>>], calleeName |-> u[2]] : u \in uses}
  <1>1. /\ cur[i] \in Paths
        /\ v \in Versions
        /\ Facts[b] \in [defs : SUBSET Idents, uses : SUBSET (Idents \X Idents)]
    BY ConstantsAssumption DEF Blob, TypeInv, TypeOK, WorkInv
  <1>2. /\ fid \in Ids
        /\ o # None => fmap'[i][o] \in Ids
        /\ \A x \in Mentions(b, o) : smap'[i][x] \in Ids
    BY AllocateType
  <1>3. /\ files' = [files EXCEPT ![v] = Replace(files[v], F)]
        /\ symbols' = [symbols EXCEPT ![v] = Replace(symbols[v], S)]
        /\ calls' = [calls EXCEPT ![v] = calls[v] \cup C]
    BY DEF WriteRows
  <1>4. F \subseteq FileRows
    BY <1>1, <1>2 DEF FileRows
  <1>5. S \subseteq SymbolRows
    <2>1. ASSUME NEW d \in defs PROVE <<o, d>> \in Mentions(b, o) /\ d \in Idents /\ o # None
      BY <1>1 DEF Mentions
    <2>2. ASSUME NEW d \in defs
          PROVE  [id |-> smap'[i][<<o, d>>], name |-> d, file |-> fmap'[i][o]] \in SymbolRows
      <3>1. smap'[i][<<o, d>>] \in Ids /\ d \in Idents /\ fmap'[i][o] \in Ids
        BY <1>2, <2>1
      <3> QED BY <3>1 DEF SymbolRows
    <2> QED BY <2>2
  <1>6. C \subseteq CallRows
    <2>1. ASSUME NEW u \in uses
          PROVE  /\ <<o, u[1]>> \in Mentions(b, o)
                 /\ <<Unresolved, u[2]>> \in Mentions(b, o)
                 /\ u[2] \in Idents
      BY <1>1 DEF Mentions
    <2>2. ASSUME NEW u \in uses
          PROVE  [file |-> fid, caller |-> smap'[i][<<o, u[1]>>],
                  callee |-> smap'[i][<<Unresolved, u[2]>>], calleeName |-> u[2]] \in CallRows
      <3>1. /\ smap'[i][<<o, u[1]>>] \in Ids
            /\ smap'[i][<<Unresolved, u[2]>>] \in Ids
            /\ u[2] \in Idents
        BY <1>2, <2>1
      <3> QED BY <1>2, <3>1 DEF CallRows
    <2> QED BY <2>2
  <1>7. /\ files[v] \subseteq FileRows
        /\ symbols[v] \subseteq SymbolRows
        /\ calls[v] \subseteq CallRows
    BY <1>1 DEF TypeInv, TypeOK
  <1> HIDE DEF F, S, C, v
  <1>8. files' \in [Versions -> SUBSET FileRows]
    BY <1>3, <1>4, <1>7 DEF Replace, TypeInv, TypeOK
  <1>9. symbols' \in [Versions -> SUBSET SymbolRows]
    BY <1>3, <1>5, <1>7 DEF Replace, TypeInv, TypeOK
  <1>10. calls' \in [Versions -> SUBSET CallRows]
    BY <1>3, <1>6, <1>7 DEF TypeInv, TypeOK
  <1> QED BY <1>8, <1>9, <1>10

(* Recording a status for the file at hand keeps the type of the records.  *)
LEMMA RecordType ==
  ASSUME TypeInv, NEW i \in Indexers, NEW s \in {"indexed", "failed"},
         pc[i] \in {"hit", "record", "raised"},
         mat' = [mat EXCEPT ![ver[i]][cur[i]] = [status |-> s, blob |-> Blob(i)]]
  PROVE  mat' \in [Versions -> [Paths -> Record \cup {NoRecord}]]
PROOF
  <1>1. Blob(i) \in Blobs
    BY DEF Blob, TypeInv, WorkInv
  <1>2. [status |-> s, blob |-> Blob(i)] \in Record
    BY <1>1 DEF Record
  <1> HIDE DEF Blob
  <1> QED BY <1>2 DEF TypeInv, TypeOK

(* Every step keeps the types and the bookkeeping of the work in hand.     *)
LEMMA TypeStep == TypeInv /\ [Next]_vars => TypeInv'
PROOF
  <1> SUFFICES ASSUME TypeInv, [Next]_vars PROVE TypeInv'
    OBVIOUS
  <1> USE ConstantsAssumption DEF TypeInv
  <1>1. ASSUME NEW h \in Hosts, OpenStore(h) PROVE TypeInv'
    <2>1. mat' \in [Versions -> [Paths -> Record \cup {NoRecord}]]
      BY <1>1 DEF OpenStore, TypeOK, Record, NoRecord
    <2> QED BY <1>1, <2>1 DEF OpenStore, TypeOK, WorkInv, maps, fileIds, symbolIds
  <1>2. ASSUME NEW h \in Hosts, Crash(h) PROVE TypeInv'
    BY <1>2 DEF Crash, TypeOK, WorkInv, db, NoFileIds, NoSymbolIds, Nexts, Ids, Stages
  <1>3. ASSUME NEW h \in Hosts, NEW v \in Versions, NEW S \in (SUBSET Paths) \ {{}},
               ReserveFileIds(h, v, S)
        PROVE  TypeInv'
    <2>1. PICK n \in Nexts, top \in Nexts :
            \E f \in Numberings(S, n, top) :
              files' = [files EXCEPT ![v] = @ \cup {[id |-> f[p], path |-> p] : p \in S}]
      BY <1>3 DEF ReserveFileIds
    <2>2. PICK f \in Numberings(S, n, top) :
            files' = [files EXCEPT ![v] = @ \cup {[id |-> f[p], path |-> p] : p \in S}]
      BY <2>1
    <2>3. \A p \in S : f[p] \in Ids
      BY <2>2 DEF Numberings, Injection, Nexts, Ids
    <2>4. {[id |-> f[p], path |-> p] : p \in S} \subseteq FileRows
      BY <2>3 DEF FileRows
    <2>5. files' \in [Versions -> SUBSET FileRows]
      BY <2>2, <2>4 DEF TypeOK
    <2> QED BY <1>3, <2>5 DEF ReserveFileIds, TypeOK, WorkInv, process, maps, fileIds, symbolIds
  <1>4. ASSUME NEW i \in Indexers, NEW v \in Versions, NewIndexer(i, v) PROVE TypeInv'
    BY <1>4 DEF NewIndexer, TypeOK, WorkInv, db, maps, fileIds, symbolIds, Stages
  <1>5. ASSUME NEW i \in Indexers, NEW p \in Paths, StartFile(i, p) PROVE TypeInv'
    BY <1>5 DEF StartFile, TypeOK, WorkInv, db, process, maps, fileIds, symbolIds, Stages
  <1>6. ASSUME NEW i \in Indexers, DropIndexer(i) PROVE TypeInv'
    BY <1>6 DEF DropIndexer, TypeOK, WorkInv, db, process, NoFileIds, NoSymbolIds,
                Nexts, Ids, Stages
  <1>7. ASSUME NEW i \in Indexers, BeginCall(i) PROVE TypeInv'
    <2>1. ver[i] \in Versions
      BY <1>7 DEF BeginCall, TypeOK, WorkInv
    <2>2. \A p \in Paths : HasRow(ver[i], p) => RowId(ver[i], p) \in Ids
      BY <2>1 DEF HasRow, RowId, TypeOK, FileRows
    <2>3. fmap' \in [Indexers -> [Paths -> Ids \cup {0}]]
      BY <1>7, <2>2 DEF BeginCall, TypeOK
    <2>4. \A x \in Fqns : Joined(ver[i], x[1], x[2]) # {} =>
            (CHOOSE s \in Joined(ver[i], x[1], x[2]) : TRUE).id \in Ids
      BY <2>1 DEF Joined, TypeOK, SymbolRows
    <2>5. smap' \in [Indexers -> [Fqns -> Ids \cup {0}]]
      <3> DEFINE id(x) == (CHOOSE s \in Joined(ver[i], x[1], x[2]) : TRUE).id
                 m == [x \in Fqns |-> IF Joined(ver[i], x[1], x[2]) # {}
                                      THEN id(x) ELSE smap[i][x]]
      <3>1. smap' = [smap EXCEPT ![i] = m]
        BY <1>7, Zenon DEF BeginCall
      <3> HIDE DEF id
      <3>2. m \in [Fqns -> Ids \cup {0}]
        <4>1. \A x \in Fqns : smap[i][x] \in Ids \cup {0}
          BY DEF TypeOK
        <4>2. \A x \in Fqns : Joined(ver[i], x[1], x[2]) # {} => id(x) \in Ids
          BY <2>4 DEF id
        <4> QED
          BY <4>1, <4>2
      <3> HIDE DEF m
      <3> QED
        BY <3>1, <3>2 DEF TypeOK
    <2>6. fnext' \in [Indexers -> Nexts] /\ snext' \in [Indexers -> Nexts]
      <3>1. /\ \E n \in Nexts : fnext' = [fnext EXCEPT ![i] = n]
            /\ \E n \in Nexts : snext' = [snext EXCEPT ![i] = n]
        BY <1>7, Zenon DEF BeginCall
      <3> QED
        BY <3>1 DEF TypeOK
    <2>7. /\ pc[i] = "idle" /\ pc' = [pc EXCEPT ![i] = "batch"]
          /\ fmap' = [fmap EXCEPT ![i] = fmap'[i]]
          /\ UNCHANGED <<files, symbols, calls, cache, mat, up, starts, runs, ver, cur, origin>>
      <3>1. \E m : fmap' = [fmap EXCEPT ![i] = m]
        BY <1>7, Zenon DEF BeginCall
      <3>2. fmap' = [fmap EXCEPT ![i] = fmap'[i]]
        BY <3>1 DEF TypeOK
      <3> QED
        BY <1>7, <3>2 DEF BeginCall, db, process
    <2> QED BY <2>3, <2>5, <2>6, <2>7 DEF TypeOK, WorkInv, Stages
  <1>8. ASSUME NEW i \in Indexers, IndexHit(i) PROVE TypeInv'
    <2>1. pc[i] = "hit" /\ AllocateIds(i) /\ WriteRows(i)
      BY <1>8 DEF IndexHit
    <2>2. mat' \in [Versions -> [Paths -> Record \cup {NoRecord}]]
      BY <1>8, RecordType DEF IndexHit
    <2>3. /\ fmap' \in [Indexers -> [Paths -> Ids \cup {0}]]
          /\ fnext' \in [Indexers -> Nexts]
          /\ smap' \in [Indexers -> [Fqns -> Ids \cup {0}]]
          /\ snext' \in [Indexers -> Nexts]
      BY <2>1, AllocateType
    <2>4. /\ files' \in [Versions -> SUBSET FileRows]
          /\ symbols' \in [Versions -> SUBSET SymbolRows]
          /\ calls' \in [Versions -> SUBSET CallRows]
      BY <2>1, WriteType
    <2>5. TypeOK'
      BY <1>8, <2>2, <2>3, <2>4 DEF IndexHit, TypeOK, process, Stages
    <2>6. WorkInv'
      BY <1>8, AllocateKeeps DEF IndexHit, TypeOK, WorkInv
    <2> QED BY <2>5, <2>6
  <1>9. ASSUME NEW i \in Indexers, IndexMiss(i) PROVE TypeInv'
    <2>1. pc[i] = "miss" /\ AllocateIds(i) /\ WriteRows(i)
      BY <1>9 DEF IndexMiss
    <2>2. cache' \in [Blobs -> Paths \cup {None}]
      BY <1>9 DEF IndexMiss, TypeOK, WorkInv, Blob
    <2>3. /\ fmap' \in [Indexers -> [Paths -> Ids \cup {0}]]
          /\ fnext' \in [Indexers -> Nexts]
          /\ smap' \in [Indexers -> [Fqns -> Ids \cup {0}]]
          /\ snext' \in [Indexers -> Nexts]
      BY <2>1, AllocateType
    <2>4. /\ files' \in [Versions -> SUBSET FileRows]
          /\ symbols' \in [Versions -> SUBSET SymbolRows]
          /\ calls' \in [Versions -> SUBSET CallRows]
      BY <2>1, WriteType
    <2>5. TypeOK'
      BY <1>9, <2>2, <2>3, <2>4 DEF IndexMiss, TypeOK, process, Stages
    <2>6. WorkInv'
      BY <1>9, AllocateKeeps DEF IndexMiss, TypeOK, WorkInv
    <2> QED BY <2>5, <2>6
  <1>10. ASSUME NEW i \in Indexers, IndexMissUnsaved(i) PROVE TypeInv'
    <2>1. pc[i] = "miss" /\ AllocateIds(i)
      BY <1>10 DEF IndexMissUnsaved
    <2>2. /\ fmap' \in [Indexers -> [Paths -> Ids \cup {0}]]
          /\ fnext' \in [Indexers -> Nexts]
          /\ smap' \in [Indexers -> [Fqns -> Ids \cup {0}]]
          /\ snext' \in [Indexers -> Nexts]
      BY <2>1, AllocateType
    <2>3. TypeOK'
      BY <1>10, <2>2 DEF IndexMissUnsaved, TypeOK, db, process, Stages
    <2>4. WorkInv'
      BY <1>10, AllocateKeeps DEF IndexMissUnsaved, TypeOK, WorkInv
    <2> QED BY <2>3, <2>4
  <1>11. ASSUME NEW i \in Indexers, RecordIndexed(i) PROVE TypeInv'
    <2>1. mat' \in [Versions -> [Paths -> Record \cup {NoRecord}]]
      BY <1>11, RecordType DEF RecordIndexed
    <2> QED BY <1>11, <2>1 DEF RecordIndexed, TypeOK, WorkInv, process, maps,
                               fileIds, symbolIds, Stages
  <1>12. ASSUME NEW i \in Indexers, Raise(i) PROVE TypeInv'
    <2>1. /\ cur[i] \in Paths
          /\ fmap[i] \in [Paths -> Ids \cup {0}]
          /\ fnext[i] \in Nexts
          /\ NextId(fmap[i], fnext[i], cur[i]) \in Nexts
      BY <1>12 DEF Raise, TypeOK, WorkInv
    <2>2. WithId(fmap[i], fnext[i], cur[i]) \in [Paths -> Ids \cup {0}]
      BY <2>1, AllocType
    <2>3. pc[i] \in {"hit", "miss", "record"} /\ pc' = [pc EXCEPT ![i] = "raised"]
      BY <1>12 DEF Raise
    <2> QED BY <1>12, <2>1, <2>2, <2>3 DEF Raise, TypeOK, WorkInv, db, process,
                                      symbolIds, Stages
  <1>13. ASSUME NEW i \in Indexers, RecordFailed(i) PROVE TypeInv'
    <2>1. mat' \in [Versions -> [Paths -> Record \cup {NoRecord}]]
      BY <1>13, RecordType DEF RecordFailed, TypeOK
    <2> QED BY <1>13, <2>1 DEF RecordFailed, TypeOK, WorkInv, process, maps,
                               fileIds, symbolIds, Stages
  <1>14. ASSUME NEW i \in Indexers, EndCall(i) PROVE TypeInv'
    BY <1>14 DEF EndCall, TypeOK, WorkInv, db, process, maps, fileIds, symbolIds, Stages
  <1>15. CASE UNCHANGED vars
    BY <1>15 DEF vars, db, process, maps, fileIds, symbolIds, TypeOK, WorkInv
  <1> QED
    BY <1>1, <1>2, <1>3, <1>4, <1>5, <1>6, <1>7, <1>8, <1>9, <1>10, <1>11, <1>12,
       <1>13, <1>14, <1>15 DEF Next

(* The tables and the indexers keep their types in every reachable state,  *)
(* whatever fails, however runs overlap.                                   *)
THEOREM TypeCorrect == Spec => []TypeOK
PROOF
  <1>1. TypeInv => TypeOK
    BY DEF TypeInv
  <1> QED BY TypeInit, TypeStep, <1>1, PTL DEF Spec

-----------------------------------------------------------------------------
(* The ids of files, where runs on a version do not overlap.               *)

IInv == TypeInv /\ OneRun /\ OneIdPerPath /\ IdsInv

(* get_or_create_file_id on a map that knows the table keeps it so.        *)
LEMMA AllocFits ==
  ASSUME NEW m \in [Paths -> Ids \cup {0}], NEW n \in Nexts, NEW p \in Paths,
         NEW R \in SUBSET FileRows, Fits(m, n, R), Knows(m, R)
  PROVE  /\ Fits(WithId(m, n, p), NextId(m, n, p), R)
         /\ Knows(WithId(m, n, p), R)
         /\ \A q \in Paths : m[q] # 0 => WithId(m, n, p)[q] = m[q]
PROOF
  <1>1. CASE m[p] # 0
    BY <1>1 DEF WithId, NextId
  <1>2. CASE m[p] = 0
    <2> DEFINE w == [m EXCEPT ![p] = n]
    <2>1. WithId(m, n, p) = w /\ NextId(m, n, p) = n + 1
      BY <1>2 DEF WithId, NextId
    <2>2. w[p] = n /\ \A q \in Paths : q # p => w[q] = m[q]
      OBVIOUS
    <2>3. \A r \in R : r.id \in Ids /\ r.path \in Paths /\ r.path # p /\ r.id < n
      BY <1>2, ConstantsAssumption DEF FileRows, Knows, Fits, Ids
    <2>4. \A q \in Paths : m[q] < n /\ m[q] \in Nat
      BY ConstantsAssumption DEF Fits, Ids
    <2> HIDE DEF w
    <2>5. \A q \in Paths : w[q] < n + 1
      BY <2>2, <2>4, ConstantsAssumption DEF Nexts
    <2>6. \A q, t \in Paths : w[q] = w[t] /\ w[q] # 0 => q = t
      BY <2>2, <2>4, ConstantsAssumption DEF Fits, Nexts
    <2>7. \A r \in R : \A q \in Paths : w[q] = r.id => q = r.path
      BY <2>2, <2>3, ConstantsAssumption DEF Fits, Nexts, Ids
    <2>8. Knows(w, R)
      BY <2>2, <2>3 DEF Knows
    <2>9. \A q \in Paths : m[q] # 0 => w[q] = m[q]
      BY <1>2, <2>2
    <2> QED BY <2>1, <2>5, <2>6, <2>7, <2>8, <2>9 DEF Fits
  <1> QED BY <1>1, <1>2

(* A map that fits and knows a table shows it to be one to one.            *)
LEMMA KnownIsOneToOne ==
  ASSUME NEW m, NEW n, NEW R \in SUBSET FileRows, Fits(m, n, R), Knows(m, R)
  PROVE  \A r, s \in R : r.path = s.path <=> r.id = s.id
  BY DEF Fits, Knows, FileRows

(* add_file with an id from such a map replaces no row but an equal one.   *)
LEMMA AddFits ==
  ASSUME NEW m \in [Paths -> Ids \cup {0}], NEW n \in Nexts, NEW p \in Paths,
         NEW R \in SUBSET FileRows, Fits(m, n, R), Knows(m, R), m[p] \in Ids
  PROVE  LET row == [id |-> m[p], path |-> p] IN
         /\ Replace(R, {row}) = R \cup {row}
         /\ Fits(m, n, R \cup {row})
         /\ Knows(m, R \cup {row})
PROOF
  <1> DEFINE row == [id |-> m[p], path |-> p]
  <1>1. row.id = m[p] /\ row.path = p /\ m[p] # 0
    BY ConstantsAssumption DEF Ids
  <1>2. \A r \in R : r.id = row.id => r = row
    BY <1>1 DEF Fits, FileRows
  <1>3. Replace(R, {row}) = R \cup {row}
    BY <1>2 DEF Replace
  <1>4. Fits(m, n, R \cup {row})
    BY <1>1 DEF Fits
  <1>5. Knows(m, R \cup {row})
    BY <1>1 DEF Knows
  <1> QED BY <1>3, <1>4, <1>5

(* _sync_mappings_from_sink leaves a map that fits and knows the table.    *)
LEMMA SyncFits ==
  ASSUME IInv, NEW i \in Indexers, BeginCall(i)
  PROVE  /\ Fits(fmap'[i], fnext'[i], files[ver[i]])
         /\ Knows(fmap'[i], files[ver[i]])
PROOF
  <1> DEFINE v == ver[i]
             m == fmap[i]
             w == [p \in Paths |-> IF HasRow(v, p) THEN RowId(v, p) ELSE m[p]]
             R == files[v]
  <1> USE ConstantsAssumption
  <1>1. v \in Versions /\ v # None
    BY DEF BeginCall, IInv, TypeInv, TypeOK, WorkInv
  <1>2. R \in SUBSET FileRows /\ m \in [Paths -> Ids \cup {0}] /\ fnext[i] \in Nexts
    BY <1>1 DEF IInv, TypeInv, TypeOK
  <1>3. Fits(m, fnext[i], R)
    BY <1>1 DEF IInv, IdsInv
  <1>4. \A r, s \in R : r.path = s.path <=> r.id = s.id
    BY <1>1 DEF IInv, OneIdPerPath
  <1>5. PICK n \in Nexts : IsNextAfter(n, {r.id : r \in R}, fnext[i])
                           /\ fnext' = [fnext EXCEPT ![i] = n]
    BY DEF BeginCall
  <1>6. fmap' = [fmap EXCEPT ![i] = w]
    BY DEF BeginCall
  <1>7. fmap'[i] = w /\ fnext'[i] = n
    BY <1>5, <1>6 DEF IInv, TypeInv, TypeOK
  <1>8. n >= fnext[i] /\ \A r \in R : r.id < n
    BY <1>5 DEF IsNextAfter
  <1>9. \A p \in Paths : HasRow(v, p) => \E r \in R : r.path = p /\ w[p] = r.id
    BY DEF HasRow, RowId
  <1>10. \A p \in Paths : ~HasRow(v, p) => w[p] = m[p]
    OBVIOUS
  <1>11. Knows(w, R)
    BY <1>2, <1>4, <1>9 DEF Knows, HasRow, FileRows
  <1> HIDE DEF w
  <1>12. \A p \in Paths : w[p] < n
    BY <1>2, <1>3, <1>8, <1>9, <1>10 DEF Fits, Ids, Nexts
  <1>13. \A r \in R : \A p \in Paths : w[p] = r.id => p = r.path
    BY <1>3, <1>4, <1>9, <1>10 DEF Fits
  <1>14. \A p, q \in Paths : w[p] = w[q] /\ w[p] # 0 => p = q
    BY <1>3, <1>9, <1>10, <1>13 DEF Fits, HasRow
  <1> QED BY <1>7, <1>11, <1>12, <1>13, <1>14 DEF Fits

(* The ids given out for a file keep the map fitting the table.            *)
LEMMA AllocateFits ==
  ASSUME IInv, NEW i \in Indexers, pc[i] \in {"hit", "miss"}, AllocateIds(i)
  PROVE  /\ Fits(fmap'[i], fnext'[i], files[ver[i]])
         /\ Knows(fmap'[i], files[ver[i]])
PROOF
  <1> DEFINE o == origin[i]
             m == WithId(fmap[i], fnext[i], cur[i])
             n == NextId(fmap[i], fnext[i], cur[i])
             R == files[ver[i]]
  <1>1. /\ cur[i] \in Paths
        /\ o \in Paths \cup {None}
        /\ fmap[i] \in [Paths -> Ids \cup {0}]
        /\ fnext[i] \in Nexts
        /\ ver[i] \in Versions /\ ver[i] # None
        /\ R \in SUBSET FileRows
    BY ConstantsAssumption DEF IInv, TypeInv, TypeOK, WorkInv
  <1>2. /\ fmap'[i] = IF o = None THEN m ELSE WithId(m, n, o)
        /\ fnext'[i] = IF o = None THEN n ELSE NextId(m, n, o)
        /\ fnext'[i] \in Nexts
    BY DEF AllocateIds, IInv, TypeInv, TypeOK
  <1>3. n \in Nexts
    BY <1>1, <1>2, ConstantsAssumption DEF NextId, Nexts, Ids
  <1>4. m \in [Paths -> Ids \cup {0}]
    BY <1>1, <1>3, AllocType
  <1>5. Fits(m, n, R) /\ Knows(m, R)
    BY <1>1, AllocFits DEF IInv, IdsInv
  <1>6. CASE o = None
    BY <1>2, <1>5, <1>6
  <1>7. CASE o # None
    <2>1. o \in Paths
      BY <1>1, <1>7
    <2>2. Fits(WithId(m, n, o), NextId(m, n, o), R) /\ Knows(WithId(m, n, o), R)
      BY <1>1, <1>3, <1>4, <1>5, <2>1, AllocFits
    <2> QED BY <1>2, <1>7, <2>2
  <1> QED BY <1>6, <1>7

(* The commit that uses those ids only adds to the file table.             *)
LEMMA CommitAdds ==
  ASSUME IInv, NEW i \in Indexers, pc[i] \in {"hit", "miss"},
         AllocateIds(i), WriteRows(i)
  PROVE  /\ files' = [files EXCEPT ![ver[i]] = @ \cup
                        {[id |-> fmap'[i][cur[i]], path |-> cur[i]]}]
         /\ Fits(fmap'[i], fnext'[i], files'[ver[i]])
         /\ Knows(fmap'[i], files'[ver[i]])
PROOF
  <1> DEFINE R == files[ver[i]]
             row == [id |-> fmap'[i][cur[i]], path |-> cur[i]]
  <1>1. /\ cur[i] \in Paths
        /\ ver[i] \in Versions
        /\ R \in SUBSET FileRows
    BY ConstantsAssumption DEF IInv, TypeInv, TypeOK, WorkInv
  <1>2. /\ fmap'[i] \in [Paths -> Ids \cup {0}]
        /\ fnext'[i] \in Nexts
        /\ fmap'[i][cur[i]] \in Ids
    BY AllocateType DEF IInv
  <1>3. /\ Replace(R, {row}) = R \cup {row}
        /\ Fits(fmap'[i], fnext'[i], R \cup {row})
        /\ Knows(fmap'[i], R \cup {row})
    BY <1>1, <1>2, AllocateFits, AddFits
  <1>4. files' = [files EXCEPT ![ver[i]] = R \cup {row}]
    BY <1>3 DEF WriteRows
  <1>5. files'[ver[i]] = R \cup {row}
    BY <1>1, <1>4 DEF IInv, TypeInv, TypeOK
  <1> QED BY <1>3, <1>4, <1>5

\* a step adds rows to the file table of v and touches no other version
AddsTo(v) ==
  /\ files[v] \subseteq files'[v]
  /\ files' = [files EXCEPT ![v] = files'[v]]

(* Runs that do not overlap leave one indexer to a version.                *)
LEMMA OneRunStep == ~ConcurrentRuns /\ TypeInv /\ OneRun /\ [Next]_vars => OneRun'
PROOF
  <1> SUFFICES ASSUME ~ConcurrentRuns, TypeInv, OneRun, [Next]_vars PROVE OneRun'
    OBVIOUS
  <1>1. ASSUME NEW h \in Hosts, Crash(h) PROVE OneRun'
    BY <1>1 DEF Crash, OneRun
  <1>2. ASSUME NEW i \in Indexers, NEW v \in Versions, NewIndexer(i, v) PROVE OneRun'
    BY <1>2 DEF NewIndexer, MayWorkOn, OneRun, TypeInv, TypeOK
  <1>3. ASSUME NEW i \in Indexers, DropIndexer(i) PROVE OneRun'
    BY <1>3 DEF DropIndexer, OneRun, TypeInv, TypeOK
  <1>4. CASE UNCHANGED ver
    BY <1>4 DEF OneRun
  <1> QED
    BY <1>1, <1>2, <1>3, <1>4
    DEF Next, vars, OpenStore, ReserveFileIds, StartFile, BeginCall, IndexHit,
        IndexMiss, IndexMissUnsaved, RecordIndexed, Raise, RecordFailed, EndCall

(* A step that leaves files and maps alone, and wakes no idle indexer,     *)
(* keeps what is known of the maps.                                        *)
LEMMA IdsSame ==
  ASSUME IInv, UNCHANGED <<files, fmap, fnext, ver>>,
         \A i \in Indexers : pc'[i] # "idle" => pc[i] # "idle"
  PROVE  OneIdPerPath' /\ IdsInv'
  BY DEF IInv, OneIdPerPath, IdsInv, Fits, Knows

(* What a commit by indexer i leaves behind.                               *)
LEMMA CommitStep ==
  ASSUME ~ConcurrentRuns, IInv, NEW i \in Indexers, pc[i] \in {"hit", "miss"},
         AllocateIds(i), WriteRows(i), ver' = ver,
         pc' \in {[pc EXCEPT ![i] = "batch"], [pc EXCEPT ![i] = "record"]}
  PROVE  OneIdPerPath' /\ IdsInv' /\ AddsTo(ver[i])
PROOF
  <1> DEFINE v == ver[i]
             row == [id |-> fmap'[i][cur[i]], path |-> cur[i]]
  <1>1. v \in Versions /\ v # None
    BY ConstantsAssumption DEF IInv, TypeInv, TypeOK, WorkInv
  <1>2. files \in [Versions -> SUBSET FileRows] /\ files' \in [Versions -> SUBSET FileRows]
    BY WriteType DEF IInv, TypeInv, TypeOK
  <1>3. /\ files' = [files EXCEPT ![v] = @ \cup {row}]
        /\ Fits(fmap'[i], fnext'[i], files'[v])
        /\ Knows(fmap'[i], files'[v])
    BY CommitAdds
  <1>4. AddsTo(v)
    BY <1>1, <1>2, <1>3 DEF AddsTo
  <1>5. \A r, s \in files'[v] : r.path = s.path <=> r.id = s.id
    BY <1>1, <1>2, <1>3, KnownIsOneToOne
  <1>6. \A w \in Versions : w # v => files'[w] = files[w]
    BY <1>2, <1>3
  <1>7. OneIdPerPath'
    BY <1>5, <1>6 DEF OneIdPerPath, IInv
  <1>8. ASSUME NEW j \in Indexers, j # i, ver[j] # None
        PROVE  /\ Fits(fmap'[j], fnext'[j], files'[ver[j]])
               /\ pc'[j] # "idle" => Knows(fmap'[j], files'[ver[j]])
    <2>1. ver[j] \in Versions /\ ver[j] # v
      BY <1>8 DEF IInv, TypeInv, TypeOK, OneRun
    <2>2. fmap'[j] = fmap[j] /\ fnext'[j] = fnext[j] /\ files'[ver[j]] = files[ver[j]]
      BY <1>6, <1>8, <2>1, AllocateKeeps DEF IInv
    <2>3. pc'[j] = pc[j]
      BY <1>8 DEF IInv, TypeInv, TypeOK
    <2> QED BY <1>8, <2>2, <2>3 DEF IInv, IdsInv
  <1>9. IdsInv'
    BY <1>3, <1>8 DEF IdsInv
  <1> QED BY <1>4, <1>7, <1>9

(* Every step keeps ids one to one and maps fitting, and only adds rows.   *)
LEMMA IdsStep ==
  ASSUME ~ConcurrentRuns, IInv, [Next]_vars
  PROVE  /\ OneIdPerPath'
         /\ IdsInv'
         /\ UNCHANGED files \/ \E v \in Versions : AddsTo(v)
PROOF
  <1> DEFINE Goal == /\ OneIdPerPath'
                     /\ IdsInv'
                     /\ UNCHANGED files \/ \E v \in Versions : AddsTo(v)
  <1> USE ConstantsAssumption
  <1>0. TypeOK /\ TypeOK'
    BY TypeStep DEF IInv, TypeInv
  <1>1. ASSUME NEW h \in Hosts, OpenStore(h) PROVE Goal
    BY <1>1, IdsSame DEF OpenStore, maps, fileIds
  <1>2. ASSUME NEW h \in Hosts, Crash(h) PROVE Goal
    <2>1. files' = files
      BY <1>2 DEF Crash, db
    <2>2. \A i \in Indexers :
            ver'[i] # None => /\ ver'[i] = ver[i] /\ pc'[i] = pc[i]
                              /\ fmap'[i] = fmap[i] /\ fnext'[i] = fnext[i]
      BY <1>2 DEF Crash
    <2> QED BY <2>1, <2>2 DEF IInv, OneIdPerPath, IdsInv
  <1>3. ASSUME NEW h \in Hosts, NEW v \in Versions, NEW S \in (SUBSET Paths) \ {{}},
               ReserveFileIds(h, v, S)
        PROVE  Goal
    <2>1. PICK n \in Nexts, top \in Nexts :
            /\ IsNextAfter(n, {r.id : r \in files[v]}, 1)
            /\ \E f \in Numberings(S, n, top) :
                 files' = [files EXCEPT ![v] = @ \cup {[id |-> f[p], path |-> p] : p \in S}]
      BY <1>3 DEF ReserveFileIds
    <2>2. PICK f \in Numberings(S, n, top) :
            files' = [files EXCEPT ![v] = @ \cup {[id |-> f[p], path |-> p] : p \in S}]
      BY <2>1
    <2> DEFINE N == {[id |-> f[p], path |-> p] : p \in S}
    <2>3. files'[v] = files[v] \cup N /\ \A w \in Versions : w # v => files'[w] = files[w]
      BY <1>0, <2>2 DEF TypeOK
    <2>4. \A p, q \in S : f[p] = f[q] => p = q
      BY <2>2 DEF Numberings, Injection, IsInjective
    <2>5. \A p \in S : f[p] \in Nexts /\ f[p] >= n
      BY <2>2 DEF Numberings, Injection, Nexts
    <2>6. \A r \in files[v] : r.id \in Ids /\ r.id < n /\ r.path \notin S
      BY <1>0, <1>3, <2>1 DEF IsNextAfter, ReserveFileIds, HasRow, TypeOK, FileRows
    <2>7. \A r \in N : r.path \in S /\ r.id = f[r.path]
      OBVIOUS
    <2> HIDE DEF N
    <2>8. \A r, s \in files'[v] : r.path = s.path <=> r.id = s.id
      <3> TAKE r, s \in files'[v]
      <3>1. CASE r \in files[v] /\ s \in files[v]
        BY <3>1 DEF IInv, OneIdPerPath
      <3>2. CASE r \in N /\ s \in N
        <4>1. /\ r.path \in S /\ s.path \in S
              /\ r.id = f[r.path] /\ s.id = f[s.path]
          BY <2>7, <3>2
        <4> QED BY <2>4, <4>1
      <3>3. ASSUME NEW x \in files[v], NEW y \in N PROVE x.path # y.path /\ x.id # y.id
        BY <2>5, <2>6, <2>7, <3>3 DEF Nexts, Ids
      <3> QED BY <2>3, <3>1, <3>2, <3>3
    <2>9. OneIdPerPath'
      BY <2>3, <2>8 DEF IInv, OneIdPerPath
    <2>10. \A j \in Indexers : ver[j] # v
      BY <1>3 DEF ReserveFileIds, MayWorkOn
    <2>11. IdsInv'
      <3>1. UNCHANGED <<ver, pc, fmap, fnext>>
        BY <1>3 DEF ReserveFileIds, maps, fileIds
      <3>2. \A j \in Indexers : ver[j] # None => files'[ver[j]] = files[ver[j]]
        BY <1>0, <2>3, <2>10 DEF TypeOK
      <3> QED BY <3>1, <3>2 DEF IInv, IdsInv
    <2>12. AddsTo(v)
      BY <1>0, <2>2, <2>3 DEF AddsTo, TypeOK
    <2> QED BY <2>9, <2>11, <2>12
  <1>4. ASSUME NEW i \in Indexers, NEW v \in Versions, NewIndexer(i, v) PROVE Goal
    <2>1. /\ UNCHANGED <<files, fmap, fnext>>
          /\ ver' = [ver EXCEPT ![i] = v]
          /\ pc' = [pc EXCEPT ![i] = "idle"]
          /\ fmap[i] = NoFileIds
      BY <1>4 DEF NewIndexer, db, maps, fileIds, IInv, TypeInv, WorkInv
    <2>2. Fits(fmap[i], fnext[i], files[v])
      BY <1>0, <2>1 DEF Fits, NoFileIds, TypeOK, FileRows, Nexts, Ids
    <2>3. ver'[i] = v /\ pc'[i] = "idle"
          /\ \A j \in Indexers : j # i => ver'[j] = ver[j] /\ pc'[j] = pc[j]
      BY <1>0, <2>1 DEF TypeOK
    <2>4. IdsInv'
      BY <2>1, <2>2, <2>3 DEF IInv, IdsInv
    <2> QED BY <2>1, <2>4 DEF IInv, OneIdPerPath
  <1>5. ASSUME NEW i \in Indexers, NEW p \in Paths, StartFile(i, p) PROVE Goal
    BY <1>0, <1>5, IdsSame DEF StartFile, db, maps, fileIds, TypeOK
  <1>6. ASSUME NEW i \in Indexers, DropIndexer(i) PROVE Goal
    <2>1. files' = files
      BY <1>6 DEF DropIndexer, db
    <2>2. \A j \in Indexers :
            ver'[j] # None => /\ ver'[j] = ver[j] /\ pc'[j] = pc[j]
                              /\ fmap'[j] = fmap[j] /\ fnext'[j] = fnext[j]
      BY <1>0, <1>6 DEF DropIndexer, TypeOK
    <2> QED BY <2>1, <2>2 DEF IInv, OneIdPerPath, IdsInv
  <1>7. ASSUME NEW i \in Indexers, BeginCall(i) PROVE Goal
    <2>1. /\ Fits(fmap'[i], fnext'[i], files[ver[i]])
          /\ Knows(fmap'[i], files[ver[i]])
      BY <1>7, SyncFits
    <2>2. UNCHANGED <<files, ver>>
      BY <1>7 DEF BeginCall, db
    <2>3. \A j \in Indexers : j # i =>
            fmap'[j] = fmap[j] /\ fnext'[j] = fnext[j] /\ pc'[j] = pc[j]
      BY <1>0, <1>7 DEF BeginCall, TypeOK
    <2>4. IdsInv'
      BY <2>1, <2>2, <2>3 DEF IInv, IdsInv
    <2> QED BY <2>2, <2>4 DEF IInv, OneIdPerPath
  <1>8. ASSUME NEW i \in Indexers, IndexHit(i) PROVE Goal
    <2>1. OneIdPerPath' /\ IdsInv' /\ AddsTo(ver[i])
      BY <1>8, CommitStep DEF IndexHit
    <2>2. ver[i] \in Versions
      BY <1>0, <1>8 DEF IndexHit, TypeOK, IInv, TypeInv, WorkInv
    <2> QED BY <2>1, <2>2
  <1>9. ASSUME NEW i \in Indexers, IndexMiss(i) PROVE Goal
    <2>1. OneIdPerPath' /\ IdsInv' /\ AddsTo(ver[i])
      BY <1>9, CommitStep DEF IndexMiss
    <2>2. ver[i] \in Versions
      BY <1>0, <1>9 DEF IndexMiss, TypeOK, IInv, TypeInv, WorkInv
    <2> QED BY <2>1, <2>2
  <1>10. ASSUME NEW i \in Indexers, IndexMissUnsaved(i) PROVE Goal
    <2>1. /\ Fits(fmap'[i], fnext'[i], files[ver[i]])
          /\ Knows(fmap'[i], files[ver[i]])
      BY <1>10, AllocateFits DEF IndexMissUnsaved
    <2>2. UNCHANGED <<files, ver>>
      BY <1>10 DEF IndexMissUnsaved, db
    <2>3. \A j \in Indexers : j # i =>
            fmap'[j] = fmap[j] /\ fnext'[j] = fnext[j] /\ pc'[j] = pc[j]
      BY <1>0, <1>10, AllocateKeeps DEF IndexMissUnsaved, IInv, TypeOK
    <2>4. IdsInv'
      BY <2>1, <2>2, <2>3 DEF IInv, IdsInv
    <2> QED BY <2>2, <2>4 DEF IInv, OneIdPerPath
  <1>11. ASSUME NEW i \in Indexers, RecordIndexed(i) PROVE Goal
    BY <1>0, <1>11, IdsSame DEF RecordIndexed, maps, fileIds, TypeOK
  <1>12. ASSUME NEW i \in Indexers, Raise(i) PROVE Goal
    <2>1. /\ cur[i] \in Paths
          /\ ver[i] \in Versions /\ ver[i] # None
          /\ fmap[i] \in [Paths -> Ids \cup {0}]
          /\ fnext[i] \in Nexts
          /\ pc[i] # "idle"
      BY <1>0, <1>12 DEF Raise, TypeOK, IInv, TypeInv, WorkInv
    <2>2. /\ fmap'[i] = WithId(fmap[i], fnext[i], cur[i])
          /\ fnext'[i] = NextId(fmap[i], fnext[i], cur[i])
          /\ UNCHANGED <<files, ver>>
      BY <1>0, <1>12 DEF Raise, db, TypeOK
    <2>3. files[ver[i]] \in SUBSET FileRows
      BY <1>0, <2>1 DEF TypeOK
    <2>4. /\ Fits(fmap'[i], fnext'[i], files[ver[i]])
          /\ Knows(fmap'[i], files[ver[i]])
      <3>1. Fits(fmap[i], fnext[i], files[ver[i]]) /\ Knows(fmap[i], files[ver[i]])
        BY <2>1 DEF IInv, IdsInv
      <3> DEFINE m == fmap[i]
                 n == fnext[i]
      <3>2. /\ Fits(WithId(m, n, cur[i]), NextId(m, n, cur[i]), files[ver[i]])
            /\ Knows(WithId(m, n, cur[i]), files[ver[i]])
        <4>1. /\ m \in [Paths -> Ids \cup {0}] /\ n \in Nexts /\ cur[i] \in Paths
              /\ Fits(m, n, files[ver[i]]) /\ Knows(m, files[ver[i]])
          BY <2>1, <3>1
        <4> HIDE DEF m, n
        <4> QED
          BY <2>3, <4>1, AllocFits
      <3> QED
        BY <2>2, <3>2
    <2>5. \A j \in Indexers : j # i =>
            fmap'[j] = fmap[j] /\ fnext'[j] = fnext[j] /\ pc'[j] = pc[j]
      <3>1. /\ fmap' = [fmap EXCEPT ![i] = fmap'[i]]
            /\ fnext' = [fnext EXCEPT ![i] = fnext'[i]]
            /\ pc' = [pc EXCEPT ![i] = "raised"]
        BY <1>0, <1>12, <2>2, Zenon DEF Raise
      <3>2. DOMAIN fmap = Indexers /\ DOMAIN fnext = Indexers /\ DOMAIN pc = Indexers
        BY <1>0 DEF TypeOK
      <3> QED
        BY <3>1, <3>2
    <2>6. IdsInv'
      BY <2>2, <2>4, <2>5 DEF IInv, IdsInv
    <2> QED BY <2>2, <2>6 DEF IInv, OneIdPerPath
  <1>13. ASSUME NEW i \in Indexers, RecordFailed(i) PROVE Goal
    BY <1>0, <1>13, IdsSame DEF RecordFailed, maps, fileIds, TypeOK
  <1>14. ASSUME NEW i \in Indexers, EndCall(i) PROVE Goal
    BY <1>0, <1>14, IdsSame DEF EndCall, db, maps, fileIds, TypeOK
  <1>15. CASE UNCHANGED vars
    BY <1>15, IdsSame DEF vars, db, maps, fileIds
  <1> QED
    BY <1>1, <1>2, <1>3, <1>4, <1>5, <1>6, <1>7, <1>8, <1>9, <1>10, <1>11, <1>12,
       <1>13, <1>14, <1>15 DEF Next

(* The invariant holds at first ...                                        *)
LEMMA IInvInit == Init => IInv
PROOF
  <1> SUFFICES ASSUME Init PROVE OneRun /\ OneIdPerPath /\ IdsInv
    BY TypeInit DEF IInv
  <1> QED BY DEF Init, OneRun, OneIdPerPath, IdsInv

(* ... and every step keeps it.                                            *)
LEMMA IInvStep == ~ConcurrentRuns /\ IInv /\ [Next]_vars => IInv'
  BY TypeStep, OneRunStep, IdsStep DEF IInv

(* OneIdPerPath in every reachable state, for any number of versions,      *)
(* files, processes, crashes, failures and restarts, if runs on a version  *)
(* do not overlap.                                                         *)
THEOREM OneIdPerPathHolds == ~ConcurrentRuns => (Spec => []OneIdPerPath)
PROOF
  <1> SUFFICES ASSUME ~ConcurrentRuns PROVE Spec => []OneIdPerPath
    OBVIOUS
  <1>1. IInv /\ [Next]_vars => IInv'
    BY IInvStep
  <1>2. IInv => OneIdPerPath
    BY DEF IInv
  <1> QED BY IInvInit, <1>1, <1>2, PTL DEF Spec

(* The file table then implements the catalogue: every step adds rows that *)
(* keep it one to one, or leaves it alone.                                 *)
THEOREM ImplementsCatalog == ~ConcurrentRuns => (Spec => CatalogSpec)
PROOF
  <1> SUFFICES ASSUME ~ConcurrentRuns PROVE Spec => CatalogSpec
    OBVIOUS
  <1>1. Init => Catalog!Init
    BY DEF Init, Catalog!Init
  <1>2. IInv /\ [Next]_vars => [Catalog!Next]_files
    <2> SUFFICES ASSUME IInv, [Next]_vars, ~UNCHANGED files PROVE Catalog!Next
      OBVIOUS
    <2>1. PICK v \in Versions : AddsTo(v)
      BY IdsStep
    <2>2. files' \in [Versions -> SUBSET FileRows]
      BY TypeStep DEF IInv, TypeInv, TypeOK
    <2>3. Catalog!OneToOne(files'[v])
      BY <2>1, IdsStep DEF OneIdPerPath, Catalog!OneToOne
    <2> QED BY <2>1, <2>2, <2>3 DEF AddsTo, FileRows, Catalog!Next, Catalog!Add
  <1>3. IInv /\ [Next]_vars => IInv'
    BY IInvStep
  <1> QED BY IInvInit, <1>1, <1>2, <1>3, PTL DEF Spec, CatalogSpec, Catalog!Spec

(* In particular no row of the table is ever replaced or lost.             *)
THEOREM FileRowsStay == ~ConcurrentRuns => (Spec => FileRowsStable)
PROOF
  <1> SUFFICES ASSUME ~ConcurrentRuns PROVE Spec => FileRowsStable
    OBVIOUS
  <1>1. IInv /\ [Next]_vars => [\A v \in Versions : files[v] \subseteq files'[v]]_files
    <2> SUFFICES ASSUME IInv, [Next]_vars, ~UNCHANGED files,
                        NEW w \in Versions
                 PROVE  files[w] \subseteq files'[w]
      OBVIOUS
    <2>1. PICK v \in Versions : AddsTo(v)
      BY IdsStep
    <2> QED BY <2>1 DEF AddsTo, IInv, TypeInv, TypeOK
  <1>2. IInv /\ [Next]_vars => IInv'
    BY IInvStep
  <1> QED BY IInvInit, <1>1, <1>2, PTL DEF Spec, FileRowsStable

-----------------------------------------------------------------------------
(* Records and rows, where in addition no write fails.                     *)

\* a file on its way from the first commit to the second has its row
RowInv == \A i \in Indexers : pc[i] = "record" => HasRow(ver[i], cur[i])

(* A row once there stays.                                                 *)
LEMMA RowsStay ==
  ASSUME ~ConcurrentRuns, IInv, [Next]_vars, NEW v \in Versions, NEW p, HasRow(v, p)
  PROVE  HasRow(v, p)'
PROOF
  <1>1. UNCHANGED files \/ \E w \in Versions : AddsTo(w)
    BY IdsStep
  <1>2. files[v] \subseteq files'[v]
    BY <1>1 DEF AddsTo, IInv, TypeInv, TypeOK
  <1> QED BY <1>2 DEF HasRow

(* The commit of a file writes its row.                                    *)
LEMMA CommitHasRow ==
  ASSUME IInv, NEW i \in Indexers, pc[i] \in {"hit", "miss"},
         AllocateIds(i), WriteRows(i)
  PROVE  \E r \in files'[ver[i]] : r.path = cur[i]
PROOF
  <1>1. files' = [files EXCEPT ![ver[i]] = @ \cup {[id |-> fmap'[i][cur[i]], path |-> cur[i]]}]
    BY CommitAdds
  <1>2. ver[i] \in Versions /\ files \in [Versions -> SUBSET FileRows]
    BY ConstantsAssumption DEF IInv, TypeInv, TypeOK, WorkInv
  <1>3. [id |-> fmap'[i][cur[i]], path |-> cur[i]] \in files'[ver[i]]
    BY <1>1, <1>2
  <1> QED BY <1>3

(* Every step keeps both facts about rows.                                 *)
LEMMA RowStep ==
  ASSUME ~ConcurrentRuns, ~StorageErrors, IInv, RowInv, IndexedHasRow, [Next]_vars
  PROVE  RowInv' /\ IndexedHasRow'
PROOF
  <1> DEFINE Goal == RowInv' /\ IndexedHasRow'
  <1>0. TypeOK /\ TypeOK' /\ WorkInv
    BY TypeStep DEF IInv, TypeInv
  <1>1. \A v \in Versions, p \in Paths : HasRow(v, p) => HasRow(v, p)'
    BY RowsStay
  <1>2. \A i \in Indexers : pc[i] = "record" => ver[i] \in Versions /\ cur[i] \in Paths
    BY <1>0 DEF TypeOK, WorkInv
  \* a step that records nothing new and brings no file between its commits
  <1>3. ASSUME mat' = mat,
               \A i \in Indexers : pc'[i] = "record" =>
                 pc[i] = "record" /\ ver'[i] = ver[i] /\ cur'[i] = cur[i]
        PROVE  Goal
    <2>1. IndexedHasRow'
      BY <1>1, <1>3 DEF IndexedHasRow, Indexed
    <2>2. ASSUME NEW i \in Indexers, pc'[i] = "record"
          PROVE  HasRow(ver[i], cur[i])' /\ ver'[i] = ver[i] /\ cur'[i] = cur[i]
      <3>1. HasRow(ver[i], cur[i])
        BY <1>3, <2>2 DEF RowInv
      <3>2. \E r \in files'[ver[i]] : r.path = cur[i]
        BY <1>1, <1>2, <1>3, <2>2, <3>1 DEF HasRow
      <3> QED BY <1>3, <2>2, <3>2 DEF HasRow
    <2>3. RowInv'
      BY <2>2 DEF RowInv, HasRow
    <2> QED BY <2>1, <2>3
  <1>4. ASSUME NEW h \in Hosts, OpenStore(h) PROVE Goal
    <2>1. UNCHANGED <<files, pc, ver, cur>>
      BY <1>4 DEF OpenStore
    <2>2. IndexedHasRow'
      BY <1>0, <1>4, <2>1 DEF OpenStore, IndexedHasRow, Indexed, NoRecord, HasRow, TypeOK
    <2> QED BY <2>1, <2>2 DEF RowInv, HasRow
  <1>5. ASSUME NEW h \in Hosts, Crash(h) PROVE Goal
    BY <1>3, <1>5 DEF Crash, db
  <1>6. ASSUME NEW h \in Hosts, NEW v \in Versions, NEW S \in (SUBSET Paths) \ {{}},
               ReserveFileIds(h, v, S)
        PROVE  Goal
    BY <1>3, <1>6 DEF ReserveFileIds
  <1>7. ASSUME NEW i \in Indexers, NEW v \in Versions, NewIndexer(i, v) PROVE Goal
    BY <1>0, <1>3, <1>7 DEF NewIndexer, db, TypeOK
  <1>8. ASSUME NEW i \in Indexers, NEW p \in Paths, StartFile(i, p) PROVE Goal
    BY <1>0, <1>3, <1>8 DEF StartFile, db, TypeOK
  <1>9. ASSUME NEW i \in Indexers, DropIndexer(i) PROVE Goal
    BY <1>0, <1>3, <1>9 DEF DropIndexer, db, TypeOK
  <1>10. ASSUME NEW i \in Indexers, BeginCall(i) PROVE Goal
    BY <1>0, <1>3, <1>10 DEF BeginCall, db, TypeOK
  \* a record "indexed" for a file that has its row
  <1>11. ASSUME NEW i \in Indexers, ver[i] \in Versions, cur[i] \in Paths,
                \E r \in files'[ver[i]] : r.path = cur[i],
                mat' = [mat EXCEPT ![ver[i]][cur[i]] =
                          [status |-> "indexed", blob |-> Blob(i)]],
                pc' = [pc EXCEPT ![i] = "batch"], UNCHANGED <<ver, cur>>
         PROVE  Goal
    <2>1. \A v \in Versions, p \in Paths :
            (v # ver[i] \/ p # cur[i]) => mat'[v][p] = mat[v][p]
      BY <1>0, <1>11 DEF TypeOK
    <2>2. IndexedHasRow'
      BY <1>1, <1>11, <2>1 DEF IndexedHasRow, Indexed, HasRow
    <2>3. \A j \in Indexers : pc'[j] = "record" => pc[j] = "record"
      BY <1>0, <1>11 DEF TypeOK
    <2>4. RowInv'
      BY <1>1, <1>2, <1>11, <2>3 DEF RowInv, HasRow
    <2> QED BY <2>2, <2>4
  <1>12. ASSUME NEW i \in Indexers, IndexHit(i) PROVE Goal
    <2>1. ver[i] \in Versions /\ cur[i] \in Paths
      BY <1>0, <1>12 DEF IndexHit, TypeOK, WorkInv
    <2>2. \E r \in files'[ver[i]] : r.path = cur[i]
      BY <1>12, CommitHasRow DEF IndexHit
    <2> QED BY <1>11, <1>12, <2>1, <2>2 DEF IndexHit
  <1>13. ASSUME NEW i \in Indexers, IndexMiss(i) PROVE Goal
    <2>1. /\ \E r \in files'[ver[i]] : r.path = cur[i]
          /\ UNCHANGED <<mat, ver, cur>>
          /\ pc' = [pc EXCEPT ![i] = "record"]
      BY <1>13, CommitHasRow DEF IndexMiss
    <2>2. \A j \in Indexers : pc'[j] = "record" => pc[j] = "record" \/ j = i
      BY <1>0, <2>1 DEF TypeOK
    <2>3. RowInv'
      BY <1>1, <1>2, <2>1, <2>2 DEF RowInv, HasRow
    <2> QED BY <1>1, <2>1, <2>3 DEF IndexedHasRow, Indexed
  <1>14. ASSUME NEW i \in Indexers, IndexMissUnsaved(i) PROVE Goal
    BY <1>14 DEF IndexMissUnsaved
  <1>15. ASSUME NEW i \in Indexers, RecordIndexed(i) PROVE Goal
    <2>1. \E r \in files'[ver[i]] : r.path = cur[i]
      BY <1>15 DEF RecordIndexed, RowInv, HasRow
    <2> QED BY <1>2, <1>11, <1>15, <2>1 DEF RecordIndexed
  <1>16. ASSUME NEW i \in Indexers, Raise(i) PROVE Goal
    BY <1>0, <1>3, <1>16 DEF Raise, db, TypeOK
  <1>17. ASSUME NEW i \in Indexers, RecordFailed(i) PROVE Goal
    <2>1. /\ mat' = [mat EXCEPT ![ver[i]][cur[i]] = [status |-> "failed", blob |-> Blob(i)]]
          /\ UNCHANGED <<files, ver>>
          /\ pc[i] = "raised" /\ pc' = [pc EXCEPT ![i] = "idle"]
          /\ cur' = [cur EXCEPT ![i] = None]
      BY <1>17 DEF RecordFailed
    <2>2. \A v \in Versions, p \in Paths :
            Indexed(v, p)' => Indexed(v, p)
      BY <1>0, <2>1 DEF TypeOK, Indexed
    <2>3. \A j \in Indexers : pc'[j] = "record" => pc[j] = "record" /\ cur'[j] = cur[j]
      BY <1>0, <2>1 DEF TypeOK
    <2>4. RowInv'
      BY <2>1, <2>3 DEF RowInv, HasRow
    <2> QED BY <2>1, <2>2, <2>4 DEF IndexedHasRow, HasRow
  <1>18. ASSUME NEW i \in Indexers, EndCall(i) PROVE Goal
    BY <1>0, <1>3, <1>18 DEF EndCall, db, TypeOK
  <1>19. CASE UNCHANGED vars
    BY <1>3, <1>19 DEF vars, db
  <1> QED
    BY <1>4, <1>5, <1>6, <1>7, <1>8, <1>9, <1>10, <1>12, <1>13, <1>14, <1>15,
       <1>16, <1>17, <1>18, <1>19 DEF Next

-----------------------------------------------------------------------------
(* Records and facts, where in addition parsing does not raise, no file id *)
(* is reserved ahead, a content stands at one path, and a call is made by  *)
(* a symbol of the same file.  The invariant: an indexer's map of names    *)
(* fits the table of symbols as its map of paths fits that of files        *)
(* (NamesInv), a cached content is at the path it was cached for and one   *)
(* whose facts are not kept has none (CacheInv); so a file row comes with  *)
(* its facts (RowsHaveFacts).                                              *)

\* a content stands at one path, and what it calls from it defines
SeparateFiles ==
  \A v, w \in Versions, p, q \in Paths :
    Content[v][p] = Content[w][q] /\ Content[v][p] # None => p = q
CallersDefined == \A b \in Blobs : \A u \in Facts[b].uses : u[1] \in Facts[b].defs

NoFacts(b) == Facts[b].defs = {} /\ Facts[b].uses = {}

\* a content whose facts are not kept has none
Kept(b) == cache[b] # None \/ NoFacts(b)

\* s is the row of the symbol x: its file row names the path of x
RowOf(F, s, x) == s.name = x[2] /\ \E r \in F : r.id = s.file /\ r.path = x[1]

\* an id names one path; a symbol row has a file row; an id or a name in a
\* file is that of one symbol row
OneId(F) == \A r, q \in F : r.path = q.path <=> r.id = q.id
HaveFile(S, F) == \A s \in S : \E r \in F : r.id = s.file
OneRow(S) ==
  \A s, t \in S : s.id = t.id \/ (s.file = t.file /\ s.name = t.name) => s = t

SymbolRowsInv ==
  \A v \in Versions : HaveFile(symbols[v], files[v]) /\ OneRow(symbols[v])

\* as Fits and Knows, for names and symbols
FitsNames(m, n, F, S) ==
  /\ \A x \in Fqns : m[x] < n
  /\ \A x, y \in Fqns : m[x] = m[y] /\ m[x] # 0 => x = y
  /\ \A s \in S : \A x \in Fqns : m[x] = s.id => RowOf(F, s, x)
KnowsNames(m, F, S) == \A s \in S : \A x \in Fqns : RowOf(F, s, x) => m[x] = s.id

NamesInv ==
  \A i \in Indexers :
    /\ pc[i] = "off" => smap[i] = NoSymbolIds
    /\ ver[i] # None => FitsNames(smap[i], snext[i], files[ver[i]], symbols[ver[i]])
    /\ ver[i] # None /\ pc[i] # "idle" =>
         KnowsNames(smap[i], files[ver[i]], symbols[ver[i]])

CacheInv ==
  /\ \A b \in Blobs : cache[b] # None => \E v \in Versions : Content[v][cache[b]] = b
  /\ \A v \in Versions, p \in Paths : mat[v][p].blob # None => Kept(mat[v][p].blob)
  /\ \A i \in Indexers :
       /\ pc[i] # "raised"
       /\ pc[i] = "hit" => IF origin[i] = None THEN NoFacts(Blob(i))
                           ELSE origin[i] = cur[i] /\ cache[Blob(i)] # None
       /\ pc[i] = "record" => Kept(Blob(i))

RowsHaveFacts == \A v \in Versions, p \in Paths : HasRow(v, p) => FactsStored(v, p)

FactsInv == SymbolRowsInv /\ NamesInv /\ CacheInv /\ RowsHaveFacts

(* In a table with one id per path a symbol has one row, and a row is that *)
(* of one symbol.                                                          *)
LEMMA RowOfOne ==
  ASSUME NEW F \in SUBSET FileRows, NEW S \in SUBSET SymbolRows,
         OneId(F),
         HaveFile(S, F),
         OneRow(S)
  PROVE  /\ \A s \in S : \E x \in Fqns : RowOf(F, s, x)
         /\ \A s \in S : \A x, y \in Fqns : RowOf(F, s, x) /\ RowOf(F, s, y) => x = y
         /\ \A s, t \in S : \A x \in Fqns : RowOf(F, s, x) /\ RowOf(F, t, x) => s = t
PROOF
  <1> USE DEF OneId, HaveFile, OneRow
  <1>1. ASSUME NEW s \in S PROVE \E x \in Fqns : RowOf(F, s, x)
    <2>1. PICK r \in F : r.id = s.file
      OBVIOUS
    <2>2. <<r.path, s.name>> \in Fqns
      BY DEF FileRows, SymbolRows, Fqns
    <2>3. RowOf(F, s, <<r.path, s.name>>)
      BY <2>1 DEF RowOf
    <2> QED BY <2>2, <2>3
  <1>2. ASSUME NEW s \in S, NEW x \in Fqns, NEW y \in Fqns, RowOf(F, s, x), RowOf(F, s, y)
        PROVE  x = y
    <2>1. x = <<x[1], x[2]>> /\ y = <<y[1], y[2]>>
      BY DEF Fqns
    <2>2. x[1] = y[1] /\ x[2] = y[2]
      BY <1>2 DEF RowOf
    <2> QED BY <2>1, <2>2
  <1>3. ASSUME NEW s \in S, NEW t \in S, NEW x \in Fqns, RowOf(F, s, x), RowOf(F, t, x)
        PROVE  s = t
    BY <1>3 DEF RowOf
  <1> QED BY <1>1, <1>2, <1>3

(* get_or_create_symbol_id for the names of a file.                        *)
LEMMA NewNamesFit ==
  ASSUME NEW m \in [Fqns -> Ids \cup {0}], NEW n \in Nexts, NEW top \in Nexts,
         NEW F, NEW S \in SUBSET SymbolRows, NEW new \in SUBSET Fqns,
         \A x \in new : m[x] = 0,
         \A s \in S : \E x \in Fqns : RowOf(F, s, x),
         FitsNames(m, n, F, S), KnowsNames(m, F, S),
         NEW f \in Numberings(new, n, top),
         NEW w, w = [x \in Fqns |-> IF x \in new THEN f[x] ELSE m[x]],
         top >= n
  PROVE  FitsNames(w, top, F, S) /\ KnowsNames(w, F, S)
PROOF
  <1> USE ConstantsAssumption
  <1>1. /\ \A x \in new : f[x] \in Nat /\ f[x] >= n /\ f[x] < top /\ f[x] > 0
        /\ \A x, y \in new : f[x] = f[y] => x = y
    BY DEF Numberings, Injection, IsInjective, Nexts
  <1>2. \A s \in S : s.id \in Ids /\ s.id < n
    BY DEF KnowsNames, FitsNames, SymbolRows
  <1>3. \A x \in Fqns : m[x] \in Nat /\ m[x] < n
    BY DEF FitsNames, Ids
  <1>4. \A x \in Fqns : w[x] = IF x \in new THEN f[x] ELSE m[x]
    OBVIOUS
  <1>5. \A x \in Fqns : w[x] < top
    BY <1>1, <1>3, <1>4 DEF Nexts
  <1>6. \A x, y \in Fqns : w[x] = w[y] /\ w[x] # 0 => x = y
    BY <1>1, <1>3, <1>4 DEF FitsNames, Nexts
  <1>7. \A s \in S : \A x \in Fqns : w[x] = s.id => RowOf(F, s, x)
    BY <1>1, <1>2, <1>4 DEF FitsNames, Nexts, Ids
  <1>8. \A s \in S : \A x \in Fqns : RowOf(F, s, x) => w[x] = s.id
    BY <1>2, <1>4 DEF KnowsNames, Ids
  <1> QED BY <1>5, <1>6, <1>7, <1>8 DEF FitsNames, KnowsNames

\* the table F with the row of path p, and the rows of the names it defines
WithRow(F, k, p) == F \cup {[id |-> k, path |-> p]}
NoClash(S, N) == \A s \in S, r \in N : s.id = r.id => s = r
HaveNames(T, F, m, p, defs) ==
  \A d \in defs : \E s \in T : s.id = m[<<p, d>>] /\ RowOf(F, s, <<p, d>>)
NameRows(m, k, p, defs) == {[id |-> m[<<p, d>>], name |-> d, file |-> k] : d \in defs}

(* The rows of the names a file defines, with ids from a map that fits,    *)
(* replace no row but an equal one.                                        *)
LEMMA AddNames ==
  ASSUME NEW m \in [Fqns -> Ids \cup {0}], NEW n, NEW p \in Paths, NEW k \in Ids,
         NEW F \in SUBSET FileRows, NEW S \in SUBSET SymbolRows,
         NEW defs \in SUBSET Idents, \A d \in defs : m[<<p, d>>] \in Ids,
         OneId(WithRow(F, k, p)),
         HaveFile(S, F),
         OneRow(S),
         FitsNames(m, n, F, S), KnowsNames(m, F, S)
  PROVE  LET G == WithRow(F, k, p)
             T == S \cup NameRows(m, k, p, defs)
         IN
         /\ NoClash(S, NameRows(m, k, p, defs))
         /\ HaveFile(T, G)
         /\ OneRow(T)
         /\ FitsNames(m, n, G, T) /\ KnowsNames(m, G, T)
         /\ HaveNames(T, G, m, p, defs)
PROOF
  <1> USE DEF OneId, HaveFile, OneRow
  <1> DEFINE G == WithRow(F, k, p)
             N == NameRows(m, k, p, defs)
             T == S \cup N
  <1> DEFINE row == [id |-> k, path |-> p]
  <1>1. row \in FileRows /\ row.id = k /\ row.path = p /\ G = F \cup {row}
    BY DEF FileRows, WithRow
  <1> HIDE DEF row
  <1>2. \A s \in S : \A x \in Fqns : RowOf(G, s, x) <=> RowOf(F, s, x)
    BY <1>1 DEF RowOf
  <1>3. \A s \in N : s.name \in defs /\ s.id = m[<<p, s.name>>] /\ s.file = k
                     /\ s.id \in Ids /\ s \in SymbolRows
    <2> SUFFICES ASSUME NEW d \in defs, NEW s, s = [id |-> m[<<p, d>>], name |-> d, file |-> k]
                 PROVE  s.name \in defs /\ s.id = m[<<p, s.name>>] /\ s.file = k
                        /\ s.id \in Ids /\ s \in SymbolRows
      BY DEF NameRows
    <2> QED BY DEF SymbolRows
  <1>4. \A d \in defs : <<p, d>> \in Fqns
    BY DEF Fqns
  <1>5. \A s \in N : \A x \in Fqns : RowOf(G, s, x) <=> x = <<p, s.name>>
    <2> SUFFICES ASSUME NEW s \in N, NEW x \in Fqns PROVE RowOf(G, s, x) <=> x = <<p, s.name>>
      OBVIOUS
    <2>1. x = <<x[1], x[2]>>
      BY DEF Fqns
    <2>2. \A r \in G : r.id = k <=> r.path = p
      BY <1>1
    <2>3. s.name \in defs /\ s.file = k
      BY <1>3
    <2>4. RowOf(G, s, x) <=> s.name = x[2] /\ p = x[1]
      BY <1>1, <2>2, <2>3 DEF RowOf
    <2> QED BY <2>1, <2>4
  \* a row with the id of a new one is that row
  <1>6. ASSUME NEW s \in S, NEW t \in N, s.id = t.id \/ (s.file = t.file /\ s.name = t.name)
        PROVE  s = t
    <2> DEFINE x == <<p, t.name>>
    <2>1. x \in Fqns /\ m[x] = t.id
      BY <1>3, <1>4
    <2>2. RowOf(G, s, x)
      <3>1. CASE s.id = t.id
        BY <1>2, <2>1, <3>1 DEF FitsNames
      <3>2. CASE s.file = t.file /\ s.name = t.name
        BY <1>1, <1>3, <3>2 DEF RowOf
      <3> QED BY <1>6, <3>1, <3>2
    <2>3. s.name = t.name /\ s.file = k
      BY <1>1, <2>2 DEF RowOf
    <2>4. s.id = m[x]
      BY <1>2, <2>1, <2>2 DEF KnowsNames
    <2>5. s.id = t.id /\ s.name = t.name /\ s.file = t.file
      BY <1>3, <2>1, <2>3, <2>4
    <2>6. s \in SymbolRows /\ t \in SymbolRows
      BY <1>3
    <2> QED BY <2>5, <2>6 DEF SymbolRows
  <1>7. ASSUME NEW s \in N, NEW t \in N, s.id = t.id \/ (s.file = t.file /\ s.name = t.name)
        PROVE  s = t
    <2>0. /\ s.name \in defs /\ s.id = m[<<p, s.name>>] /\ s.file = k /\ s.id \in Ids
          /\ t.name \in defs /\ t.id = m[<<p, t.name>>] /\ t.file = k
      BY <1>3
    <2>1. CASE s.name = t.name
      <3>1. s.id = t.id /\ s.file = t.file
        BY <2>0, <2>1
      <3>2. s \in SymbolRows /\ t \in SymbolRows
        BY <1>3
      <3> QED BY <2>1, <3>1, <3>2 DEF SymbolRows
    <2>2. CASE s.id = t.id
      <3>1. /\ <<p, s.name>> \in Fqns /\ <<p, t.name>> \in Fqns
            /\ m[<<p, s.name>>] = m[<<p, t.name>>] /\ m[<<p, s.name>>] # 0
        BY <1>4, <2>0, <2>2, ConstantsAssumption DEF Ids
      <3>2. <<p, s.name>> = <<p, t.name>>
        BY <3>1 DEF FitsNames
      <3> QED BY <2>1, <3>2
    <2> QED BY <1>7, <2>1, <2>2
  <1>8. NoClash(S, N)
    BY <1>6 DEF NoClash
  <1>9. HaveFile(T, G)
    BY <1>1, <1>3
  <1>10. OneRow(T)
    <2> SUFFICES ASSUME NEW s \in T, NEW t \in T,
                        s.id = t.id \/ (s.file = t.file /\ s.name = t.name)
                 PROVE  s = t
      OBVIOUS
    <2>1. CASE s \in S /\ t \in S
      BY <2>1
    <2>2. CASE s \in S /\ t \in N
      BY <1>6, <2>2
    <2>3. CASE s \in N /\ t \in S
      BY <1>6, <2>3
    <2>4. CASE s \in N /\ t \in N
      BY <1>7, <2>4
    <2> QED BY <2>1, <2>2, <2>3, <2>4
  <1>11. \A s \in N : \A x \in Fqns : m[x] = s.id => RowOf(G, s, x)
    <2> SUFFICES ASSUME NEW s \in N, NEW x \in Fqns, m[x] = s.id PROVE RowOf(G, s, x)
      OBVIOUS
    <2>1. <<p, s.name>> \in Fqns /\ m[<<p, s.name>>] = m[x] /\ m[x] # 0
      BY <1>3, <1>4, ConstantsAssumption DEF Ids
    <2>2. <<p, s.name>> = x
      BY <2>1 DEF FitsNames
    <2> QED BY <1>5, <2>2
  <1>12. FitsNames(m, n, G, T)
    <2>1. \A s \in S : \A x \in Fqns : m[x] = s.id => RowOf(G, s, x)
      BY <1>2 DEF FitsNames
    <2> QED BY <1>11, <2>1 DEF FitsNames
  <1>13. KnowsNames(m, G, T)
    <2>1. \A s \in S : \A x \in Fqns : RowOf(G, s, x) => m[x] = s.id
      BY <1>2 DEF KnowsNames
    <2>2. \A s \in N : \A x \in Fqns : RowOf(G, s, x) => m[x] = s.id
      BY <1>3, <1>5
    <2> QED BY <2>1, <2>2 DEF KnowsNames
  <1>14. ASSUME NEW d \in defs PROVE \E s \in T : s.id = m[<<p, d>>] /\ RowOf(G, s, <<p, d>>)
    <2> DEFINE s == [id |-> m[<<p, d>>], name |-> d, file |-> k]
    <2>1. s \in N /\ s.name = d /\ s.id = m[<<p, d>>]
      BY DEF NameRows
    <2> QED BY <1>4, <1>5, <2>1
  <1>15. HaveNames(T, G, m, p, defs)
    BY <1>14 DEF HaveNames
  <1> QED BY <1>8, <1>9, <1>10, <1>12, <1>13, <1>15

(* _sync_mappings_from_sink leaves a map of names that fits and knows the  *)
(* table of symbols.                                                       *)
LEMMA SyncNames ==
  ASSUME IInv, SymbolRowsInv, NamesInv, NEW i \in Indexers, BeginCall(i)
  PROVE  /\ FitsNames(smap'[i], snext'[i], files[ver[i]], symbols[ver[i]])
         /\ KnowsNames(smap'[i], files[ver[i]], symbols[ver[i]])
PROOF
  <1> USE DEF OneId, HaveFile, OneRow
  <1> DEFINE v == ver[i]
             F == files[v]
             S == symbols[v]
             m == smap[i]
             w == [x \in Fqns |-> IF Joined(v, x[1], x[2]) # {}
                                  THEN (CHOOSE s \in Joined(v, x[1], x[2]) : TRUE).id
                                  ELSE m[x]]
  <1> USE ConstantsAssumption
  <1>1. v \in Versions /\ v # None
    BY DEF BeginCall, IInv, TypeInv, TypeOK, WorkInv
  <1>2. /\ F \in SUBSET FileRows /\ S \in SUBSET SymbolRows
        /\ m \in [Fqns -> Ids \cup {0}] /\ snext[i] \in Nexts
    BY <1>1 DEF IInv, TypeInv, TypeOK
  <1>3. FitsNames(m, snext[i], F, S)
    BY <1>1 DEF NamesInv
  <1>4. /\ OneId(F)
        /\ HaveFile(S, F)
        /\ OneRow(S)
    BY <1>1 DEF IInv, OneIdPerPath, SymbolRowsInv
  <1>5. PICK n \in Nexts : IsNextAfter(n, JoinedIds(v), snext[i])
                           /\ snext' = [snext EXCEPT ![i] = n]
    BY DEF BeginCall
  <1>6. smap' = [smap EXCEPT ![i] = w]
    BY DEF BeginCall
  <1>7. smap'[i] = w /\ snext'[i] = n
    BY <1>5, <1>6 DEF IInv, TypeInv, TypeOK
  <1>8. n >= snext[i] /\ \A s \in S : s.id < n
    BY <1>4, <1>5 DEF IsNextAfter, JoinedIds
  <1>9. \A x \in Fqns : Joined(v, x[1], x[2]) = {s \in S : RowOf(F, s, x)}
    BY DEF Joined, RowOf
  <1>10. \A x \in Fqns : (\E s \in S : RowOf(F, s, x)) =>
                            \E s \in S : RowOf(F, s, x) /\ w[x] = s.id
    BY <1>9
  <1>11. \A x \in Fqns : ~(\E s \in S : RowOf(F, s, x)) => w[x] = m[x]
    BY <1>9
  <1> HIDE DEF w
  <1>12. /\ \A s \in S : \E x \in Fqns : RowOf(F, s, x)
         /\ \A s \in S : \A x, y \in Fqns : RowOf(F, s, x) /\ RowOf(F, s, y) => x = y
         /\ \A s, t \in S : \A x \in Fqns : RowOf(F, s, x) /\ RowOf(F, t, x) => s = t
    BY <1>2, <1>4, RowOfOne
  <1>13. KnowsNames(w, F, S)
    BY <1>10, <1>12 DEF KnowsNames
  <1>14. \A x \in Fqns : w[x] < n
    BY <1>2, <1>3, <1>8, <1>10, <1>11 DEF FitsNames, Ids, Nexts
  <1>15. \A s \in S : \A x \in Fqns : w[x] = s.id => RowOf(F, s, x)
    BY <1>3, <1>4, <1>10, <1>11 DEF FitsNames
  <1>16. \A x, y \in Fqns : w[x] = w[y] /\ w[x] # 0 => x = y
    <2> SUFFICES ASSUME NEW x \in Fqns, NEW y \in Fqns, w[x] = w[y], w[x] # 0 PROVE x = y
      OBVIOUS
    <2>1. CASE \E s \in S : w[x] = s.id
      <3>1. PICK s \in S : w[x] = s.id
        BY <2>1
      <3>2. RowOf(F, s, x) /\ RowOf(F, s, y)
        BY <1>15, <3>1
      <3> QED BY <1>12, <3>2
    <2>2. CASE ~\E s \in S : w[x] = s.id
      BY <1>3, <1>10, <1>11, <2>2 DEF FitsNames
    <2> QED BY <2>1, <2>2
  <1> QED BY <1>7, <1>13, <1>14, <1>15, <1>16 DEF FitsNames

(* The ids given out for the names of a file keep the map fitting.         *)
LEMMA AllocateNames ==
  ASSUME IInv, SymbolRowsInv, NamesInv, NEW i \in Indexers, pc[i] \in {"hit", "miss"},
         AllocateIds(i)
  PROVE  /\ FitsNames(smap'[i], snext'[i], files[ver[i]], symbols[ver[i]])
         /\ KnowsNames(smap'[i], files[ver[i]], symbols[ver[i]])
         /\ \A j \in Indexers : j # i => smap'[j] = smap[j] /\ snext'[j] = snext[j]
PROOF
  <1> USE DEF OneId, HaveFile, OneRow
  <1> DEFINE v == ver[i]
             F == files[v]
             S == symbols[v]
             m == smap[i]
             new == {x \in Mentions(Blob(i), origin[i]) : m[x] = 0}
  <1>1. v \in Versions /\ v # None
    BY ConstantsAssumption DEF IInv, TypeInv, TypeOK, WorkInv
  <1>2. /\ F \in SUBSET FileRows /\ S \in SUBSET SymbolRows
        /\ m \in [Fqns -> Ids \cup {0}] /\ snext[i] \in Nexts
    BY <1>1 DEF IInv, TypeInv, TypeOK
  <1>3. FitsNames(m, snext[i], F, S) /\ KnowsNames(m, F, S)
    BY <1>1 DEF NamesInv
  <1>4. new \subseteq Fqns
    <2>1. Blob(i) \in Blobs /\ Facts[Blob(i)] \in
             [defs : SUBSET Idents, uses : SUBSET (Idents \X Idents)]
      BY ConstantsAssumption DEF Blob, IInv, TypeInv, WorkInv
    <2>2. origin[i] \in Paths \cup {None}
      BY DEF IInv, TypeInv, TypeOK
    <2> QED BY <2>1, <2>2 DEF Mentions, Fqns
  <1>5. PICK top \in Nexts :
          /\ IsNextFor(top, new, snext[i])
          /\ snext' = [snext EXCEPT ![i] = top]
          /\ \E f \in Numberings(new, snext[i], top) :
               smap' = [smap EXCEPT ![i] = [x \in Fqns |-> IF x \in new THEN f[x] ELSE m[x]]]
    BY DEF AllocateIds
  <1>6. PICK f \in Numberings(new, snext[i], top) :
          smap' = [smap EXCEPT ![i] = [x \in Fqns |-> IF x \in new THEN f[x] ELSE m[x]]]
    BY <1>5
  <1>7. /\ smap'[i] = [x \in Fqns |-> IF x \in new THEN f[x] ELSE m[x]]
        /\ snext'[i] = top
        /\ \A j \in Indexers : j # i => smap'[j] = smap[j] /\ snext'[j] = snext[j]
    BY <1>5, <1>6 DEF IInv, TypeInv, TypeOK
  <1>8. \A s \in S : \E x \in Fqns : RowOf(F, s, x)
    BY <1>1, <1>2, RowOfOne DEF IInv, OneIdPerPath, SymbolRowsInv
  <1>9. \A x \in new : m[x] = 0
    OBVIOUS
  <1> HIDE DEF new
  <1>10. top >= snext[i]
    <2>1. CASE new = {}
      BY <1>2, <1>5, <2>1, FS_EmptySet, ConstantsAssumption DEF IsNextFor, Nexts
    <2>2. CASE new # {}
      BY <1>2, <1>6, <2>2, ConstantsAssumption DEF Numberings, Injection, Nexts
    <2> QED BY <2>1, <2>2
  <1> QED BY <1>2, <1>3, <1>4, <1>6, <1>7, <1>8, <1>9, <1>10, NewNamesFit

(* The commit of a file whose facts are those of its path: the table of    *)
(* symbols only gains rows, and the facts are stored.                      *)
LEMMA CommitFacts ==
  ASSUME CallersDefined, IInv, SymbolRowsInv, NamesInv, OneIdPerPath',
         NEW i \in Indexers, pc[i] \in {"hit", "miss"},
         NEW v, v = ver[i], NEW p, p = cur[i],
         IF origin[i] = None THEN NoFacts(Blob(i)) ELSE origin[i] = cur[i],
         AllocateIds(i), WriteRows(i)
  PROVE  /\ symbols[v] \subseteq symbols'[v]
         /\ symbols' = [symbols EXCEPT ![v] = symbols'[v]]
         /\ calls[v] \subseteq calls'[v]
         /\ calls' = [calls EXCEPT ![v] = calls'[v]]
         /\ HaveFile(symbols'[v], files'[v])
         /\ OneRow(symbols'[v])
         /\ FitsNames(smap'[i], snext'[i], files'[v], symbols'[v])
         /\ KnowsNames(smap'[i], files'[v], symbols'[v])
         /\ FactsStored(v, p)'
PROOF
  <1> DEFINE b == Content[v][p]
             k == fmap'[i][p]
             m == smap'[i]
             defs == Facts[b].defs
             uses == Facts[b].uses
             F == files[v]
             S == symbols[v]
             G == WithRow(F, k, p)
             N == NameRows(m, k, p, defs)
             C == {[file |-> k, caller |-> m[<<p, u[1]>>], callee |-> m[<<Unresolved, u[2]>>],
                    calleeName |-> u[2]] : u \in uses}
  <1>1. v \in Versions /\ v # None /\ p \in Paths /\ b \in Blobs /\ b = Blob(i)
    BY ConstantsAssumption DEF IInv, TypeInv, TypeOK, WorkInv, Blob
  <1>2. /\ F \in SUBSET FileRows /\ S \in SUBSET SymbolRows
        /\ files \in [Versions -> SUBSET FileRows]
        /\ symbols \in [Versions -> SUBSET SymbolRows]
        /\ calls \in [Versions -> SUBSET CallRows]
    BY <1>1 DEF IInv, TypeInv, TypeOK
  <1>3. defs \in SUBSET Idents /\ uses \in SUBSET (Idents \X Idents)
        /\ \A u \in uses : u[1] \in defs
    BY <1>1, ConstantsAssumption DEF CallersDefined
  <1>4. m \in [Fqns -> Ids \cup {0}] /\ k \in Ids
    BY AllocateType DEF IInv
  <1>5. files' = [files EXCEPT ![v] = G]
    BY CommitAdds DEF WithRow
  <1>6. files'[v] = G
    BY <1>1, <1>2, <1>5
  <1>7. symbols' = [symbols EXCEPT ![v] = Replace(S, N)]
        /\ calls' = [calls EXCEPT ![v] = calls[v] \cup C]
    <2>1. CASE origin[i] = None
      <3>1. defs = {} /\ uses = {} /\ N = {} /\ C = {}
        BY <1>1, <2>1 DEF NoFacts, NameRows
      <3>2. /\ symbols' = [symbols EXCEPT ![v] = Replace(symbols[v], {})]
            /\ calls' = [calls EXCEPT ![v] = calls[v] \cup {}]
        BY <2>1 DEF WriteRows
      <3> QED BY <3>1, <3>2
    <2>2. CASE origin[i] # None
      BY <1>1, <2>2 DEF WriteRows, NameRows
    <2> QED BY <2>1, <2>2
  <1>8. \A d \in defs : m[<<p, d>>] \in Ids
    <2>1. ASSUME NEW d \in defs PROVE <<p, d>> \in Mentions(b, origin[i])
      <3>1. origin[i] # None
        BY <1>1, <2>1 DEF NoFacts
      <3>2. origin[i] = p
        BY <3>1
      <3> QED BY <2>1, <3>1, <3>2 DEF Mentions
    <2> QED BY <1>1, <2>1, AllocateType DEF IInv
  <1>9. FitsNames(m, snext'[i], F, S) /\ KnowsNames(m, F, S)
    BY AllocateNames
  <1>10. /\ OneId(G)
         /\ HaveFile(S, F)
         /\ OneRow(S)
    BY <1>1, <1>6 DEF OneIdPerPath, OneId, SymbolRowsInv
  <1> DEFINE T == S \cup N
  <1>11. /\ T = S \cup N
         /\ F = files[v] /\ S = symbols[v] /\ m = smap'[i]
    OBVIOUS
  <1>12. b = Content[v][p] /\ defs = Facts[b].defs /\ uses = Facts[b].uses
    OBVIOUS
  <1>20. ASSUME NEW u \in uses
         PROVE  \E c \in C : c.file = k /\ c.calleeName = u[2] /\ c.caller = m[<<p, u[1]>>]
    <2> DEFINE c == [file |-> k, caller |-> m[<<p, u[1]>>],
                     callee |-> m[<<Unresolved, u[2]>>], calleeName |-> u[2]]
    <2>1. c \in C /\ c.file = k /\ c.calleeName = u[2] /\ c.caller = m[<<p, u[1]>>]
      OBVIOUS
    <2> QED BY <2>1
  <1>21. \E r \in G : r.id = k /\ r.path = p
    <2> DEFINE r == [id |-> k, path |-> p]
    <2>1. r \in G /\ r.id = k /\ r.path = p
      BY DEF WithRow
    <2> QED BY <2>1
  <1> HIDE DEF b, k, m, defs, uses, F, S, G, N, C, T
  <1>13. /\ HaveFile(T, G) /\ OneRow(T)
         /\ FitsNames(m, snext'[i], G, T) /\ KnowsNames(m, G, T)
         /\ \A d \in defs : \E s \in T : s.id = m[<<p, d>>] /\ RowOf(G, s, <<p, d>>)
         /\ Replace(S, N) = T
    <2>1. /\ m \in [Fqns -> Ids \cup {0}] /\ p \in Paths /\ k \in Ids
          /\ F \in SUBSET FileRows /\ S \in SUBSET SymbolRows
          /\ defs \in SUBSET Idents /\ \A d \in defs : m[<<p, d>>] \in Ids
      BY <1>1, <1>2, <1>3, <1>4, <1>8
    <2>2. NoClash(S, N) /\ HaveNames(T, G, m, p, defs)
      BY <1>9, <1>10, <2>1, AddNames DEF G, N, T
    <2>3. Replace(S, N) = T
      BY <2>2 DEF Replace, NoClash, T
    <2>4. HaveFile(T, G) /\ OneRow(T) /\ KnowsNames(m, G, T) /\ FitsNames(m, snext'[i], G, T)
      BY <1>9, <1>10, <2>1, AddNames DEF G, N, T
    <2>5. \A d \in defs : \E s \in T : s.id = m[<<p, d>>] /\ RowOf(G, s, <<p, d>>)
      BY <2>2 DEF HaveNames
    <2> QED BY <2>3, <2>4, <2>5
  <1>14. symbols' = [symbols EXCEPT ![v] = T] /\ calls' = [calls EXCEPT ![v] = calls[v] \cup C]
    BY <1>7, <1>11, <1>13
  <1>15. symbols'[v] = T /\ calls'[v] = calls[v] \cup C
    BY <1>1, <1>2, <1>14
  <1>16. \A d \in Idents : Joined(v, p, d)' = {s \in T : RowOf(G, s, <<p, d>>)}
    BY <1>6, <1>12, <1>15 DEF Joined, RowOf
  <1>17. RowId(v, p)' = k
    <2>1. \A r \in G : r.path = p <=> r.id = k
      BY <1>10, <1>21 DEF OneId
    <2>2. \E r \in G : r.path = p
      BY <1>21
    <2> QED BY <1>6, <1>12, <2>1, <2>2 DEF RowId
  <1>18. FactsStored(v, p)'
    <2>1. \A d \in defs : Joined(v, p, d)' # {}
      BY <1>3, <1>13, <1>16
    <2>2. ASSUME NEW u \in uses
          PROVE  \E c \in calls'[v] : /\ c.file = k /\ c.calleeName = u[2]
                                      /\ \E s \in Joined(v, p, u[1])' : s.id = c.caller
      <3>1. PICK c \in C : c.file = k /\ c.calleeName = u[2] /\ c.caller = m[<<p, u[1]>>]
        BY <1>20
      <3>2. u[1] \in defs /\ u[1] \in Idents
        BY <1>3
      <3>3. \E s \in Joined(v, p, u[1])' : s.id = m[<<p, u[1]>>]
        BY <1>13, <1>16, <3>2
      <3> QED BY <1>15, <3>1, <3>3
    <2> QED BY <1>12, <1>17, <2>1, <2>2 DEF FactsStored
  <1>19. S \subseteq T
    BY <1>11
  <1>22. /\ symbols[v] \subseteq symbols'[v] /\ calls[v] \subseteq calls'[v]
         /\ symbols' = [symbols EXCEPT ![v] = symbols'[v]]
         /\ calls' = [calls EXCEPT ![v] = calls'[v]]
    BY <1>11, <1>14, <1>15, <1>19
  <1>23. /\ HaveFile(symbols'[v], files'[v])
         /\ OneRow(symbols'[v])
    BY <1>6, <1>13, <1>15
  <1>24. /\ FitsNames(smap'[i], snext'[i], files'[v], symbols'[v])
         /\ KnowsNames(smap'[i], files'[v], symbols'[v])
    BY <1>6, <1>11, <1>13, <1>15
  <1> QED BY <1>18, <1>22, <1>23, <1>24

(* What is stored for a path stays stored when the tables grow.            *)
LEMMA FactsGrow ==
  ASSUME OneIdPerPath', NEW v \in Versions, NEW p \in Paths,
         files[v] \subseteq files'[v], symbols[v] \subseteq symbols'[v],
         calls[v] \subseteq calls'[v], HasRow(v, p), FactsStored(v, p)
  PROVE  FactsStored(v, p)'
PROOF
  <1>1. \A n : Joined(v, p, n) \subseteq Joined(v, p, n)'
    BY DEF Joined
  <1>2. RowId(v, p)' = RowId(v, p)
    <2>1. PICK r \in files[v] : r.path = p /\ r.id = RowId(v, p)
      BY DEF HasRow, RowId
    <2>2. \A q \in files'[v] : q.path = p => q.id = r.id
      BY <2>1 DEF OneIdPerPath
    <2> QED BY <2>1, <2>2 DEF RowId
  <1> DEFINE b == Content[v][p]
  <1>3. \A d \in Facts[b].defs : Joined(v, p, d)' # {}
    BY <1>1 DEF FactsStored
  <1>4. ASSUME NEW u \in Facts[b].uses
        PROVE  \E c \in calls'[v] : /\ c.file = RowId(v, p)' /\ c.calleeName = u[2]
                                    /\ \E s \in Joined(v, p, u[1])' : s.id = c.caller
    <2>1. PICK c \in calls[v] : /\ c.file = RowId(v, p) /\ c.calleeName = u[2]
                                /\ \E s \in Joined(v, p, u[1]) : s.id = c.caller
      BY DEF FactsStored
    <2> QED BY <1>1, <1>2, <2>1
  <1> QED BY <1>3, <1>4 DEF FactsStored

(* A step that leaves the tables and the maps of names alone, and begins   *)
(* no call.                                                                *)
LEMMA TablesSame ==
  ASSUME IInv, SymbolRowsInv, NamesInv, RowsHaveFacts,
         UNCHANGED <<files, symbols, calls>>,
         \A i \in Indexers :
           \/ /\ ver'[i] = ver[i] /\ smap'[i] = smap[i] /\ snext'[i] = snext[i]
              /\ pc'[i] = "off" => pc[i] = "off"
              /\ pc[i] = "idle" => pc'[i] = "idle"
           \/ ver'[i] = None /\ smap'[i] = NoSymbolIds
  PROVE  SymbolRowsInv' /\ NamesInv' /\ RowsHaveFacts'
PROOF
  <1>1. SymbolRowsInv' /\ RowsHaveFacts'
    BY DEF SymbolRowsInv, RowsHaveFacts, HasRow, FactsStored, RowId, Joined
  <1>2. NamesInv'
    BY DEF NamesInv, IInv, TypeInv, WorkInv
  <1> QED BY <1>1, <1>2

(* The commit of a file keeps the facts of every other one.                *)
LEMMA CommitKeepsFacts ==
  ASSUME CallersDefined, IInv, SymbolRowsInv, NamesInv, RowsHaveFacts, IInv',
         NEW i \in Indexers, pc[i] \in {"hit", "miss"},
         IF origin[i] = None THEN NoFacts(Blob(i)) ELSE origin[i] = cur[i],
         AllocateIds(i), WriteRows(i), UNCHANGED ver,
         NEW s, s # "off", pc' = [pc EXCEPT ![i] = s]
  PROVE  SymbolRowsInv' /\ NamesInv' /\ RowsHaveFacts'
PROOF
  <1>1. PICK v, p : v = ver[i] /\ p = cur[i]
    OBVIOUS
  <1>2. v \in Versions /\ v # None /\ p \in Paths
    BY <1>1, ConstantsAssumption DEF IInv, TypeInv, TypeOK, WorkInv
  <1>3. OneIdPerPath'
    BY DEF IInv
  <1>4. /\ symbols[v] \subseteq symbols'[v]
        /\ symbols' = [symbols EXCEPT ![v] = symbols'[v]]
        /\ calls[v] \subseteq calls'[v]
        /\ calls' = [calls EXCEPT ![v] = calls'[v]]
        /\ HaveFile(symbols'[v], files'[v])
        /\ OneRow(symbols'[v])
        /\ FitsNames(smap'[i], snext'[i], files'[v], symbols'[v])
        /\ KnowsNames(smap'[i], files'[v], symbols'[v])
        /\ FactsStored(v, p)'
    BY <1>1, <1>3, CommitFacts
  <1>5. files' = [files EXCEPT ![v] = @ \cup {[id |-> fmap'[i][p], path |-> p]}]
    BY <1>1, CommitAdds
  <1>6. /\ files \in [Versions -> SUBSET FileRows]
        /\ symbols \in [Versions -> SUBSET SymbolRows]
        /\ calls \in [Versions -> SUBSET CallRows]
        /\ pc \in [Indexers -> Stages]
    BY DEF IInv, TypeInv, TypeOK
  <1>7. \A w \in Versions : w # v => /\ files'[w] = files[w]
                                     /\ symbols'[w] = symbols[w] /\ calls'[w] = calls[w]
    BY <1>4, <1>5, <1>6
  <1>8. /\ \A w \in Versions : files[w] \subseteq files'[w]
        /\ \A r \in files'[v] : r \in files[v] \/ r.path = p
    BY <1>2, <1>5, <1>6
  <1>9. SymbolRowsInv'
    BY <1>4, <1>7 DEF SymbolRowsInv
  <1>10. NamesInv'
    <2>1. \A j \in Indexers : j # i => /\ smap'[j] = smap[j] /\ snext'[j] = snext[j]
                                       /\ pc'[j] = pc[j]
      BY <1>6, AllocateNames
    <2>2. \A j \in Indexers : j # i /\ ver[j] # None => ver[j] \in Versions /\ ver[j] # v
      BY <1>1, <1>2 DEF OneRun, IInv, TypeInv, TypeOK
    <2>3. pc'[i] # "off" /\ ver'[i] = v
      BY <1>1, <1>6
    <2>4. ASSUME NEW j \in Indexers
          PROVE  /\ pc'[j] = "off" => smap'[j] = NoSymbolIds
                 /\ ver'[j] # None => FitsNames(smap'[j], snext'[j], files'[ver'[j]], symbols'[ver'[j]])
                 /\ ver'[j] # None /\ pc'[j] # "idle" =>
                      KnowsNames(smap'[j], files'[ver'[j]], symbols'[ver'[j]])
      <3>1. CASE j = i
        BY <1>4, <2>3, <3>1
      <3>2. CASE j # i
        BY <1>7, <2>1, <2>2, <3>2 DEF NamesInv
      <3> QED BY <3>1, <3>2
    <2> QED BY <2>4 DEF NamesInv
  <1>11. RowsHaveFacts'
    <2> SUFFICES ASSUME NEW w \in Versions, NEW q \in Paths, HasRow(w, q)'
                 PROVE  FactsStored(w, q)'
      BY DEF RowsHaveFacts
    <2>1. CASE w = v /\ q = p
      BY <1>4, <2>1
    <2>2. CASE ~(w = v /\ q = p)
      <3>1. HasRow(w, q)
        BY <1>7, <1>8, <2>2 DEF HasRow
      <3>2. FactsStored(w, q)
        BY <3>1 DEF RowsHaveFacts
      <3>3. symbols[w] \subseteq symbols'[w] /\ calls[w] \subseteq calls'[w]
        BY <1>4, <1>7
      <3> QED BY <1>3, <1>8, <3>1, <3>2, <3>3, FactsGrow
    <2> QED BY <2>1, <2>2
  <1> QED BY <1>9, <1>10, <1>11

(* A step that leaves the cache alone, writes no blob into a record and    *)
(* brings no file to a new stage.                                          *)
LEMMA CacheSame ==
  ASSUME CacheInv, UNCHANGED cache,
         \A v \in Versions, p \in Paths : mat'[v][p].blob \in {None, mat[v][p].blob},
         \A i \in Indexers :
           \/ pc'[i] \in {"off", "idle", "batch", "miss"}
           \/ UNCHANGED <<pc[i], ver[i], cur[i], origin[i]>>
  PROVE  CacheInv'
PROOF
  <1>1. ASSUME NEW v \in Versions, NEW p \in Paths, mat'[v][p].blob # None
        PROVE  Kept(mat[v][p].blob)' /\ mat'[v][p].blob = mat[v][p].blob
    BY <1>1 DEF CacheInv, Kept
  <1>2. ASSUME NEW i \in Indexers
        PROVE  /\ pc'[i] # "raised"
               /\ pc'[i] = "hit" => IF origin'[i] = None THEN NoFacts(Blob(i))'
                                    ELSE origin'[i] = cur'[i] /\ cache'[Blob(i)'] # None
               /\ pc'[i] = "record" => Kept(Blob(i))'
    <2>1. CASE pc'[i] \in {"off", "idle", "batch", "miss"}
      BY <2>1
    <2>2. CASE UNCHANGED <<pc[i], ver[i], cur[i], origin[i]>>
      BY <2>2 DEF CacheInv, Kept, Blob, NoFacts
    <2> QED BY <2>1, <2>2
  <1> QED BY <1>1, <1>2 DEF CacheInv, Kept

(* A file is found in the cache only with its own facts, or has none.      *)
LEMMA CacheStart ==
  ASSUME SeparateFiles, IInv, CacheInv, NEW i \in Indexers, NEW p \in Paths, StartFile(i, p)
  PROVE  CacheInv'
PROOF
  <1> DEFINE b == Content[ver[i]][p]
             known == \E v \in Versions, q \in Paths : mat[v][q].blob = b
  <1>1. /\ UNCHANGED <<cache, mat, ver>> /\ b # None
        /\ cur' = [cur EXCEPT ![i] = p]
        /\ pc' = [pc EXCEPT ![i] = IF cache[b] # None \/ known THEN "hit" ELSE "miss"]
        /\ origin' = [origin EXCEPT ![i] = IF cache[b] # None THEN cache[b]
                                           ELSE IF known THEN None ELSE p]
    BY DEF StartFile, db
  <1>2. /\ ver[i] \in Versions /\ b \in Blobs
        /\ pc \in [Indexers -> Stages] /\ cur \in [Indexers -> Paths \cup {None}]
        /\ origin \in [Indexers -> Paths \cup {None}] /\ cache[b] \in Paths \cup {None}
    BY <1>1, ConstantsAssumption DEF StartFile, IInv, TypeInv, TypeOK, WorkInv
  <1>3. cache[b] # None => cache[b] = p
    <2> SUFFICES ASSUME cache[b] # None PROVE cache[b] = p
      OBVIOUS
    <2>1. PICK v \in Versions : Content[v][cache[b]] = b
      BY <1>2 DEF CacheInv
    <2> QED BY <1>1, <1>2, <2>1 DEF SeparateFiles
  <1>4. cache[b] = None /\ known => NoFacts(b)
    BY <1>1 DEF CacheInv, Kept
  <1>5. ASSUME NEW j \in Indexers
        PROVE  /\ pc'[j] # "raised"
               /\ pc'[j] = "hit" => IF origin'[j] = None THEN NoFacts(Blob(j)')
                                    ELSE origin'[j] = cur'[j] /\ cache'[Blob(j)'] # None
               /\ pc'[j] = "record" => Kept(Blob(j))'
    <2>1. CASE j = i
      <3>1. Blob(j)' = b
        BY <1>1, <1>2, <2>1 DEF Blob
      <3>2. /\ pc'[j] = IF cache[b] # None \/ known THEN "hit" ELSE "miss"
            /\ origin'[j] = (IF cache[b] # None THEN cache[b] ELSE IF known THEN None ELSE p)
            /\ cur'[j] = p
        BY <1>1, <1>2, <2>1
      <3> QED BY <1>1, <1>2, <1>3, <1>4, <3>1, <3>2
    <2>2. CASE j # i
      <3>1. pc'[j] = pc[j] /\ cur'[j] = cur[j] /\ origin'[j] = origin[j] /\ Blob(j)' = Blob(j)
        BY <1>1, <1>2, <2>2 DEF Blob
      <3> QED BY <1>1, <3>1 DEF CacheInv, Kept
    <2> QED BY <2>1, <2>2
  <1> QED BY <1>1, <1>5 DEF CacheInv, Kept, NoFacts

(* A record takes the blob of a file whose facts are kept.                 *)
LEMMA CacheRecord ==
  ASSUME IInv, CacheInv, NEW i \in Indexers, Kept(Blob(i)), pc[i] \in {"hit", "record"},
         mat' = [mat EXCEPT ![ver[i]][cur[i]] = [status |-> "indexed", blob |-> Blob(i)]],
         pc' = [pc EXCEPT ![i] = "batch"], UNCHANGED <<cache, ver, cur, origin>>
  PROVE  CacheInv'
PROOF
  <1>1. /\ mat \in [Versions -> [Paths -> Record \cup {NoRecord}]]
        /\ pc \in [Indexers -> Stages]
    BY DEF IInv, TypeInv, TypeOK
  <1> DEFINE b == Blob(i)
  <1>2. \A v \in Versions, p \in Paths : mat'[v][p].blob \in {b, mat[v][p].blob}
    BY <1>1
  <1>3. \A v \in Versions, p \in Paths : mat'[v][p].blob # None => Kept(mat'[v][p].blob)
    BY <1>2 DEF CacheInv
  <1>4. \A j \in Indexers : /\ pc'[j] = "batch" \/ pc'[j] = pc[j]
                            /\ Blob(j)' = Blob(j)
    BY <1>1 DEF Blob
  <1>5. cache' = cache
    OBVIOUS
  <1> HIDE DEF b
  <1>6. \A v \in Versions, p \in Paths : mat'[v][p].blob # None => Kept(mat[v][p].blob)'
    BY <1>3, <1>5 DEF Kept, NoFacts
  <1>7. \A j \in Indexers :
          /\ pc'[j] # "raised"
          /\ pc'[j] = "hit" => IF origin'[j] = None THEN NoFacts(Blob(j))'
                               ELSE origin'[j] = cur'[j] /\ cache'[Blob(j)'] # None
          /\ pc'[j] = "record" => Kept(Blob(j))'
    BY <1>4, <1>5 DEF CacheInv, Kept, NoFacts
  <1>8. \A x \in Blobs : cache'[x] # None => \E v \in Versions : Content[v][cache'[x]] = x
    BY <1>5 DEF CacheInv
  <1> QED BY <1>6, <1>7, <1>8 DEF CacheInv, Kept, NoFacts

(* The first commit of a missed file keeps its facts, if it has any.       *)
LEMMA CacheMiss ==
  ASSUME IInv, CacheInv, NEW i \in Indexers, IndexMiss(i)
  PROVE  CacheInv'
PROOF
  <1> DEFINE b == Blob(i)
             some == cache[b] = None /\ Mentions(b, cur[i]) # {}
  <1>1. /\ cache' = IF some THEN [cache EXCEPT ![b] = cur[i]] ELSE cache
        /\ pc' = [pc EXCEPT ![i] = "record"]
        /\ UNCHANGED <<mat, ver, cur, origin>>
    BY DEF IndexMiss
  <1>2. /\ b \in Blobs /\ ver[i] \in Versions /\ cur[i] \in Paths /\ b = Content[ver[i]][cur[i]]
        /\ cache \in [Blobs -> Paths \cup {None}] /\ pc \in [Indexers -> Stages] /\ cur[i] # None
    BY ConstantsAssumption DEF IndexMiss, IInv, TypeInv, TypeOK, WorkInv, Blob
  <1>3. \A x \in Blobs : cache'[x] = IF x = b /\ some THEN cur[i] ELSE cache[x]
    BY <1>1, <1>2
  <1>4. cache'[b] # None \/ NoFacts(b)
    <2> SUFFICES ASSUME Mentions(b, cur[i]) = {} PROVE NoFacts(b)
      BY <1>2, <1>3
    <2>1. \A d \in Facts[b].defs : <<cur[i], d>> \in Mentions(b, cur[i])
      BY <1>2 DEF Mentions
    <2>2. \A u \in Facts[b].uses : <<Unresolved, u[2]>> \in Mentions(b, cur[i])
      BY <1>2 DEF Mentions
    <2> QED BY <2>1, <2>2 DEF NoFacts
  <1>5. \A x : Kept(x) /\ x \in Blobs => Kept(x)'
    BY <1>2, <1>3 DEF Kept, NoFacts
  <1>6. \A x \in Blobs : cache'[x] # None => \E v \in Versions : Content[v][cache'[x]] = x
    BY <1>2, <1>3 DEF CacheInv
  <1>7. \A v \in Versions, p \in Paths : mat[v][p].blob \in Blobs \cup {None}
    BY DEF IInv, TypeInv, TypeOK, Record, NoRecord
  <1>8. ASSUME NEW j \in Indexers
        PROVE  /\ pc'[j] # "raised"
               /\ pc'[j] = "hit" => IF origin'[j] = None THEN NoFacts(Blob(j)')
                                    ELSE origin'[j] = cur'[j] /\ cache'[Blob(j)'] # None
               /\ pc'[j] = "record" => Kept(Blob(j))'
    <2>0. Blob(j)' = Blob(j) /\ (pc[j] \in {"hit", "record"} => Blob(j) \in Blobs)
      BY <1>1 DEF Blob, IInv, TypeInv, WorkInv
    <2>1. CASE j = i
      BY <1>1, <1>2, <1>4, <2>0, <2>1 DEF Kept, NoFacts
    <2>2. CASE j # i
      BY <1>1, <1>2, <1>3, <1>5, <2>0, <2>2 DEF CacheInv, Kept, NoFacts
    <2> QED BY <2>1, <2>2
  <1>9. \A v \in Versions, p \in Paths : mat'[v][p].blob # None => Kept(mat[v][p].blob)'
    BY <1>1, <1>5, <1>7 DEF CacheInv
  <1> QED BY <1>1, <1>6, <1>8, <1>9 DEF CacheInv, Kept, NoFacts

(* Every step keeps what is stored, and what the cache and the maps say.   *)
LEMMA FactsStep ==
  ASSUME ~ConcurrentRuns, ~StorageErrors, ~ParseErrors, ~Reservations,
         SeparateFiles, CallersDefined, IInv, FactsInv, [Next]_vars
  PROVE  FactsInv'
PROOF
  <1> USE DEF FactsInv
  <1>0. TypeOK /\ WorkInv /\ IInv' /\ OneIdPerPath'
    BY IInvStep DEF IInv, TypeInv
  <1> DEFINE Tables == SymbolRowsInv' /\ NamesInv' /\ RowsHaveFacts'
  <1>1. ASSUME NEW h \in Hosts, OpenStore(h) PROVE FactsInv'
    <2>1. Tables
      BY <1>1, TablesSame DEF OpenStore, maps, symbolIds
    <2>2. \A v \in Versions, p \in Paths : mat'[v][p].blob \in {None, mat[v][p].blob}
      BY <1>0, <1>1 DEF OpenStore, TypeOK, NoRecord
    <2>3. CacheInv'
      BY <1>1, <2>2, CacheSame DEF OpenStore
    <2> QED BY <2>1, <2>3
  <1>2. ASSUME NEW h \in Hosts, Crash(h) PROVE FactsInv'
    <2>1. Tables
      BY <1>0, <1>2, TablesSame DEF Crash, db, TypeOK
    <2>2. CacheInv'
      BY <1>0, <1>2, CacheSame DEF Crash, db, TypeOK
    <2> QED BY <2>1, <2>2
  <1>3. ASSUME NEW h \in Hosts, NEW v \in Versions, NEW S \in (SUBSET Paths) \ {{}},
               ReserveFileIds(h, v, S)
        PROVE  FactsInv'
    BY <1>3 DEF ReserveFileIds
  <1>4. ASSUME NEW i \in Indexers, NEW v \in Versions, NewIndexer(i, v) PROVE FactsInv'
    <2>1. Tables
      <3>1. pc[i] = "off" /\ smap[i] = NoSymbolIds
        BY <1>0, <1>4 DEF NewIndexer, WorkInv, NamesInv
      <3>2. /\ UNCHANGED <<files, symbols, calls, smap, snext>>
            /\ ver' = [ver EXCEPT ![i] = v] /\ pc' = [pc EXCEPT ![i] = "idle"]
        BY <1>4 DEF NewIndexer, db, maps, symbolIds
      <3>3. \A s \in symbols[v] : s.id \in Ids
        BY <1>0 DEF TypeOK, SymbolRows
      <3>4. FitsNames(smap[i], snext[i], files[v], symbols[v])
        BY <1>0, <3>1, <3>3, ConstantsAssumption DEF FitsNames, NoSymbolIds, TypeOK, Nexts, Ids
      <3>5. SymbolRowsInv' /\ RowsHaveFacts'
        BY <3>2 DEF SymbolRowsInv, RowsHaveFacts, HasRow, FactsStored, RowId, Joined
      <3>6. NamesInv'
        <4> SUFFICES ASSUME NEW j \in Indexers
                     PROVE  /\ pc'[j] = "off" => smap'[j] = NoSymbolIds
                            /\ ver'[j] # None =>
                                 FitsNames(smap'[j], snext'[j], files'[ver'[j]], symbols'[ver'[j]])
                            /\ ver'[j] # None /\ pc'[j] # "idle" =>
                                 KnowsNames(smap'[j], files'[ver'[j]], symbols'[ver'[j]])
          BY DEF NamesInv
        <4>1. CASE j = i
          BY <1>0, <3>2, <3>4, <4>1 DEF TypeOK
        <4>2. CASE j # i
          BY <1>0, <3>2, <4>2 DEF NamesInv, TypeOK
        <4> QED BY <4>1, <4>2
      <3> QED BY <3>5, <3>6
    <2>2. CacheInv'
      BY <1>0, <1>4, CacheSame DEF NewIndexer, db, TypeOK
    <2> QED BY <2>1, <2>2
  <1>5. ASSUME NEW i \in Indexers, NEW p \in Paths, StartFile(i, p) PROVE FactsInv'
    <2>1. Tables
      BY <1>0, <1>5, TablesSame DEF StartFile, db, maps, symbolIds, TypeOK
    <2>2. CacheInv'
      BY <1>5, CacheStart
    <2> QED BY <2>1, <2>2
  <1>6. ASSUME NEW i \in Indexers, DropIndexer(i) PROVE FactsInv'
    <2>1. Tables
      BY <1>0, <1>6, TablesSame DEF DropIndexer, db, TypeOK
    <2>2. CacheInv'
      BY <1>0, <1>6, CacheSame DEF DropIndexer, db, TypeOK
    <2> QED BY <2>1, <2>2
  <1>7. ASSUME NEW i \in Indexers, BeginCall(i) PROVE FactsInv'
    <2>1. /\ FitsNames(smap'[i], snext'[i], files[ver[i]], symbols[ver[i]])
          /\ KnowsNames(smap'[i], files[ver[i]], symbols[ver[i]])
      BY <1>7, SyncNames
    <2>2. UNCHANGED <<files, symbols, calls, cache, mat, ver, cur, origin>>
          /\ pc' = [pc EXCEPT ![i] = "batch"]
      BY <1>7 DEF BeginCall, db
    <2>3. \A j \in Indexers : j # i =>
            smap'[j] = smap[j] /\ snext'[j] = snext[j] /\ pc'[j] = pc[j]
      BY <1>0, <1>7 DEF BeginCall, TypeOK
    <2>4. NamesInv'
      BY <1>0, <2>1, <2>2, <2>3 DEF NamesInv, TypeOK
    <2>5. SymbolRowsInv' /\ RowsHaveFacts'
      BY <2>2 DEF SymbolRowsInv, RowsHaveFacts, HasRow, FactsStored, RowId, Joined
    <2>6. CacheInv'
      BY <1>0, <2>2, CacheSame DEF TypeOK
    <2> QED BY <2>4, <2>5, <2>6
  <1>8. ASSUME NEW i \in Indexers, IndexHit(i) PROVE FactsInv'
    <2>1. /\ pc[i] = "hit" /\ AllocateIds(i) /\ WriteRows(i)
          /\ mat' = [mat EXCEPT ![ver[i]][cur[i]] = [status |-> "indexed", blob |-> Blob(i)]]
          /\ pc' = [pc EXCEPT ![i] = "batch"] /\ UNCHANGED <<cache, ver, cur, origin>>
      BY <1>8 DEF IndexHit
    <2>2. IF origin[i] = None THEN NoFacts(Blob(i))
          ELSE origin[i] = cur[i] /\ cache[Blob(i)] # None
      BY <2>1 DEF CacheInv
    <2>3. Tables
      BY <1>0, <2>1, <2>2, CommitKeepsFacts
    <2>4. CacheInv'
      BY <2>1, <2>2, CacheRecord DEF Kept
    <2> QED BY <2>3, <2>4
  <1>9. ASSUME NEW i \in Indexers, IndexMiss(i) PROVE FactsInv'
    <2>1. /\ pc[i] = "miss" /\ AllocateIds(i) /\ WriteRows(i)
          /\ pc' = [pc EXCEPT ![i] = "record"] /\ UNCHANGED ver
      BY <1>9 DEF IndexMiss
    <2>2. origin[i] = cur[i] /\ origin[i] # None
      BY <1>0, <2>1, ConstantsAssumption DEF WorkInv
    <2>3. Tables
      BY <1>0, <2>1, <2>2, CommitKeepsFacts
    <2>4. CacheInv'
      BY <1>9, CacheMiss
    <2> QED BY <2>3, <2>4
  <1>10. ASSUME NEW i \in Indexers, IndexMissUnsaved(i) PROVE FactsInv'
    BY <1>10 DEF IndexMissUnsaved
  <1>11. ASSUME NEW i \in Indexers, RecordIndexed(i) PROVE FactsInv'
    <2>1. Tables
      BY <1>0, <1>11, TablesSame DEF RecordIndexed, maps, symbolIds, TypeOK
    <2>2. Kept(Blob(i))
      BY <1>11 DEF RecordIndexed, CacheInv
    <2>3. CacheInv'
      BY <1>11, <2>2, CacheRecord DEF RecordIndexed
    <2> QED BY <2>1, <2>3
  <1>12. ASSUME NEW i \in Indexers, Raise(i) PROVE FactsInv'
    BY <1>12 DEF Raise
  <1>13. ASSUME NEW i \in Indexers, RecordFailed(i) PROVE FactsInv'
    BY <1>13 DEF RecordFailed, CacheInv
  <1>14. ASSUME NEW i \in Indexers, EndCall(i) PROVE FactsInv'
    <2>1. Tables
      BY <1>0, <1>14, TablesSame DEF EndCall, db, maps, symbolIds, TypeOK
    <2>2. CacheInv'
      BY <1>0, <1>14, CacheSame DEF EndCall, db, TypeOK
    <2> QED BY <2>1, <2>2
  <1>15. CASE UNCHANGED vars
    <2>1. UNCHANGED <<files, symbols, calls, cache, mat, ver, pc, cur, origin, smap, snext>>
      BY <1>15 DEF vars, db, maps, symbolIds
    <2> QED BY <2>1, TablesSame, CacheSame
  <1> QED
    BY <1>1, <1>2, <1>3, <1>4, <1>5, <1>6, <1>7, <1>8, <1>9, <1>10, <1>11, <1>12,
       <1>13, <1>14, <1>15 DEF Next

(* A path recorded "indexed" is one whose facts can be queried: whatever   *)
(* the order of runs, hits and misses, through crashes between any two     *)
(* commits and the back-fill on opening the store.                         *)
THEOREM IndexedHasFactsHolds ==
  ~ConcurrentRuns /\ ~StorageErrors /\ ~ParseErrors /\ ~Reservations
    /\ SeparateFiles /\ CallersDefined => (Spec => []IndexedHasFacts)
PROOF
  <1> SUFFICES ASSUME ~ConcurrentRuns, ~StorageErrors, ~ParseErrors, ~Reservations,
                      SeparateFiles, CallersDefined
               PROVE  Spec => []IndexedHasFacts
    OBVIOUS
  <1>1. Init => FactsInv
    BY ConstantsAssumption
    DEF Init, FactsInv, SymbolRowsInv, HaveFile, OneRow, NamesInv, CacheInv, RowsHaveFacts,
        HasRow, NoRecord
  <1>2. Init => RowInv /\ IndexedHasRow
    BY DEF Init, RowInv, IndexedHasRow, Indexed, NoRecord
  <1>3. IInv /\ [Next]_vars => IInv'
    BY IInvStep
  <1>4. IInv /\ RowInv /\ IndexedHasRow /\ [Next]_vars => RowInv' /\ IndexedHasRow'
    BY RowStep
  <1>5. IInv /\ FactsInv /\ [Next]_vars => FactsInv'
    BY FactsStep
  <1>6. FactsInv /\ IndexedHasRow => IndexedHasFacts
    BY DEF FactsInv, RowsHaveFacts, IndexedHasRow, IndexedHasFacts
  <1> QED BY IInvInit, <1>1, <1>2, <1>3, <1>4, <1>5, <1>6, PTL DEF Spec
=============================================================================
