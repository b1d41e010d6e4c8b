-------------------------- MODULE ResolutionProofs --------------------------
(***************************************************************************)
(* Proofs about Resolution, for every number of views, files and           *)
(* requirements, every budget and every batch size.                        *)
(***************************************************************************)
EXTENDS Resolution, TLAPS

\* what a query needs and the store lacks
Missing(v) == Relevant(req[v]) \ IndexedPaths

\* stages in which a query is being resolved
Resolving == {"plan", "scan", "check", "fetch", "index", "full", "fetchAll", "indexAll"}

\* whatever is missing is on its way, unless the query was given up: still to be
\* found by the search, planned, to be fetched, or fetched and to be indexed
Covered(v) ==
  /\ pc[v] = "scan" =>
       \A p \in Missing(v) : p \in plan[v] \/ p \in todo[v] \cap Matches[req[v]]
  /\ pc[v] = "check" /\ Tried(v, req[v]) => Missing(v) \subseteq plan[v]
  /\ pc[v] \in {"fetch", "index"} /\ Tried(v, req[v]) =>
       Missing(v) \subseteq todo[v] \cup batch[v]
  /\ pc[v] \in {"fetchAll", "indexAll"} =>
       Unindexed(Paths) \subseteq todo[v] \cup batch[v]
  /\ pc[v] \notin {"index", "indexAll"} => batch[v] = {}

CoverInv == TypeOK /\ \A v \in Views : Covered(v)

\* the state of view w is left alone
Same(w) ==
  /\ pc'[w] = pc[w] /\ req'[w] = req[w] /\ resolved'[w] = resolved[w]
  /\ seen'[w] = seen[w] /\ saw'[w] = saw[w]
  /\ plan'[w] = plan[w] /\ todo'[w] = todo[w] /\ batch'[w] = batch[w]
  /\ answer'[w] = answer[w] /\ outcome'[w] = outcome[w] /\ gaveUp'[w] = gaveUp[w]

\* no provider leaves blobs out, and no file fails to be indexed
Faithful == ~Omissions /\ ~IndexErrors

-----------------------------------------------------------------------------
(* Type correctness.                                                       *)

LEMMA TypeInit == Init => TypeOK
  <1> SUFFICES ASSUME Init PROVE TypeOK
    OBVIOUS
  <1>1. 0 \in 0 .. MaxRestarts
    <2>1. MaxRestarts \in Nat
      BY ConstantsAssumption
    <2> QED BY <2>1
  <1>2. NoAnswer \in Answers /\ NoOutcome \in Outcomes
    BY DEF NoAnswer, Answers, NoOutcome, Outcomes
  <1>3. "idle" \in Stages
    BY DEF Stages
  <1>4. /\ answer \in [Views -> Answers] /\ outcome \in [Views -> Outcomes]
        /\ pc \in [Views -> Stages] /\ gaveUp \in [Views -> SUBSET Reqs]
    BY <1>2, <1>3 DEF Init
  <1> QED BY <1>1, <1>4 DEF Init, TypeOK

LEMMA TypeStep == TypeOK /\ [Next]_vars => TypeOK'
  <1> SUFFICES ASSUME TypeOK, [Next]_vars PROVE TypeOK'
    OBVIOUS
  <1> USE DEF TypeOK
  <1>0. /\ MaxRestarts \in Nat
        /\ None \notin Reqs
        /\ Own \in [Reqs -> Paths \cup {None}]
        /\ Matches \in [Reqs -> SUBSET Paths]
    BY ConstantsAssumption
  <1>1. ASSUME NEW v \in Views, NEW r \in Reqs, Ask(v, r) PROVE TypeOK'
    BY <1>0, <1>1 DEF Ask, Goto, Stages, store, work, results
  <1>2. ASSUME NEW v \in Views, ReadFacts(v) PROVE TypeOK'
    BY <1>0, <1>2 DEF ReadFacts, Goto, IndexedPaths, Stages, store, work, results
  <1>3. ASSUME NEW v \in Views, ReadFlag(v) PROVE TypeOK'
    <2>1. StoreComplete(req[v]) \in BOOLEAN
      <3>1. CASE Own[req[v]] = None
        BY <3>1 DEF StoreComplete
      <3>2. CASE Own[req[v]] # None
        BY <3>2 DEF StoreComplete
      <3> QED BY <3>1, <3>2
    <2> QED
      BY <1>0, <1>3, <2>1 DEF ReadFlag, Goto, Stages, store, work, results
  <1>4. ASSUME NEW v \in Views, Resolve(v) PROVE TypeOK'
    BY <1>0, <1>4 DEF Resolve, DropResult, Goto, Stages, store, work, results
  <1>5. ASSUME NEW v \in Views, Answer(v) PROVE TypeOK'
    BY <1>0, <1>5 DEF Answer, DropResult, Goto, Stages, Answers, store, work
  <1>6. ASSUME NEW v \in Views, Raise(v) PROVE TypeOK'
    BY <1>0, <1>6 DEF Raise, Replace, DropResult, Goto, Stages, Answers, Outcomes,
                      NoAnswer, NoOutcome, store
  <1>7. ASSUME NEW v \in Views, Restart(v) PROVE TypeOK'
    BY <1>0, <1>7 DEF Restart, Replace, DropResult, Goto, Stages, Answers, Outcomes,
                      NoAnswer, NoOutcome, store
  <1>8. ASSUME NEW v \in Views, PlanFile(v) \/ PlanSearch(v) \/ PlanUnknown(v) PROVE TypeOK'
    <2>1. CASE PlanFile(v)
      BY <1>0, <2>1 DEF PlanFile, Goto, Unindexed, Stages, store, query, results
    <2>2. CASE PlanSearch(v)
      BY <1>0, <2>2 DEF PlanSearch, Goto, Unindexed, Stages, store, query, results
    <2>3. CASE PlanUnknown(v)
      BY <1>0, <2>3 DEF PlanUnknown, GivesUp, Goto, Stages, store, query, work, results
    <2> QED BY <1>8, <2>1, <2>2, <2>3
  <1>9. ASSUME NEW v \in Views, ScanBatch(v) PROVE TypeOK'
    BY <1>0, <1>9 DEF ScanBatch, Goto, Batches, Returned, Stages, store,
                      query, results
  <1>10. ASSUME NEW v \in Views, CheckNone(v) PROVE TypeOK'
    BY <1>0, <1>10 DEF CheckNone, Return, Goto, Stages, Outcomes, store, query
  <1>11. ASSUME NEW v \in Views, CheckAllowed(v) PROVE TypeOK'
    BY <1>0, <1>11 DEF CheckAllowed, Goto, Unindexed, Stages, store, query, results
  <1>12. ASSUME NEW v \in Views, CheckDenied(v) PROVE TypeOK'
    <2>1. gaveUp' \in [Views -> SUBSET Reqs] /\ pc' \in [Views -> Stages] /\ pc'[v] # "idle"
      BY <1>0, <1>12 DEF CheckDenied, GivesUp, Goto, Stages
    <2>2. \A w \in Views : w # v => pc'[w] = pc[w]
      BY <1>12 DEF CheckDenied, Goto
    <2>3. outcome' \in [Views -> Outcomes] /\ plan' \in [Views -> SUBSET Paths]
      BY <1>0, <1>12 DEF CheckDenied, Outcomes
    <2>4. pc[v] = "check" /\ UNCHANGED <<store, query, todo, batch, answer, restarts>>
      BY <1>12 DEF CheckDenied
    <2> QED BY <1>0, <2>1, <2>2, <2>3, <2>4 DEF store, query
  <1>13. ASSUME NEW v \in Views, FetchBatch(v) PROVE TypeOK'
    BY <1>0, <1>13 DEF FetchBatch, Goto, Batches, Returned, Stages, store,
                       query, results
  <1>14. ASSUME NEW v \in Views, NEW p \in Paths, IndexFile(v, p) PROVE TypeOK'
    BY <1>0, <1>14 DEF IndexFile, query, results
  <1>15. ASSUME NEW v \in Views, NextBatch(v) PROVE TypeOK'
    BY <1>0, <1>15 DEF NextBatch, Goto, Stages, store, query, work, results
  <1>16. ASSUME NEW v \in Views, Materialized(v) PROVE TypeOK'
    BY <1>0, <1>16 DEF Materialized, Return, Goto, Stages, Outcomes, store, query
  <1>17. ASSUME NEW v \in Views, StartFull(v) PROVE TypeOK'
    BY <1>0, <1>17 DEF StartFull, Goto, Unindexed, Stages, store, query, results
  <1>18. ASSUME NEW v \in Views, FetchAllBatch(v) PROVE TypeOK'
    BY <1>0, <1>18 DEF FetchAllBatch, Goto, Batches, Returned, Stages, store, query,
                       results
  <1>19. ASSUME NEW v \in Views, NEW p \in Paths, IndexAllFile(v, p) PROVE TypeOK'
    BY <1>0, <1>19 DEF IndexAllFile, query, results
  <1>20. ASSUME NEW v \in Views, NextAllBatch(v) PROVE TypeOK'
    BY <1>0, <1>20 DEF NextAllBatch, Goto, Stages, store, query, work, results
  <1>21. ASSUME NEW v \in Views, FinishFull(v) PROVE TypeOK'
    BY <1>0, <1>21 DEF FinishFull, Goto, Stages, query, work, results
  <1>22. ASSUME NEW v \in Views, AbandonFull(v) PROVE TypeOK'
    BY <1>0, <1>22 DEF AbandonFull, GivesUp, Goto, Stages, query, results
  <1>23. CASE UNCHANGED vars
    BY <1>23 DEF vars, store, query, work, results
  <1> QED
    BY <1>1, <1>2, <1>3, <1>4, <1>5, <1>6, <1>7, <1>8, <1>9, <1>10, <1>11, <1>12,
       <1>13, <1>14, <1>15, <1>16, <1>17, <1>18, <1>19, <1>20, <1>21, <1>22, <1>23
       DEF Next, Work

(* Requirements, paths, batches and counters keep their kinds through      *)
(* every interleaving of queries, failures and restarts.                   *)
THEOREM TypeCorrect == Spec => []TypeOK
  <1> QED BY TypeInit, TypeStep, PTL DEF Spec

-----------------------------------------------------------------------------
(* A view's steps leave the other views alone.                             *)
LEMMA OthersSame ==
  ASSUME TypeOK, NEW v \in Views, NEW w \in Views, w # v,
         Work(v) \/ Restart(v) \/ \E r \in Reqs : Ask(v, r)
  PROVE  Same(w)
  <1> USE DEF TypeOK, Same
  <1>1. CASE \E r \in Reqs : Ask(v, r)
    BY <1>1 DEF Ask, Goto, work, results
  <1>2. CASE Raise(v) \/ Restart(v)
    BY <1>2 DEF Raise, Restart, Replace, DropResult, Goto
  <1>3. CASE ReadFacts(v) \/ ReadFlag(v)
    BY <1>3 DEF ReadFacts, ReadFlag, Goto, work, results
  <1>4. CASE Resolve(v) \/ Answer(v)
    BY <1>4 DEF Resolve, Answer, DropResult, Goto, work, results
  <1>5. CASE PlanFile(v) \/ PlanSearch(v) \/ PlanUnknown(v) \/ ScanBatch(v)
    BY <1>5 DEF PlanFile, PlanSearch, PlanUnknown, ScanBatch, GivesUp, Goto, query, work,
                results
  <1>6. CASE CheckNone(v) \/ CheckAllowed(v) \/ CheckDenied(v)
    BY <1>6 DEF CheckNone, CheckAllowed, CheckDenied, Return, GivesUp, Goto, query, results
  <1>7. CASE FetchBatch(v) \/ NextBatch(v) \/ Materialized(v)
    BY <1>7 DEF FetchBatch, NextBatch, Materialized, Return, Goto, query, work, results
  <1>8. CASE StartFull(v) \/ FetchAllBatch(v) \/ NextAllBatch(v)
    BY <1>8 DEF StartFull, FetchAllBatch, NextAllBatch, Goto, query, work, results
  <1>9. CASE FinishFull(v) \/ AbandonFull(v)
    BY <1>9 DEF FinishFull, AbandonFull, GivesUp, Goto, query, work, results
  <1>10. CASE \E p \in Paths : IndexFile(v, p) \/ IndexAllFile(v, p)
    BY <1>10 DEF IndexFile, IndexAllFile, query, results
  <1> QED
    BY <1>1, <1>2, <1>3, <1>4, <1>5, <1>6, <1>7, <1>8, <1>9, <1>10 DEF Work

(* What a step does to the store: nothing, or it indexes one file, or it   *)
(* sets indexed_complete with every file indexed.                          *)
LEMMA StoreStep ==
  ASSUME CoverInv, Faithful, [Next]_vars
  PROVE  \/ UNCHANGED store
         \/ UNCHANGED whole /\ \E p \in Paths : mat' = [mat EXCEPT ![p] = "indexed"]
         \/ IndexedPaths = Paths /\ whole' = TRUE /\ UNCHANGED mat
  <1> USE DEF store
  <1>1. ASSUME NEW v \in Views, Work(v)
        PROVE  \/ UNCHANGED store
               \/ UNCHANGED whole /\ \E p \in Paths : mat' = [mat EXCEPT ![p] = "indexed"]
               \/ IndexedPaths = Paths /\ whole' = TRUE /\ UNCHANGED mat
    <2>1. CASE FinishFull(v)
      BY <2>1 DEF FinishFull, CoverInv, Covered, Unindexed, IndexedPaths
    <2>2. CASE \E p \in Paths : IndexFile(v, p) \/ IndexAllFile(v, p)
      BY <2>2 DEF IndexFile, IndexAllFile, Faithful
    <2>3. CASE AbandonFull(v)
      BY <2>3 DEF AbandonFull, Faithful
    <2>4. CASE ReadFacts(v) \/ ReadFlag(v) \/ Resolve(v) \/ Answer(v) \/ Raise(v)
      BY <2>4 DEF ReadFacts, ReadFlag, Resolve, Answer, Raise, Replace
    <2>5. CASE \/ PlanFile(v) \/ PlanSearch(v) \/ PlanUnknown(v) \/ ScanBatch(v)
               \/ CheckNone(v) \/ CheckAllowed(v) \/ CheckDenied(v)
      BY <2>5 DEF PlanFile, PlanSearch, PlanUnknown, ScanBatch, CheckNone, CheckAllowed,
                  CheckDenied
    <2>6. CASE FetchBatch(v) \/ NextBatch(v) \/ Materialized(v)
      BY <2>6 DEF FetchBatch, NextBatch, Materialized
    <2>7. CASE StartFull(v) \/ FetchAllBatch(v) \/ NextAllBatch(v)
      BY <2>7 DEF StartFull, FetchAllBatch, NextAllBatch
    <2> QED BY <1>1, <2>1, <2>2, <2>3, <2>4, <2>5, <2>6, <2>7 DEF Work
  <1>2. ASSUME NEW v \in Views, Restart(v) \/ \E r \in Reqs : Ask(v, r)
        PROVE  UNCHANGED store
    BY <1>2 DEF Restart, Replace, Ask
  <1>3. CASE UNCHANGED vars
    BY <1>3 DEF vars
  <1> QED BY <1>1, <1>2, <1>3 DEF Next

(* Files that are indexed stay indexed.                                    *)
LEMMA IndexedGrow ==
  ASSUME CoverInv, Faithful, [Next]_vars
  PROVE  IndexedPaths \subseteq IndexedPaths'
  BY StoreStep DEF CoverInv, TypeOK, IndexedPaths, store

(* What is on its way in a view that a step leaves alone stays on its way. *)
LEMMA CoveredStays ==
  ASSUME NEW w \in Views, Covered(w), Same(w), IndexedPaths \subseteq IndexedPaths'
  PROVE  Covered(w)'
  BY DEF Covered, Same, Missing, Relevant, Unindexed, Tried

(* The steps of a view lose nothing that is missing: what a search finds   *)
(* is planned, what is planned is fetched, what is fetched is indexed.     *)
LEMMA CoveredStep ==
  ASSUME CoverInv, Faithful, NEW v \in Views, [Next]_vars,
         Work(v) \/ Restart(v) \/ \E r \in Reqs : Ask(v, r)
  PROVE  Covered(v)'
  <1>0. /\ TypeOK /\ Covered(v)
        /\ IndexedPaths \subseteq IndexedPaths'
    BY IndexedGrow DEF CoverInv
  <1> USE <1>0 DEF TypeOK, Covered, Tried
  <1>1. CASE \E r \in Reqs : Ask(v, r)
    BY <1>1 DEF Ask, Goto, work
  <1>2. CASE Raise(v) \/ Restart(v)
    BY <1>2 DEF Raise, Restart, Replace, Goto
  <1>3. CASE ReadFacts(v) \/ ReadFlag(v)
    BY <1>3 DEF ReadFacts, ReadFlag, Goto, work
  <1>4. CASE Resolve(v) \/ Answer(v)
    BY <1>4 DEF Resolve, Answer, Goto, work
  <1>5. CASE PlanFile(v) \/ PlanSearch(v) \/ PlanUnknown(v)
    <2>0. pc[v] = "plan" /\ req[v] \in Reqs /\ batch[v] = {}
      BY <1>5 DEF PlanFile, PlanSearch, PlanUnknown
    <2>1. CASE PlanFile(v)
      BY <2>0, <2>1, ConstantsAssumption
         DEF PlanFile, Goto, Missing, Relevant, Unindexed, IndexedPaths, store, query
    <2>2. CASE PlanSearch(v)
      BY <2>0, <2>2, ConstantsAssumption
         DEF PlanSearch, Goto, Missing, Relevant, Unindexed, IndexedPaths, store, query
    <2>3. CASE PlanUnknown(v)
      BY <2>0, <2>3 DEF PlanUnknown, GivesUp, Goto, query, work
    <2> QED BY <1>5, <2>1, <2>2, <2>3
  <1>6. CASE ScanBatch(v)
    BY <1>6 DEF ScanBatch, Batches, Returned, Faithful, Goto, Missing, IndexedPaths,
                store, query
  <1>7. CASE CheckNone(v) \/ CheckDenied(v)
    BY <1>7 DEF CheckNone, CheckDenied, Return, Goto
  <1>8. CASE CheckAllowed(v)
    BY <1>8 DEF CheckAllowed, Goto, Missing, Unindexed, IndexedPaths, store, query
  <1>9. CASE FetchBatch(v)
    BY <1>9 DEF FetchBatch, Batches, Returned, Faithful, Goto, Missing, Relevant,
                IndexedPaths, store, query
  <1>10. CASE NextBatch(v) \/ Materialized(v)
    BY <1>10 DEF NextBatch, Materialized, Return, Goto, Missing, IndexedPaths, store,
                 query, work
  <1>11. ASSUME NEW p \in Paths, IndexFile(v, p) PROVE Covered(v)'
    BY <1>11 DEF IndexFile, Faithful, Missing, IndexedPaths, query
  <1>12. ASSUME NEW p \in Paths, IndexAllFile(v, p) PROVE Covered(v)'
    BY <1>12 DEF IndexAllFile, Unindexed, IndexedPaths, query
  <1>13. CASE StartFull(v) \/ NextAllBatch(v)
    BY <1>13 DEF StartFull, NextAllBatch, Goto, Unindexed, IndexedPaths, store, work
  <1>14. CASE FetchAllBatch(v)
    BY <1>14 DEF FetchAllBatch, Batches, Returned, Faithful, Goto, Unindexed,
                 IndexedPaths, store
  <1>15. CASE FinishFull(v) \/ AbandonFull(v)
    BY <1>15 DEF FinishFull, AbandonFull, Goto, work
  <1> QED
    BY <1>1, <1>2, <1>3, <1>4, <1>5, <1>6, <1>7, <1>8, <1>9, <1>10, <1>11, <1>12,
       <1>13, <1>14, <1>15 DEF Work

LEMMA CoverStep ==
  ASSUME CoverInv, Faithful, [Next]_vars
  PROVE  CoverInv'
  <1>1. TypeOK'
    BY TypeStep DEF CoverInv
  <1>2. ASSUME NEW w \in Views PROVE Covered(w)'
    <2>1. CASE UNCHANGED vars
      BY <2>1, CoveredStays, IndexedGrow
         DEF CoverInv, Same, vars, query, work, results
    <2>2. ASSUME NEW v \in Views, Work(v) \/ Restart(v) \/ \E r \in Reqs : Ask(v, r)
          PROVE  Covered(w)'
      <3>1. CASE w = v
        BY <2>2, <3>1, CoveredStep
      <3>2. CASE w # v
        BY <2>2, <3>2, OthersSame, CoveredStays, IndexedGrow DEF CoverInv
      <3> QED BY <3>1, <3>2
    <2> QED BY <2>1, <2>2 DEF Next
  <1> QED BY <1>1, <1>2 DEF CoverInv

LEMMA CoverInit == Init => CoverInv
  BY TypeInit DEF Init, CoverInv, Covered

LEMMA CoverAlways ==
  ASSUME Faithful
  PROVE  Spec => []CoverInv
  <1>1. CoverInv /\ [Next]_vars => CoverInv'
    BY CoverStep
  <1> QED BY CoverInit, <1>1, PTL DEF Spec

-----------------------------------------------------------------------------
(* With providers that return what they are asked for and an indexer that  *)
(* does not fail, the store is a FactScope under every interleaving of     *)
(* lazy resolutions, full indexes that give up or finish, and restarts.    *)
THEOREM ImplementsScope ==
  ASSUME Faithful
  PROVE  Spec => ScopeSpec
  <1>1. Init => Scope!Init
    BY DEF Init, Scope!Init, IndexedPaths
  <1>2. ASSUME CoverInv, [Next]_vars
        PROVE  [Scope!Next]_<<IndexedPaths, whole>>
    <2>1. CASE UNCHANGED store
      BY <2>1 DEF store, IndexedPaths
    <2>2. ASSUME UNCHANGED whole, NEW p \in Paths, mat' = [mat EXCEPT ![p] = "indexed"]
          PROVE  Scope!Learn(p)
      BY <1>2, <2>2 DEF Scope!Learn, IndexedPaths, CoverInv, TypeOK
    <2>3. CASE IndexedPaths = Paths /\ whole' = TRUE /\ UNCHANGED mat
      BY <2>3 DEF Scope!Declare, Scope!Next, IndexedPaths
    <2> QED BY <1>2, <2>1, <2>2, <2>3, StoreStep DEF Scope!Next
  <1> QED BY <1>1, <1>2, CoverAlways, PTL DEF Spec, ScopeSpec, Scope!Spec

-----------------------------------------------------------------------------
(* Outcomes.                                                               *)

\* a view's outcome is sound: [](\A v : OutcomeOK(v)) is []OutcomeSound
OutcomeOK(v) ==
  outcome[v].complete /\ Tried(v, outcome[v].req) =>
    Relevant(outcome[v].req) \subseteq IndexedPaths

(* A view's steps report a requirement complete only when nothing it needs *)
(* is missing or the requirement was given up.                             *)
LEMMA OutcomeStep ==
  ASSUME CoverInv, Faithful, NEW v \in Views, [Next]_vars, OutcomeOK(v),
         Work(v) \/ Restart(v) \/ \E r \in Reqs : Ask(v, r)
  PROVE  OutcomeOK(v)'
  <1>0. /\ TypeOK /\ Covered(v)
        /\ IndexedPaths \subseteq IndexedPaths'
    BY IndexedGrow DEF CoverInv
  <1>1. CASE outcome'[v] = outcome[v] /\ gaveUp[v] \subseteq gaveUp'[v]
    BY <1>0, <1>1 DEF OutcomeOK, Relevant, Tried
  <1>2. CASE CheckNone(v) \/ Materialized(v)
    BY <1>0, <1>2 DEF CheckNone, Materialized, Return, OutcomeOK, Covered, Missing,
                      Unindexed, TypeOK, Relevant, Tried
  <1>3. CASE CheckDenied(v)
    BY <1>0, <1>3 DEF CheckDenied, OutcomeOK, TypeOK
  <1>4. CASE Raise(v) \/ Restart(v)
    BY <1>0, <1>4 DEF Raise, Restart, Replace, NoOutcome, OutcomeOK, TypeOK
  <1>5. CASE \E r \in Reqs : Ask(v, r)
    BY <1>1, <1>5 DEF Ask, results
  <1>6. CASE ReadFacts(v) \/ ReadFlag(v) \/ Resolve(v) \/ Answer(v)
    BY <1>1, <1>6 DEF ReadFacts, ReadFlag, Resolve, Answer, results
  <1>7. CASE \/ PlanFile(v) \/ PlanSearch(v) \/ PlanUnknown(v)
             \/ ScanBatch(v) \/ CheckAllowed(v) \/ FetchBatch(v) \/ NextBatch(v)
    BY <1>0, <1>1, <1>7 DEF PlanFile, PlanSearch, PlanUnknown, GivesUp, ScanBatch,
       CheckAllowed, FetchBatch, NextBatch, results, TypeOK
  <1>8. CASE StartFull(v) \/ FetchAllBatch(v) \/ NextAllBatch(v) \/ FinishFull(v) \/ AbandonFull(v)
    BY <1>0, <1>1, <1>8 DEF StartFull, FetchAllBatch, NextAllBatch, FinishFull, AbandonFull,
       GivesUp, results, TypeOK
  <1>9. CASE \E p \in Paths : IndexFile(v, p) \/ IndexAllFile(v, p)
    BY <1>1, <1>9 DEF IndexFile, IndexAllFile, results
  <1> QED
    BY <1>2, <1>3, <1>4, <1>5, <1>6, <1>7, <1>8, <1>9 DEF Work

(* With providers that return what they are asked for and an indexer that  *)
(* does not fail, a requirement reported complete and not given up is      *)
(* complete, whatever the budget, and whatever other views fetch, abandon  *)
(* or raise meanwhile.                                                     *)
THEOREM OutcomeSoundHolds ==
  ASSUME Faithful
  PROVE  Spec => []OutcomeSound
  <1>1. Init => OutcomeSound
    BY DEF Init, OutcomeSound, NoOutcome
  <1>2. ASSUME CoverInv, OutcomeSound, [Next]_vars
        PROVE  OutcomeSound'
    <2>0. IndexedPaths \subseteq IndexedPaths'
      BY <1>2, IndexedGrow
    <2>1. ASSUME NEW w \in Views, outcome'[w] = outcome[w], gaveUp'[w] = gaveUp[w]
          PROVE  OutcomeOK(w)'
      BY <1>2, <2>0, <2>1 DEF OutcomeOK, OutcomeSound, Relevant, Tried
    <2>2. ASSUME NEW w \in Views PROVE OutcomeOK(w)'
      <3>1. CASE UNCHANGED vars
        BY <2>1, <3>1 DEF vars, results
      <3>2. ASSUME NEW v \in Views, Work(v) \/ Restart(v) \/ \E r \in Reqs : Ask(v, r)
            PROVE  OutcomeOK(w)'
        <4>1. CASE w = v
          BY <1>2, <3>2, <4>1, OutcomeStep DEF OutcomeOK, OutcomeSound
        <4>2. CASE w # v
          BY <1>2, <2>1, <3>2, <4>2, OthersSame DEF Same, CoverInv
        <4> QED BY <4>1, <4>2
      <3> QED BY <1>2, <3>1, <3>2 DEF Next
    <2> QED BY <2>2 DEF OutcomeOK, OutcomeSound
  <1> QED BY <1>1, <1>2, CoverAlways, PTL DEF Spec

-----------------------------------------------------------------------------
(* Answers.                                                                *)

Backed(r) == Relevant(r) \subseteq IndexedPaths

\* indexed_complete is set of a commit that has every file indexed
WholeMeansAll == whole => IndexedPaths = Paths

\* what a view remembers as resolved is backed, being worked on, or given up
AnswerOK(v) ==
  /\ answer[v].complete /\ Tried(v, answer[v].req) => Backed(answer[v].req)
  /\ \A r \in resolved[v] :
       Tried(v, r) => Backed(r) \/ (req[v] = r /\ pc[v] \in Resolving)
  /\ saw[v] => pc[v] = "decide" /\ Backed(req[v])

AnswerInv ==
  /\ CoverInv
  /\ WholeMeansAll
  /\ \A v \in Views : AnswerOK(v)

(* indexed_complete, once set, holds of every file.                        *)
LEMMA WholeStep ==
  ASSUME CoverInv, Faithful, WholeMeansAll, [Next]_vars
  PROVE  WholeMeansAll'
  <1>1. CASE UNCHANGED store
    BY <1>1 DEF store, WholeMeansAll, IndexedPaths
  <1>2. CASE UNCHANGED whole /\ \E p \in Paths : mat' = [mat EXCEPT ![p] = "indexed"]
    BY <1>2, IndexedGrow DEF WholeMeansAll, IndexedPaths
  <1>3. CASE IndexedPaths = Paths /\ whole' = TRUE /\ UNCHANGED mat
    BY <1>3 DEF WholeMeansAll, IndexedPaths
  <1> QED BY <1>1, <1>2, <1>3, StoreStep

(* The steps of a view remember as resolved, and answer as complete, only  *)
(* what the store backs or the resolver gave up.                           *)
LEMMA AnswerStep ==
  ASSUME AnswerInv, Faithful, NEW v \in Views, [Next]_vars,
         Work(v) \/ Restart(v) \/ \E r \in Reqs : Ask(v, r)
  PROVE  AnswerOK(v)'
  <1>0. /\ TypeOK /\ Covered(v) /\ AnswerOK(v) /\ WholeMeansAll
        /\ IndexedPaths \subseteq IndexedPaths'
        /\ \A r \in Reqs \cup {None} : Backed(r) => Backed(r)'
    BY IndexedGrow DEF AnswerInv, CoverInv, Backed, Relevant
  <1>a. \A r \in Reqs : Relevant(r) \subseteq Paths
    BY ConstantsAssumption DEF Relevant
  <1>b. NoAnswer.complete = FALSE
    BY DEF NoAnswer
  <1> USE DEF AnswerOK, TypeOK, Resolving, Tried
  <1>1. CASE \E r \in Reqs : Ask(v, r)
    BY <1>0, <1>1 DEF Ask, Goto, results, Answers
  <1>2. CASE Raise(v) \/ Restart(v)
    BY <1>0, <1>b, <1>2 DEF Raise, Restart, Replace, DropResult, Goto
  <1>3. CASE ReadFacts(v)
    BY <1>0, <1>3 DEF ReadFacts, Goto, results, Answers
  <1>4. CASE ReadFlag(v)
    <2>1. StoreComplete(req[v]) => Backed(req[v])
      BY <1>0, <1>a, <1>4 DEF ReadFlag, StoreComplete, Backed, Relevant, WholeMeansAll
    <2> QED BY <1>0, <1>4, <2>1 DEF ReadFlag, Goto, results, Answers
  <1>5. CASE Resolve(v)
    BY <1>0, <1>5 DEF Resolve, DropResult, Goto, results, Answers
  <1>6. CASE Answer(v)
    BY <1>0, <1>6 DEF Answer, DropResult, Goto, Answers
  <1>7. CASE PlanFile(v) \/ PlanSearch(v) \/ PlanUnknown(v) \/ ScanBatch(v)
    <2>1. CASE PlanFile(v) \/ PlanSearch(v)
      BY <1>0, <2>1 DEF PlanFile, PlanSearch, Goto, query, results, Answers
    <2>2. CASE PlanUnknown(v)
      BY <1>0, <2>2 DEF PlanUnknown, GivesUp, Goto, query, results, Answers
    <2>3. CASE ScanBatch(v)
      BY <1>0, <2>3 DEF ScanBatch, Goto, query, results, Answers
    <2> QED BY <1>7, <2>1, <2>2, <2>3
  <1>8. CASE CheckNone(v) \/ Materialized(v)
    <2>1. Tried(v, req[v]) => Backed(req[v])
      BY <1>0, <1>8 DEF CheckNone, Materialized, Covered, Missing, Unindexed, Backed
    <2> QED
      BY <1>0, <1>8, <2>1 DEF CheckNone, Materialized, Return, Goto, query, Answers
  <1>9. CASE CheckAllowed(v)
    BY <1>0, <1>9 DEF CheckAllowed, Goto, query, results, Answers
  <1>10. CASE FetchBatch(v) \/ NextBatch(v)
    BY <1>0, <1>10 DEF FetchBatch, NextBatch, Goto, query, results, Answers
  <1>11. CASE \E p \in Paths : IndexFile(v, p) \/ IndexAllFile(v, p)
    BY <1>0, <1>11 DEF IndexFile, IndexAllFile, query, results, Answers
  <1>12. CASE StartFull(v) \/ FetchAllBatch(v) \/ NextAllBatch(v)
    BY <1>0, <1>12 DEF StartFull, FetchAllBatch, NextAllBatch, Goto, query, results, Answers
  <1>13. CASE FinishFull(v)
    <2>1. \A r \in Reqs : Backed(r)
      BY <1>0, <1>a, <1>13 DEF FinishFull, Covered, Unindexed, Backed
    <2> QED BY <1>0, <1>13, <2>1 DEF FinishFull, Goto, query, results, Answers
  <1>14. CASE AbandonFull(v)
    BY <1>0, <1>14 DEF AbandonFull, GivesUp, Goto, Faithful, query, results, Answers
  <1>15. CASE CheckDenied(v)
    BY <1>0, <1>15 DEF CheckDenied, GivesUp, Goto, query, results, Answers
  <1> QED
    BY <1>1, <1>2, <1>3, <1>4, <1>5, <1>6, <1>7, <1>8, <1>9, <1>10, <1>11, <1>12,
       <1>13, <1>14, <1>15 DEF Work

(* What views remember and answer stays backed, whatever the others do.    *)
LEMMA AnswerAlways ==
  ASSUME Faithful
  PROVE  Spec => []AnswerInv
  <1>1. Init => AnswerInv
    BY CoverInit DEF Init, AnswerInv, AnswerOK, NoAnswer, WholeMeansAll
  <1>2. ASSUME AnswerInv, [Next]_vars PROVE AnswerInv'
    <2>0. /\ CoverInv /\ CoverInv' /\ WholeMeansAll'
          /\ IndexedPaths \subseteq IndexedPaths'
      BY <1>2, CoverStep, WholeStep, IndexedGrow DEF AnswerInv
    <2>1. ASSUME NEW w \in Views, Same(w) PROVE AnswerOK(w)'
      BY <1>2, <2>0, <2>1 DEF AnswerInv, AnswerOK, Same, Backed, Relevant, Tried
    <2>2. ASSUME NEW w \in Views PROVE AnswerOK(w)'
      <3>1. CASE UNCHANGED vars
        BY <2>1, <3>1 DEF Same, vars, query, work, results
      <3>2. ASSUME NEW v \in Views, Work(v) \/ Restart(v) \/ \E r \in Reqs : Ask(v, r)
            PROVE  AnswerOK(w)'
        <4>1. CASE w = v
          BY <1>2, <3>2, <4>1, AnswerStep
        <4>2. CASE w # v
          BY <2>0, <2>1, <3>2, <4>2, OthersSame DEF CoverInv
        <4> QED BY <4>1, <4>2
      <3> QED BY <1>2, <3>1, <3>2 DEF Next
    <2> QED BY <2>0, <2>2 DEF AnswerInv
  <1> QED BY <1>1, <1>2, PTL DEF Spec

(* With providers that return what they are asked for and an indexer that  *)
(* does not fail, an answer flagged complete is backed by the store, or    *)
(* its requirement was given up: the store had no row of the symbol, or    *)
(* the budget ran out and the full index was missing or stopped.           *)
THEOREM AnswerBackedHolds ==
  ASSUME Faithful
  PROVE  Spec => []AnswerBacked
  <1>1. AnswerInv => AnswerBacked
    BY DEF AnswerInv, AnswerOK, AnswerBacked, Backed
  <1> QED BY <1>1, AnswerAlways, PTL

-----------------------------------------------------------------------------
(* What an answer holds.                                                   *)

\* the store has one view at a time
OneView == \A v, w \in Views : v = w

\* the rows that have been read are those of all indexed files, and an answer
\* flagged complete and not given up has all it needs
RowsOK(v) ==
  /\ pc[v] \in {"flag", "decide"} => seen[v] = IndexedPaths
  /\ answer[v].complete /\ Tried(v, answer[v].req) =>
       Relevant(answer[v].req) \subseteq answer[v].seen

RowsInv == \A v \in Views : RowsOK(v)

LEMMA RowsStep ==
  ASSUME AnswerInv, RowsInv, OneView, NEW v \in Views,
         Work(v) \/ Restart(v) \/ \E r \in Reqs : Ask(v, r)
  PROVE  RowsOK(v)'
  <1>0. TypeOK /\ RowsOK(v) /\ AnswerOK(v)
    BY DEF AnswerInv, CoverInv, RowsInv
  <1> USE DEF RowsOK, TypeOK, Relevant, Tried
  <1>1. CASE \E r \in Reqs : Ask(v, r)
    BY <1>0, <1>1 DEF Ask, Goto, results
  <1>2. CASE Raise(v) \/ Restart(v)
    BY <1>0, <1>2 DEF Raise, Restart, Replace, Goto, NoAnswer
  <1>3. CASE ReadFacts(v)
    BY <1>0, <1>3 DEF ReadFacts, Goto, results, store, IndexedPaths
  <1>4. CASE ReadFlag(v)
    BY <1>0, <1>4 DEF ReadFlag, Goto, results, store, IndexedPaths
  <1>5. CASE Resolve(v)
    BY <1>0, <1>5 DEF Resolve, Goto, results
  <1>6. CASE Answer(v)
    <2> DEFINE complete == saw[v] \/ req[v] \in resolved[v]
    <2>1. pc[v] = "decide" /\ seen[v] = IndexedPaths
      BY <1>0, <1>6 DEF Answer
    <2>2. complete /\ Tried(v, req[v]) => Backed(req[v])
      BY <1>0, <2>1 DEF AnswerOK, Resolving
    <2>3. /\ answer' = [answer EXCEPT ![v] =
               [req |-> req[v], complete |-> complete, seen |-> seen[v]]]
          /\ pc'[v] = "idle" /\ gaveUp' = gaveUp
      BY <1>0, <1>6 DEF Answer, Goto
    <2> HIDE DEF complete
    <2>4. answer'[v] = [req |-> req[v], complete |-> complete, seen |-> seen[v]]
      BY <1>0, <2>3
    <2> QED
      BY <2>1, <2>2, <2>3, <2>4 DEF Backed
  <1>7. CASE PlanFile(v) \/ PlanSearch(v) \/ PlanUnknown(v) \/ ScanBatch(v)
    BY <1>0, <1>7 DEF PlanFile, PlanSearch, PlanUnknown, ScanBatch, GivesUp, Goto, work,
                      results
  <1>8. CASE CheckNone(v) \/ Materialized(v)
    BY <1>0, <1>8 DEF CheckNone, Materialized, Return, Goto
  <1>9. CASE CheckAllowed(v) \/ CheckDenied(v)
    BY <1>0, <1>9 DEF CheckAllowed, CheckDenied, GivesUp, Goto, results
  <1>10. CASE FetchBatch(v) \/ NextBatch(v)
    BY <1>0, <1>10 DEF FetchBatch, NextBatch, Goto, results
  <1>11. CASE \E p \in Paths : IndexFile(v, p) \/ IndexAllFile(v, p)
    BY <1>0, <1>11 DEF IndexFile, IndexAllFile, query, results
  <1>12. CASE StartFull(v) \/ FetchAllBatch(v) \/ NextAllBatch(v)
    BY <1>0, <1>12 DEF StartFull, FetchAllBatch, NextAllBatch, Goto, results
  <1>13. CASE FinishFull(v) \/ AbandonFull(v)
    BY <1>0, <1>13 DEF FinishFull, AbandonFull, GivesUp, Goto, results
  <1> QED
    BY <1>1, <1>2, <1>3, <1>4, <1>5, <1>6, <1>7, <1>8, <1>9, <1>10, <1>11, <1>12,
       <1>13 DEF Work

(* While no other view works on the store, an answer flagged complete and  *)
(* not given up has the facts of every file it needs, through restarts,    *)
(* scans that find nothing, budgets that run out and full indexes.         *)
THEOREM AnswerSoundHolds ==
  ASSUME Faithful, OneView
  PROVE  Spec => []AnswerSound
  <1>1. Init => RowsInv
    BY DEF Init, RowsInv, RowsOK, NoAnswer
  <1>2. ASSUME AnswerInv, RowsInv, [Next]_vars PROVE RowsInv'
    <2>1. CASE UNCHANGED vars
      BY <1>2, <2>1 DEF vars, store, query, results, RowsInv, RowsOK, Relevant, IndexedPaths,
                        Tried
    <2>2. ASSUME NEW v \in Views, Work(v) \/ Restart(v) \/ \E r \in Reqs : Ask(v, r)
          PROVE  RowsInv'
      <3>1. RowsOK(v)'
        BY <1>2, <2>2, RowsStep
      <3>2. \A w \in Views : w = v
        BY <2>2 DEF OneView
      <3> QED
        BY <3>1, <3>2 DEF RowsInv
    <2> QED BY <1>2, <2>1, <2>2 DEF Next
  <1>3. RowsInv => AnswerSound
    BY DEF RowsInv, RowsOK, AnswerSound, Tried
  <1> QED BY <1>1, <1>2, <1>3, AnswerAlways, PTL DEF Spec
=============================================================================
