----------------------------- MODULE Resolution -----------------------------
(***************************************************************************)
(* Lazy resolution: how a query of a RepositoryView on a commit that is    *)
(* only partly indexed fetches and indexes the files it needs              *)
(* (RepositoryView, RepositoryResolver, ResolutionPlanner,                 *)
(* RepositoryMaterializer, FullIndexFallback).                             *)
(*                                                                         *)
(* A view belongs to one analysis request and blocks its process while it  *)
(* resolves, so views here are views of different processes that share the *)
(* store.  One step is one read of the store, one await of the provider,   *)
(* or one commit.  What a commit of the indexer does to the tables is the  *)
(* subject of FactIndex; here a file is "none", "indexed" or "failed".     *)
(***************************************************************************)
EXTENDS Integers, FiniteSets, FiniteSetsExt

CONSTANTS
  Views,        \* views, one per analysis request and process
  Reqs,         \* the requirements queries have
  Own,          \* [Reqs -> Paths \cup {None}], the file a query is about;
                \*   None: a query about the whole repository
  Symbols,      \* requirements of the latter kind that are about a symbol:
                \*   who calls it, refers to it, derives from it, tests it
  Row,          \* [Symbols -> Paths \cup {None}], the file whose indexing
                \*   commits the row of that symbol; None: no file does
  Matches,      \* [Reqs -> SUBSET Paths], files a search of contents finds
  Paths,        \* the blobs of the commit's tree
  Undecodable,  \* those that are not UTF-8
  Size,         \* [Paths -> Nat], their sizes
  None,         \* no value
  Fallback,     \* is a full-index fallback wired in and enabled?
  MaxFiles,     \* the budget: files,
  MaxBytes,     \*   bytes,
  MaxRequests,  \*   and provider calls
  BatchSize,    \* files per provider call
  FetchErrors,  \* may a provider call raise?
  Omissions,    \* may it leave out blobs it was asked for?
  IndexErrors,  \* may indexing a file raise?
  MaxRestarts   \* bound: how many views are replaced by new ones

ASSUME ConstantsAssumption ==
  /\ Own \in [Reqs -> Paths \cup {None}]
  /\ Symbols \subseteq {r \in Reqs : Own[r] = None}
  /\ Row \in [Symbols -> Paths \cup {None}]
  /\ Matches \in [Reqs -> SUBSET Paths]
  /\ Undecodable \subseteq Paths
  /\ Size \in [Paths -> Nat]
  /\ None \notin Paths \cup Reqs
  /\ {MaxFiles, MaxBytes, MaxRequests, MaxRestarts} \subseteq Nat
  /\ BatchSize \in Nat \ {0}
  /\ {Fallback, FetchErrors, Omissions, IndexErrors} \subseteq BOOLEAN

VARIABLES
  \* the store
  mat,       \* repository_materialization of the commit
  whole,     \* repository_metadata.indexed_complete
  \* the views
  pc,        \* where the view's query is
  req,       \* its requirement
  resolved,  \* _resolved_requirements
  seen,      \* the files that were indexed when the query read its facts
  saw,       \* the completeness flag that came with them
  plan,      \* paths the planner has collected
  todo,      \* paths still to be asked of the provider
  batch,     \* paths fetched and not yet indexed
  answer,    \* the last answer given
  outcome,   \* _last_resolution_outcome
  gaveUp,    \* history: the requirements of the view for which the resolver did
             \*   not even try to fetch all that is missing
  restarts   \* how many views have been replaced

store == <<mat, whole>>
query == <<req, resolved, seen, saw>>
work == <<plan, todo, batch>>
results == <<answer, outcome>>
vars == <<store, pc, query, work, results, gaveUp, restarts>>

Stages == {"idle", "read", "flag", "decide", "plan", "scan", "check", "fetch",
           "index", "full", "fetchAll", "indexAll"}
Answers == [req : Reqs \cup {None}, complete : BOOLEAN, seen : SUBSET Paths]
Outcomes == [req : Reqs \cup {None}, complete : BOOLEAN]
NoAnswer == [req |-> None, complete |-> FALSE, seen |-> {}]
NoOutcome == [req |-> None, complete |-> FALSE]

(* Every variable holds a value of the kind the code keeps there.          *)
TypeOK ==
  /\ mat \in [Paths -> {"none", "indexed", "failed"}]
  /\ whole \in BOOLEAN
  /\ pc \in [Views -> Stages]
  /\ req \in [Views -> Reqs \cup {None}]
  /\ \A v \in Views : pc[v] = "idle" <=> req[v] = None
  /\ resolved \in [Views -> SUBSET Reqs]
  /\ seen \in [Views -> SUBSET Paths]
  /\ saw \in [Views -> BOOLEAN]
  /\ plan \in [Views -> SUBSET Paths]
  /\ todo \in [Views -> SUBSET Paths]
  /\ batch \in [Views -> SUBSET Paths]
  /\ answer \in [Views -> Answers]
  /\ outcome \in [Views -> Outcomes]
  /\ gaveUp \in [Views -> SUBSET Reqs]
  /\ restarts \in 0 .. MaxRestarts

Init ==
  /\ mat = [p \in Paths |-> "none"]
  /\ whole = FALSE
  /\ pc = [v \in Views |-> "idle"]
  /\ req = [v \in Views |-> None]
  /\ resolved = [v \in Views |-> {}]
  /\ seen = [v \in Views |-> {}]
  /\ saw = [v \in Views |-> FALSE]
  /\ plan = [v \in Views |-> {}]
  /\ todo = [v \in Views |-> {}]
  /\ batch = [v \in Views |-> {}]
  /\ answer = [v \in Views |-> NoAnswer]
  /\ outcome = [v \in Views |-> NoOutcome]
  /\ gaveUp = [v \in Views |-> {}]
  /\ restarts = 0

-----------------------------------------------------------------------------
(* The store and the budget.                                               *)

IndexedPaths == {p \in Paths : mat[p] = "indexed"}
Unindexed(S) == S \ IndexedPaths

\* what the store says of a query's scope
StoreComplete(r) == IF Own[r] = None THEN whole ELSE Own[r] \in IndexedPaths

\* the files whose facts make up the answer, as far as they can have facts
Relevant(r) == (IF Own[r] = None THEN Matches[r] ELSE {Own[r]}) \ Undecodable

\* ResolutionContext.can_materialize with a fresh ResolutionUsage
WithinBudget(S) ==
  /\ Cardinality(S) <= MaxFiles
  /\ MapThenSumSet(LAMBDA p : Size[p], S) <= MaxBytes
  /\ (Cardinality(S) + BatchSize - 1) \div BatchSize <= MaxRequests

\* the batches a provider is asked for, one after the other
Batches(S) ==
  {B \in SUBSET S : Cardinality(B) = IF Cardinality(S) < BatchSize
                                     THEN Cardinality(S) ELSE BatchSize}

\* the blobs a call for B returns
Returned(B) == IF Omissions THEN SUBSET B ELSE {B}

Goto(v, stage) == pc' = [pc EXCEPT ![v] = stage]

GivesUp(v) == gaveUp' = [gaveUp EXCEPT ![v] = @ \cup {req[v]}]

\* the rows and the flag a query has read are dropped
DropResult(v) ==
  /\ seen' = [seen EXCEPT ![v] = {}]
  /\ saw' = [saw EXCEPT ![v] = FALSE]

-----------------------------------------------------------------------------
(* The query of a view: get_callers, get_callees, get_imports, ...         *)

Ask(v, r) ==
  /\ pc[v] = "idle"
  /\ Goto(v, "read")
  /\ req' = [req EXCEPT ![v] = r]
  /\ UNCHANGED <<store, resolved, seen, saw, work, results, gaveUp, restarts>>

\* the base query selects the rows ...
ReadFacts(v) ==
  /\ pc[v] = "read"
  /\ Goto(v, "flag")
  /\ seen' = [seen EXCEPT ![v] = IndexedPaths]
  /\ UNCHANGED <<store, req, resolved, saw, work, results, gaveUp, restarts>>

\* ... and then asks whether they are all there are
ReadFlag(v) ==
  /\ pc[v] = "flag"
  /\ Goto(v, "decide")
  /\ saw' = [saw EXCEPT ![v] = StoreComplete(req[v])]
  /\ UNCHANGED <<store, req, resolved, seen, work, results, gaveUp, restarts>>

\* Mutant of MustResolve: what was resolved before is not remembered
MustResolveAgain(v) == ~whole /\ ~saw[v]

\* _resolve_if_needed: a requirement is resolved once, whatever comes of it
MustResolve(v) == req[v] \notin resolved[v] /\ ~whole /\ ~saw[v]

Resolve(v) ==
  /\ pc[v] = "decide"
  /\ MustResolve(v)
  /\ Goto(v, "plan")
  /\ resolved' = [resolved EXCEPT ![v] = @ \cup {req[v]}]
  /\ DropResult(v)
  /\ UNCHANGED <<store, req, work, results, gaveUp, restarts>>

Answer(v) ==
  /\ pc[v] = "decide"
  /\ ~MustResolve(v)
  /\ Goto(v, "idle")
  /\ answer' = [answer EXCEPT ![v] =
       [req |-> req[v], complete |-> saw[v] \/ req[v] \in resolved[v], seen |-> seen[v]]]
  /\ req' = [req EXCEPT ![v] = None]
  /\ DropResult(v)
  /\ UNCHANGED <<store, resolved, work, outcome, gaveUp, restarts>>

-----------------------------------------------------------------------------
(* RepositoryResolver.resolve: plan, check the budget, materialize.        *)

\* Mutant of Return: the rows are not selected again
ReturnWithoutQuery(v, complete) ==
  /\ Goto(v, "flag")
  /\ outcome' = [outcome EXCEPT ![v] = [req |-> req[v], complete |-> complete]]
  /\ plan' = [plan EXCEPT ![v] = {}]

\* the resolver returns to the view, which repeats the query
Return(v, complete) ==
  /\ Goto(v, "read")
  /\ outcome' = [outcome EXCEPT ![v] = [req |-> req[v], complete |-> complete]]
  /\ plan' = [plan EXCEPT ![v] = {}]

\* a query about one file
PlanFile(v) ==
  /\ pc[v] = "plan"
  /\ Own[req[v]] # None
  /\ plan' = [plan EXCEPT ![v] = Unindexed({Own[req[v]]})]
  /\ Goto(v, "check")
  /\ UNCHANGED <<store, query, todo, batch, results, gaveUp, restarts>>

\* the planner finds the symbol a requirement is about, if it is about one, in
\* the store
Known(r) == r \in Symbols => Row[r] \in IndexedPaths

\* a query about the whole repository: a search, as long as files are not indexed
PlanSearch(v) ==
  /\ pc[v] = "plan"
  /\ Own[req[v]] = None
  /\ Known(req[v])
  /\ Goto(v, IF Unindexed(Paths) = {} THEN "check" ELSE "scan")
  /\ todo' = [todo EXCEPT ![v] = Unindexed(Paths)]
  /\ UNCHANGED <<store, query, plan, batch, results, gaveUp, restarts>>

\* the store has no row of the symbol: nothing is searched and nothing planned
PlanUnknown(v) ==
  /\ pc[v] = "plan"
  /\ Own[req[v]] = None
  /\ ~Known(req[v])
  /\ Goto(v, "check")
  /\ GivesUp(v)
  /\ UNCHANGED <<store, query, work, results, restarts>>

\* the planner searches the contents of everything not indexed yet
ScanBatch(v) ==
  /\ pc[v] = "scan"
  /\ \E B \in Batches(todo[v]) : \E R \in Returned(B) :
       /\ plan' = [plan EXCEPT ![v] = @ \cup (R \cap Matches[req[v]])]
       /\ todo' = [todo EXCEPT ![v] = @ \ B]
       /\ Goto(v, IF B = todo[v] THEN "check" ELSE "scan")
  /\ UNCHANGED <<store, query, batch, results, gaveUp, restarts>>

\* nothing is missing
CheckNone(v) ==
  /\ pc[v] = "check"
  /\ Unindexed(plan[v]) = {}
  /\ Return(v, TRUE)
  /\ UNCHANGED <<store, query, todo, batch, answer, gaveUp, restarts>>

CheckAllowed(v) ==
  /\ pc[v] = "check"
  /\ Unindexed(plan[v]) # {}
  /\ WithinBudget(Unindexed(plan[v]))
  /\ Goto(v, "fetch")
  /\ todo' = [todo EXCEPT ![v] = Unindexed(plan[v])]
  /\ UNCHANGED <<store, query, plan, batch, results, gaveUp, restarts>>

\* Mutant of CheckDenied: the outcome's fallback_required is not looked at
DeniedIsFinal(v) ==
  /\ pc[v] = "check"
  /\ ~WithinBudget(Unindexed(plan[v]))
  /\ Return(v, FALSE)
  /\ UNCHANGED <<store, query, todo, batch, answer, gaveUp, restarts>>

\* the budget is exceeded: fall back to the full index where there is one
CheckDenied(v) ==
  /\ pc[v] = "check"
  /\ ~WithinBudget(Unindexed(plan[v]))
  /\ outcome' = [outcome EXCEPT ![v] = [req |-> req[v], complete |-> FALSE]]
  /\ plan' = [plan EXCEPT ![v] = {}]
  /\ IF Fallback THEN Goto(v, "full") /\ UNCHANGED gaveUp
                 ELSE Goto(v, "read") /\ GivesUp(v)
  /\ UNCHANGED <<store, query, todo, batch, answer, restarts>>

\* RepositoryMaterializer.materialize asks for a batch ...
FetchBatch(v) ==
  /\ pc[v] = "fetch"
  /\ \E B \in Batches(todo[v]) : \E R \in Returned(B) :
       /\ todo' = [todo EXCEPT ![v] = @ \ B]
       /\ batch' = [batch EXCEPT ![v] = R \ Undecodable]
  /\ Goto(v, "index")
  /\ UNCHANGED <<store, query, plan, results, gaveUp, restarts>>

\* ... and indexes its files one by one; one that fails is left behind
IndexFile(v, p) ==
  /\ pc[v] = "index"
  /\ p \in batch[v]
  /\ \/ mat' = [mat EXCEPT ![p] = "indexed"]
     \/ IndexErrors /\ mat' = [mat EXCEPT ![p] = "failed"]
  /\ batch' = [batch EXCEPT ![v] = @ \ {p}]
  /\ UNCHANGED <<whole, pc, query, plan, todo, results, gaveUp, restarts>>

NextBatch(v) ==
  /\ pc[v] = "index"
  /\ batch[v] = {}
  /\ todo[v] # {}
  /\ Goto(v, "fetch")
  /\ UNCHANGED <<store, query, work, results, gaveUp, restarts>>

\* Mutant of Materialized: the last batch is not waited for
FetchedIsMaterialized(v) ==
  /\ pc[v] = "index"
  /\ todo[v] = {}
  /\ Return(v, TRUE)
  /\ batch' = [batch EXCEPT ![v] = {}]
  /\ UNCHANGED <<store, query, todo, answer, gaveUp, restarts>>

Materialized(v) ==
  /\ pc[v] = "index"
  /\ batch[v] = {}
  /\ todo[v] = {}
  /\ Return(v, TRUE)
  /\ UNCHANGED <<store, query, todo, batch, answer, gaveUp, restarts>>

-----------------------------------------------------------------------------
(* FullIndexFallback.run.                                                  *)

StartFull(v) ==
  /\ pc[v] = "full"
  /\ todo' = [todo EXCEPT ![v] = Unindexed(Paths)]
  /\ Goto(v, "indexAll")
  /\ UNCHANGED <<store, query, plan, batch, results, gaveUp, restarts>>

FetchAllBatch(v) ==
  /\ pc[v] = "fetchAll"
  /\ \E B \in Batches(todo[v]) : \E R \in Returned(B) :
       /\ todo' = [todo EXCEPT ![v] = @ \ B]
       /\ batch' = [batch EXCEPT ![v] = R]
  /\ Goto(v, "indexAll")
  /\ UNCHANGED <<store, query, plan, results, gaveUp, restarts>>

\* undecodable files are recorded first, as if they were indexed
IndexAllFile(v, p) ==
  /\ pc[v] = "indexAll"
  /\ p \in batch[v]
  /\ p \in Undecodable \/ batch[v] \cap Undecodable = {}
  /\ mat' = [mat EXCEPT ![p] = "indexed"]
  /\ batch' = [batch EXCEPT ![v] = @ \ {p}]
  /\ UNCHANGED <<whole, pc, query, plan, todo, results, gaveUp, restarts>>

NextAllBatch(v) ==
  /\ pc[v] = "indexAll"
  /\ batch[v] = {}
  /\ todo[v] # {}
  /\ Goto(v, "fetchAll")
  /\ UNCHANGED <<store, query, work, results, gaveUp, restarts>>

\* Mutant of FinishFull: complete after a batch, not after the last
FinishAfterBatch(v) ==
  /\ pc[v] = "indexAll"
  /\ batch[v] = {}
  /\ whole' = TRUE
  /\ Goto(v, "read")
  /\ todo' = [todo EXCEPT ![v] = {}]
  /\ UNCHANGED <<mat, query, plan, batch, results, gaveUp, restarts>>

FinishFull(v) ==
  /\ pc[v] = "indexAll"
  /\ batch[v] = {}
  /\ todo[v] = {}
  /\ whole' = TRUE
  /\ Goto(v, "read")
  /\ UNCHANGED <<mat, query, work, results, gaveUp, restarts>>

\* the provider or the indexer raises: the fallback gives up, unsuccessful
AbandonFull(v) ==
  /\ \/ FetchErrors /\ pc[v] = "fetchAll" /\ UNCHANGED mat
     \/ /\ IndexErrors /\ pc[v] = "indexAll"
        /\ batch[v] \cap Undecodable = {}
        /\ \E p \in batch[v] : mat' = [mat EXCEPT ![p] = "failed"]
  /\ Goto(v, "read")
  /\ todo' = [todo EXCEPT ![v] = {}]
  /\ batch' = [batch EXCEPT ![v] = {}]
  /\ GivesUp(v)
  /\ UNCHANGED <<whole, query, plan, results, restarts>>

-----------------------------------------------------------------------------
\* Mutant of Replace: the query outlives its view
ReplaceButQuery(v) ==
  /\ Goto(v, "idle")
  /\ resolved' = [resolved EXCEPT ![v] = {}]
  /\ DropResult(v)
  /\ plan' = [plan EXCEPT ![v] = {}]
  /\ todo' = [todo EXCEPT ![v] = {}]
  /\ batch' = [batch EXCEPT ![v] = {}]
  /\ answer' = [answer EXCEPT ![v] = NoAnswer]
  /\ outcome' = [outcome EXCEPT ![v] = NoOutcome]
  /\ gaveUp' = [gaveUp EXCEPT ![v] = {}]
  /\ UNCHANGED <<store, req>>

\* the view is gone, and the next request gets a new one
Replace(v) ==
  /\ Goto(v, "idle")
  /\ req' = [req EXCEPT ![v] = None]
  /\ resolved' = [resolved EXCEPT ![v] = {}]
  /\ DropResult(v)
  /\ plan' = [plan EXCEPT ![v] = {}]
  /\ todo' = [todo EXCEPT ![v] = {}]
  /\ batch' = [batch EXCEPT ![v] = {}]
  /\ answer' = [answer EXCEPT ![v] = NoAnswer]
  /\ outcome' = [outcome EXCEPT ![v] = NoOutcome]
  /\ gaveUp' = [gaveUp EXCEPT ![v] = {}]
  /\ UNCHANGED store

\* the provider raises, with it the resolver and the query: the pipeline run
\* fails
Raise(v) ==
  /\ FetchErrors
  /\ pc[v] \in {"scan", "fetch"}
  /\ Replace(v)
  /\ UNCHANGED restarts

\* the request is over, or its process dies
Restart(v) ==
  /\ restarts < MaxRestarts
  /\ restarts' = restarts + 1
  /\ Replace(v)

\* the steps of a query that has begun
Work(v) ==
  \/ ReadFacts(v) \/ ReadFlag(v) \/ Resolve(v) \/ Answer(v) \/ Raise(v)
  \/ PlanFile(v) \/ PlanSearch(v) \/ PlanUnknown(v)
  \/ ScanBatch(v) \/ CheckNone(v) \/ CheckAllowed(v) \/ CheckDenied(v)
  \/ FetchBatch(v) \/ NextBatch(v) \/ Materialized(v)
  \/ StartFull(v) \/ FetchAllBatch(v) \/ NextAllBatch(v) \/ FinishFull(v)
  \/ AbandonFull(v)
  \/ \E p \in Paths : IndexFile(v, p) \/ IndexAllFile(v, p)

Next == \E v \in Views : Work(v) \/ Restart(v) \/ \E r \in Reqs : Ask(v, r)

\* a query that has begun is worked on: it runs on a thread of its own, and
\* every provider call returns or times out
Spec == Init /\ [][Next]_vars /\ \A v \in Views : WF_vars(Work(v))

-----------------------------------------------------------------------------
(* Properties.                                                             *)

(* The store is a FactScope: whatever views of several processes fetch,    *)
(* index, abandon or repeat, in whatever order, the indexed files only     *)
(* grow, and indexed_complete is set only when all of them are indexed.    *)
Scope == INSTANCE FactScope WITH known <- IndexedPaths, whole <- whole
ScopeSpec == Scope!Spec

\* view v did not give up on r: the symbol was known, the budget or else the full
\* index was enough
Tried(v, r) == r \notin gaveUp[v]

(* When the resolver reports complete a requirement it did not give up,    *)
(* the files the answer needs are indexed, by this view or by another      *)
(* meanwhile.                                                              *)
OutcomeSound ==
  \A v \in Views : outcome[v].complete /\ Tried(v, outcome[v].req) =>
    Relevant(outcome[v].req) \subseteq IndexedPaths

(* An answer flagged complete is backed by the store unless its resolution *)
(* was given up: the files it depends on are indexed, be it by lazy        *)
(* resolution, by the full index after the budget ran out, or by another   *)
(* process.                                                                *)
AnswerBacked ==
  \A v \in Views : answer[v].complete /\ Tried(v, answer[v].req) =>
    Relevant(answer[v].req) \subseteq IndexedPaths

(* An answer flagged complete, its resolution not given up, holds the      *)
(* facts of all files it depends on: they were indexed when its rows were  *)
(* read, which is before the flag is.                                      *)
AnswerSound ==
  \A v \in Views : answer[v].complete /\ Tried(v, answer[v].req) =>
    Relevant(answer[v].req) \subseteq answer[v].seen

(* A requirement is reported complete when all of it was satisfied within  *)
(* the budget: what the answer needs is indexed.  Not so: a symbol that    *)
(* has no row in the store makes the planner plan nothing.                 *)
OutcomeComplete ==
  \A v \in Views : outcome[v].complete => Relevant(outcome[v].req) \subseteq IndexedPaths

(* The flag of an answer says that the part of the repository it depends   *)
(* on is fully materialized.  Not so: a requirement the budget had no room *)
(* for is remembered as resolved, and what is resolved is complete.        *)
AnswerComplete ==
  \A v \in Views : answer[v].complete => Relevant(answer[v].req) \subseteq answer[v].seen

(* Every query ends, with an answer or an exception: resolving, falling    *)
(* back and asking again does not go on for ever, even when files fail to  *)
(* be indexed time and again.                                              *)
QueryEnds == \A v \in Views : pc[v] # "idle" ~> pc[v] = "idle"
=============================================================================
