---------------------------- MODULE Operational ----------------------------
(***************************************************************************)
(* The operational compiler: passes that run one after the other over the  *)
(* compiled change, the impact surface and the view, each adding one part  *)
(* to the operational change model.                                        *)
(*                                                                         *)
(* The impact surface holds identifiers as text, the facts of the view     *)
(* hold them as numbers, and the passes look both up in the same maps.     *)
(***************************************************************************)
EXTENDS ChangeCompiler, ImpactEngine

CONSTANTS
  Methods, Paths,  \* a route is a method and a path
  Get,             \* the method an endpoint change is listed under
  Stores, Events,  \* targets that are tables and targets that are events
  DataNames,       \* names that look like a data operation
  Publishes, Consumes,  \* [Names -> SUBSET Events], detected by name as well
  CategoryOf       \* [Names \X Files -> Categories \union {None}], of a test

Categories == {"unit", "integration", "e2e", "benchmark"}

\* identifiers as the passes hold them
Text(n) == [of |-> n, text |-> TRUE]
Number(n) == [of |-> n, text |-> FALSE]
Ids == [of : Nodes, text : BOOLEAN]

\* DependencyModel and APIModel
Fans == UNION {[S -> Nat] : S \in SUBSET Nodes}
DependencyModels ==
  [callers : SUBSET (Nodes \union {None}), dependents : SUBSET (Nodes \union {None}),
   fanIn : Fans, fanOut : Fans, crossing : SUBSET (Nodes \X Nodes), depth : {0, 1}]
APIModels == [rest : SUBSET [method : Methods, path : Paths, id : Ids]]

ASSUME OperationalAssumption ==
  /\ Nodes = Numbers /\ Surfaces = Targets
  /\ Routes \subseteq Methods \X Paths /\ Get \in Methods
  /\ Targets = Stores \union Events
  /\ {Publishes, Consumes} \subseteq [Names -> SUBSET Events]
  /\ CategoryOf \in [Names \X Files -> Categories \union {None}]
  /\ None \notin DependencyModels /\ None \notin APIModels

VARIABLES
  caps,      \* what the languages of the repository support
  entryOf,   \* entry_point_map: the entry point of each handler
  pass,      \* the pass to run next, or "raised", or "end"
  ocm        \* OperationalChangeModel

opVars == <<caps, entryOf, pass, ocm>>

Capabilities == [symbols : BOOLEAN, calls : BOOLEAN, entrypoints : BOOLEAN,
                 persistence : BOOLEAN, events : BOOLEAN, tests : BOOLEAN]

EntryPoint == [handler : Numbers, method : Methods, path : Paths]

Show(x) == Shown(base, head, x)

\* get_entry_points
EntryPoints ==
  {[handler |-> x[1], method |-> x[2][1], path |-> x[2][2]] :
     x \in {y \in Numbers \X Routes : Show(y[1]) # None /\ y[2] \in Show(y[1]).api}}

\* the endpoints the change compiler saw added or removed
ChangedEndpoints == {c \in facts.contracts : c[2] = "api"}

AffectedIds == {Text(n) : n \in affected \union ChangedIds}

\* get_symbol_map, keyed by the identifiers as text
SymbolMap == {Text(n) : n \in {m \in affected \union ChangedIds : Exists(base, head, m)}}
SymbolAt(id) == IF head.rows[id.of] # None THEN id.of ELSE Resolved(base, head, id.of)
NameAt(id) == Got(base, head, id.of).name

\* the adjacency maps of the pass context: keys as text, values as numbers
CalleesOf(id) == IF id \in AffectedIds THEN {Number(n) : n \in callees[id.of]} ELSE {}
CallersOf(id) == IF id \in AffectedIds THEN {Number(n) : n \in callers[id.of]} ELSE {}

\* both breadth-first walks over these maps, depth and reach: a value of a map is
\* no key of it, so they end after one step
Beyond(Next(_)) == (UNION {Next(id) : id \in AffectedIds}) \ AffectedIds

NoModel == [dependency |-> None, data |-> None, event |-> None, api |-> None,
            validation |-> None]

After == [composition |-> "dependency", dependency |-> "data", data |-> "events",
          events |-> "api", api |-> "validation", validation |-> "metrics",
          metrics |-> "end"]

\* the pass a missing capability takes out
Gate == [composition |-> TRUE, dependency |-> caps.calls, data |-> caps.persistence,
         events |-> caps.events, api |-> caps.entrypoints,
         validation |-> caps.tests, metrics |-> TRUE]

Goes(p) == pass = p /\ Gate[p] /\ pass' = After[p]

SkipPass ==
  /\ pass \in DOMAIN After /\ ~Gate[pass]
  /\ pass' = After[pass]
  /\ UNCHANGED <<caps, entryOf, ocm>>

\* model composition, and the consistency pass, which checks nothing of a view
Compose ==
  /\ Goes("composition")
  /\ ocm' = NoModel
  /\ UNCHANGED <<caps, entryOf>>

Counts(next) == [n \in affected \union ChangedIds |-> Cardinality(next[n])]

DependencyModel ==
  LET out == UNION {CalleesOf(id) : id \in AffectedIds}
      into == UNION {CallersOf(id) : id \in AffectedIds} IN
  [callers |-> {SymbolAt(id) : id \in into \intersect SymbolMap},
   dependents |-> {SymbolAt(id) : id \in out \intersect SymbolMap},
   fanIn |-> Counts(callers), fanOut |-> Counts(callees),
   crossing |-> {x \in (affected \union ChangedIds) \X Nodes :
                   x[2] \in callees[x[1]] /\ x[2] # x[1]},
   depth |-> IF Beyond(CalleesOf) = {} THEN 0 ELSE 1]

Dependency ==
  /\ Goes("dependency")
  /\ ocm' = [ocm EXCEPT !.dependency = DependencyModel]
  /\ UNCHANGED <<caps, entryOf>>

\* identifiers whose symbol is classified by its name
Relevant == (AffectedIds \union Beyond(CalleesOf)) \intersect SymbolMap

Data ==
  /\ Goes("data")
  /\ ocm' = [ocm EXCEPT !.data =
       {id.of : id \in {i \in Relevant : NameAt(i) \in DataNames}}]
  /\ UNCHANGED <<caps, entryOf>>

\* an edge leads from a publisher to another identifier that consumes the event
EventPass ==
  /\ Goes("events")
  /\ ocm' = [ocm EXCEPT !.event =
       {<<x[1].of, x[2], x[3].of>> : x \in
          {t \in Relevant \X Events \X Relevant :
             /\ t[1] # t[3]
             /\ t[2] \in Publishes[NameAt(t[1])] /\ t[2] \in Consumes[NameAt(t[3])]}}]
  /\ UNCHANGED <<caps, entryOf>>

\* Mutant of Listed: the endpoints of the impact surface are left out
ListedChanged ==
  {[method |-> Get, path |-> c[4][2], id |-> Number(c[1])] : c \in ChangedEndpoints}

\* the REST entries: entry points whose handler is affected or reaches what is,
\* and the routes of the compiled change, which come without their method and
\* with the identifier as a number
Listed ==
  {[method |-> e.method, path |-> e.path, id |-> Text(e.handler)] :
     e \in {x \in EntryPoints : Text(x.handler) \in AffectedIds \union Beyond(CallersOf)}}
  \union
  {[method |-> Get, path |-> c[4][2], id |-> Number(c[1])] : c \in ChangedEndpoints}

\* two entries that sort by identifier, one of them text and the other a number
Incomparable(entries) ==
  \E a, b \in entries :
    a.method = b.method /\ a.path = b.path /\ a.id.text # b.id.text

Api ==
  /\ ~Incomparable(Listed)
  /\ Goes("api")
  /\ ocm' = [ocm EXCEPT !.api = [rest |-> Listed]]
  /\ UNCHANGED <<caps, entryOf>>

\* sorting the entries raises
ApiRaises ==
  /\ pass = "api" /\ Gate["api"]
  /\ Incomparable(Listed)
  /\ pass' = "raised"
  /\ UNCHANGED <<caps, entryOf, ocm>>

\* get_tests of the view; the relation of a test is always COVERS
Covering ==
  {Number(t) : t \in UNION {Tests(base, head, n) : n \in affected \union ChangedIds}}

\* where no test is known: test functions among the affected symbols that call,
\* or are called by, an affected one
CategoryAt(id) == CategoryOf[<<NameAt(id), Got(base, head, id.of).file>>]

Nearby ==
  {t \in SymbolMap :
     /\ CategoryAt(t) # None
     /\ \E id \in AffectedIds : Number(SymbolAt(t)) \in CallersOf(id) \union CalleesOf(id)}

CategoryAs(id) == IF CategoryAt(id) = None THEN "unit" ELSE CategoryAt(id)

Validation ==
  /\ Goes("validation")
  /\ LET tests == IF Covering # {} THEN Covering ELSE Nearby IN
     ocm' = [ocm EXCEPT !.validation =
       [c \in Categories |-> {SymbolAt(t) : t \in {u \in tests : CategoryAs(u) = c}}]]
  /\ UNCHANGED <<caps, entryOf>>

\* counts over the other parts, which nothing downstream reads
Metrics ==
  /\ Goes("metrics")
  /\ UNCHANGED <<caps, entryOf, ocm>>

OpNext ==
  \/ SkipPass \/ Compose \/ Dependency \/ Data \/ EventPass
  \/ Api \/ ApiRaises \/ Validation \/ Metrics
=============================================================================
