--------------------------- MODULE ImpactEngine ---------------------------
(***************************************************************************)
(* The bounded traversal of the behavior compiler: from the symbols a pull *)
(* request changes, breadth first, up to their callers and then down to    *)
(* their callees, no deeper than MaxDepth and through at most MaxVisited   *)
(* nodes each way.  The repository answers with callers and callees, which *)
(* need not be converses of one another (see ViewCalls).                   *)
(***************************************************************************)
EXTENDS Naturals, Sequences, FiniteSets

CONSTANTS
  Nodes,       \* what the queries speak of: symbols and placeholders of names
  Surfaces,    \* databases and events
  MaxDepth,    \* TraversalConfig.max_depth
  MaxVisited   \* TraversalConfig.max_visited

ASSUME ImpactAssumption == MaxDepth \in Nat /\ MaxVisited \in Nat /\ IsFiniteSet(Nodes)

VARIABLES
  changed,     \* the identifiers the compiler starts from
  callers,     \* get_callers of the view
  callees,     \* get_callees of the view
  handlers,    \* symbols that handle an entry point
  surfacesOf,  \* database relationships and published events of a symbol
  phase,
  queueUp, queueDown,     \* entries of a node and its depth
  visitedUp, visitedDown,
  affected, endpoints, surfaces   \* the ImpactSurface

repository == <<changed, callers, callees, handlers, surfacesOf>>
surface == <<affected, endpoints, surfaces>>
impactVars == <<repository, phase, queueUp, queueDown, visitedUp, visitedDown, surface>>

Entry == [node : Nodes, depth : Nat]

\* the entries of a set of nodes at one depth, in the order the set or the
\* answer is iterated
Entries(S, d) ==
  {q \in [1..Cardinality(S) -> [node : S, depth : {d}]] :
     \A i, j \in DOMAIN q : q[i].node = q[j].node => i = j}

ImpactTypeOK ==
  /\ changed \in SUBSET Nodes
  /\ callers \in [Nodes -> SUBSET Nodes]
  /\ callees \in [Nodes -> SUBSET Nodes]
  /\ handlers \in SUBSET Nodes
  /\ surfacesOf \in [Nodes -> SUBSET Surfaces]
  /\ phase \in {"idle", "up", "down", "done"}
  /\ queueUp \in Seq(Entry) /\ queueDown \in Seq(Entry)
  /\ visitedUp \in SUBSET Nodes /\ visitedDown \in SUBSET Nodes
  /\ affected \in SUBSET Nodes
  /\ endpoints \in SUBSET Nodes
  /\ surfaces \in SUBSET Surfaces

NoSurface ==
  /\ phase = "idle"
  /\ queueUp = <<>> /\ queueDown = <<>>
  /\ visitedUp = {} /\ visitedDown = {}
  /\ affected = {} /\ endpoints = {} /\ surfaces = {}

\* nothing changed: an empty ImpactSurface
NothingChanged ==
  /\ phase = "idle" /\ changed = {}
  /\ phase' = "done"
  /\ UNCHANGED <<repository, queueUp, queueDown, visitedUp, visitedDown, surface>>

\* both queues are filled from one set, so in one order
StartTraversal ==
  /\ phase = "idle" /\ changed # {}
  /\ phase' = "up"
  /\ \E q \in Entries(changed, 0) : queueUp' = q /\ queueDown' = q
  /\ affected' = changed
  /\ UNCHANGED <<repository, visitedUp, visitedDown, endpoints, surfaces>>

\* the limit on visited nodes is not met
BelowLimit(visited) == Cardinality(visited) < MaxVisited

\* the loop condition of a direction
MayVisit(queue, visited) == queue # <<>> /\ BelowLimit(visited)

\* Mutant of TooDeep: a node past the limit is expanded no more, the last one is
JustTooDeep(at) == at.depth > MaxDepth

TooDeep(at) == at.depth >= MaxDepth

\* Mutant of Enqueued: the newest entry comes up first
Pushed(queue, q) == q \o Tail(queue)

\* what a visit leaves of a queue
Enqueued(queue, q) == Tail(queue) \o q

\* a node reached twice is dropped when it comes up
SkipUp ==
  /\ phase = "up" /\ MayVisit(queueUp, visitedUp)
  /\ Head(queueUp).node \in visitedUp
  /\ queueUp' = Tail(queueUp)
  /\ UNCHANGED <<repository, phase, queueDown, visitedUp, visitedDown, surface>>

VisitUp ==
  /\ phase = "up" /\ MayVisit(queueUp, visitedUp)
  /\ LET at == Head(queueUp) IN
     /\ at.node \notin visitedUp
     /\ visitedUp' = visitedUp \union {at.node}
     /\ affected' = affected \union {at.node}
     /\ endpoints' = endpoints \union ({at.node} \intersect handlers)
     /\ IF TooDeep(at)
        THEN queueUp' = Tail(queueUp)
        ELSE \E q \in Entries(callers[at.node] \ visitedUp', at.depth + 1) :
               queueUp' = Enqueued(queueUp, q)
  /\ UNCHANGED <<repository, phase, queueDown, visitedDown, surfaces>>

\* Mutant of EndUp: the loop ends with its queue only
EndUpWhenEmpty ==
  /\ phase = "up" /\ queueUp = <<>>
  /\ phase' = "down"
  /\ UNCHANGED <<repository, queueUp, queueDown, visitedUp, visitedDown, surface>>

EndUp ==
  /\ phase = "up" /\ ~MayVisit(queueUp, visitedUp)
  /\ phase' = "down"
  /\ UNCHANGED <<repository, queueUp, queueDown, visitedUp, visitedDown, surface>>

SkipDown ==
  /\ phase = "down" /\ MayVisit(queueDown, visitedDown)
  /\ Head(queueDown).node \in visitedDown
  /\ queueDown' = Tail(queueDown)
  /\ UNCHANGED <<repository, phase, queueUp, visitedUp, visitedDown, surface>>

VisitDown ==
  /\ phase = "down" /\ MayVisit(queueDown, visitedDown)
  /\ LET at == Head(queueDown) IN
     /\ at.node \notin visitedDown
     /\ visitedDown' = visitedDown \union {at.node}
     /\ affected' = affected \union {at.node}
     /\ surfaces' = surfaces \union surfacesOf[at.node]
     /\ IF TooDeep(at)
        THEN queueDown' = Tail(queueDown)
        ELSE \E q \in Entries(callees[at.node] \ visitedDown', at.depth + 1) :
               queueDown' = Enqueued(queueDown, q)
  /\ UNCHANGED <<repository, phase, queueUp, visitedUp, endpoints>>

EndDown ==
  /\ phase = "down" /\ ~MayVisit(queueDown, visitedDown)
  /\ phase' = "done"
  /\ UNCHANGED <<repository, queueUp, queueDown, visitedUp, visitedDown, surface>>

ImpactNext ==
  \/ NothingChanged \/ StartTraversal
  \/ SkipUp \/ VisitUp \/ EndUp
  \/ SkipDown \/ VisitDown \/ EndDown

ImpactSpec ==
  ImpactTypeOK /\ NoSurface /\ [][ImpactNext]_impactVars

-----------------------------------------------------------------------------
\* the walk from s to node by way of the nodes of p
Walk(s, p, node, d) == [i \in 0 .. d |-> IF i = 0 THEN s ELSE IF i = d THEN node ELSE p[i]]

Follows(answer, w, d) == \A i \in 1 .. d : w[i] \in answer[w[i - 1]]

\* node is d steps of an answer from a changed symbol
Steps(answer, node, d) ==
  IF d = 0 THEN node \in changed
  ELSE \E s \in changed : \E p \in [1 .. (d - 1) -> Nodes] :
         Follows(answer, Walk(s, p, node, d), d)

Within(answer, node) == \E d \in 0..MaxDepth : Steps(answer, node, d)

\* Nothing is called affected without a chain of at most MaxDepth callers or
\* callees that leads to it from a changed symbol; an endpoint is affected only
\* by way of its callers, a database or event only by way of the callees.
ImpactSound ==
  /\ \A n \in affected : Within(callers, n) \/ Within(callees, n)
  /\ \A n \in endpoints : n \in handlers /\ Within(callers, n)
  /\ \A r \in surfaces : \E n \in Nodes : r \in surfacesOf[n] /\ Within(callees, n)

\* The traversal loses nothing that lies within the depth, whatever the order in
\* which the answers are iterated, unless it met the limit on visited nodes: a
\* node is first visited at its least depth, so that cutting off at MaxDepth
\* cuts off no shorter way to what lies behind it.
ImpactComplete ==
  phase = "done" =>
    /\ BelowLimit(visitedUp) =>
         \A n \in Nodes : Within(callers, n) =>
           n \in affected /\ (n \in handlers => n \in endpoints)
    /\ BelowLimit(visitedDown) =>
         \A n \in Nodes : Within(callees, n) =>
           n \in affected /\ surfacesOf[n] \subseteq surfaces
=============================================================================
