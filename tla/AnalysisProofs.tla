--------------------------- MODULE AnalysisProofs ---------------------------
(***************************************************************************)
(* Theorems about the whole analysis, for every repository, pull request   *)
(* and value of the constants.                                             *)
(*                                                                         *)
(* Of the change the inductive invariant says what each file that was      *)
(* compared has contributed to the facts; of the traversal it says what    *)
(* ImpactInv says, and that it has found nothing before it begins.         *)
(*                                                                         *)
(* ImpactInv is the invariant of the traversal alone.  It says of the      *)
(* queues what ImpactSound says of their results: an entry holds a node    *)
(* that lies as many steps from a changed symbol as its depth says, and no *)
(* more than MaxDepth.                                                     *)
(***************************************************************************)
EXTENDS Analysis, SortingProofs, FiniteSetTheorems, SequenceTheorems, TLAPS

\* the entries that may be in a queue
Reached(answer) == {e \in Entry : e.depth <= MaxDepth /\ Steps(answer, e.node, e.depth)}

QueuesSound == queueUp \in Seq(Reached(callers)) /\ queueDown \in Seq(Reached(callees))

ImpactInv == ImpactTypeOK /\ ImpactSound /\ QueuesSound

-----------------------------------------------------------------------------
(* Walks.                                                                  *)

\* One more step of the answer leads one step further.
LEMMA OneStepFurther ==
  ASSUME NEW answer \in [Nodes -> SUBSET Nodes], changed \in SUBSET Nodes,
         NEW n \in Nodes, NEW d \in Nat, Steps(answer, n, d), NEW m \in answer[n]
  PROVE  Steps(answer, m, d + 1)
<1>1. SUFFICES \E s \in changed : \E p \in [1 .. d -> Nodes] :
                 Follows(answer, Walk(s, p, m, d + 1), d + 1)
  <2>1. d + 1 # 0 /\ (d + 1) - 1 = d
    OBVIOUS
  <2> QED
    BY <2>1 DEF Steps
<1>2. CASE d = 0
  <2> DEFINE p == [i \in 1 .. 0 |-> n]
             w == Walk(n, p, m, 1)
  <2>1. n \in changed /\ p \in [1 .. 0 -> Nodes]
    BY <1>2 DEF Steps
  <2>2. w[0] = n /\ w[1] = m
    BY DEF Walk
  <2>3. Follows(answer, w, 1)
    BY <2>2 DEF Follows
  <2> HIDE DEF p
  <2>4. p \in [1 .. d -> Nodes]
    BY <1>2, <2>1
  <2>5. d + 1 = 1
    BY <1>2
  <2>6. Follows(answer, Walk(n, p, m, d + 1), d + 1)
    BY <2>3, <2>5
  <2> QED
    BY <2>1, <2>4, <2>6
<1>3. CASE d # 0
  <2>1. PICK s \in changed : \E p \in [1 .. (d - 1) -> Nodes] :
               Follows(answer, Walk(s, p, n, d), d)
    BY <1>3 DEF Steps
  <2>2. PICK p \in [1 .. (d - 1) -> Nodes] : Follows(answer, Walk(s, p, n, d), d)
    BY <2>1
  <2> DEFINE q == [i \in 1 .. d |-> IF i = d THEN n ELSE p[i]]
             w == Walk(s, p, n, d)
             v == Walk(s, q, m, d + 1)
  <2>3. q \in [1 .. d -> Nodes]
    OBVIOUS
  <2>4. \A i \in 0 .. d : v[i] = w[i]
    BY <1>3 DEF Walk
  <2>5. v[d + 1] = m /\ w[d] = n
    BY <1>3 DEF Walk
  <2>6. Follows(answer, w, d)
    BY <2>2
  <2> HIDE DEF q, v, w
  <2>7. ASSUME NEW i \in 1 .. (d + 1) PROVE v[i] \in answer[v[i - 1]]
    <3>1. CASE i = d + 1
      BY <3>1, <2>4, <2>5
    <3>2. CASE i # d + 1
      <4>1. i \in 1 .. d /\ i \in 0 .. d /\ i - 1 \in 0 .. d
        BY <3>2
      <4>2. w[i] \in answer[w[i - 1]]
        BY <4>1, <2>6 DEF Follows
      <4> QED
        BY <4>1, <4>2, <2>4
    <3> QED
      BY <3>1, <3>2
  <2>8. Follows(answer, v, d + 1)
    BY <2>7 DEF Follows
  <2> QED
    BY <2>3, <2>8 DEF v
<1> QED
  BY <1>2, <1>3

\* What a walk leads to does not change with the traversal.
LEMMA StepsStay ==
  ASSUME UNCHANGED <<changed, callers, callees>>
  PROVE  /\ \A n : Within(callers, n)' <=> Within(callers, n)
         /\ \A n : Within(callees, n)' <=> Within(callees, n)
         /\ Reached(callers)' = Reached(callers) /\ Reached(callees)' = Reached(callees)
  BY DEF Within, Steps, Follows, Walk, Reached, Entry

\* The entries of a set of nodes.
LEMMA EntriesReached ==
  ASSUME NEW S \in SUBSET Nodes, NEW d \in Nat, d <= MaxDepth, NEW answer,
         \A n \in S : Steps(answer, n, d), NEW q \in Entries(S, d)
  PROVE  q \in Seq(Reached(answer)) /\ q \in Seq(Entry)
<1>1. Cardinality(S) \in Nat
  BY ImpactAssumption, FS_Subset, FS_CardinalityType
<1>2. [node : S, depth : {d}] \subseteq Reached(answer)
  BY DEF Reached, Entry
<1>3. q \in [1 .. Cardinality(S) -> Reached(answer)]
  BY <1>2 DEF Entries
<1>4. q \in [1 .. Cardinality(S) -> Entry]
  BY <1>3 DEF Reached
<1> QED
  BY <1>1, <1>3, <1>4, SeqDef

\* What is left of a queue once its head is taken.
LEMMA TailStays ==
  ASSUME NEW T, NEW q \in Seq(T), q # <<>>
  PROVE  Head(q) \in T /\ Tail(q) \in Seq(T)
  BY HeadTailProperties

\* What a changed symbol and an entry of a queue are to the results.
LEMMA ReachedWithin ==
  ASSUME NEW answer, NEW e \in Reached(answer)
  PROVE  e.node \in Nodes /\ e.depth \in Nat /\ Within(answer, e.node)
<1>1. e \in Entry /\ e.depth <= MaxDepth /\ Steps(answer, e.node, e.depth)
  BY DEF Reached
<1>2. e.node \in Nodes /\ e.depth \in Nat
  BY <1>1 DEF Entry
<1>3. e.depth \in 0 .. MaxDepth
  BY <1>1, <1>2, ImpactAssumption
<1> QED
  BY <1>1, <1>2, <1>3 DEF Within

LEMMA ChangedWithin ==
  ASSUME NEW answer, NEW n \in changed
  PROVE  Steps(answer, n, 0) /\ Within(answer, n)
<1>1. Steps(answer, n, 0)
  BY DEF Steps
<1>2. 0 \in 0 .. MaxDepth
  BY ImpactAssumption
<1> QED
  BY <1>1, <1>2 DEF Within

\* A visit puts reached entries only behind what it leaves of the queue.
LEMMA VisitKeeps ==
  ASSUME NEW answer \in [Nodes -> SUBSET Nodes], changed \in SUBSET Nodes,
         NEW queue \in Seq(Reached(answer)), queue \in Seq(Entry), queue # <<>>,
         ~TooDeep(Head(queue)), NEW seen,
         NEW q \in Entries(answer[Head(queue).node] \ seen, Head(queue).depth + 1)
  PROVE  /\ Enqueued(queue, q) \in Seq(Reached(answer))
         /\ Enqueued(queue, q) \in Seq(Entry)
<1> DEFINE at == Head(queue)
           S == answer[at.node] \ seen
<1>1. at \in Reached(answer) /\ Tail(queue) \in Seq(Reached(answer)) /\ Tail(queue) \in Seq(Entry)
  BY TailStays
<1>2. at.node \in Nodes /\ at.depth \in Nat /\ Steps(answer, at.node, at.depth)
  BY <1>1, ReachedWithin DEF Reached
<1>3. at.depth + 1 <= MaxDepth /\ at.depth + 1 \in Nat
  BY <1>2, ImpactAssumption DEF TooDeep
<1>4. S \in SUBSET Nodes /\ S \subseteq answer[at.node]
  BY <1>2
<1>5. q \in Entries(S, at.depth + 1)
  OBVIOUS
<1> HIDE DEF at
<1>6. \A m \in S : Steps(answer, m, at.depth + 1)
  BY <1>2, <1>4, OneStepFurther
<1> HIDE DEF S
<1>7. q \in Seq(Reached(answer)) /\ q \in Seq(Entry)
  BY <1>3, <1>4, <1>5, <1>6, EntriesReached
<1> QED
  BY <1>1, <1>7, ConcatProperties DEF Enqueued

-----------------------------------------------------------------------------
(* The invariant.                                                          *)

LEMMA InitImpact == ImpactTypeOK /\ NoSurface => ImpactInv
<1> SUFFICES ASSUME ImpactTypeOK, NoSurface PROVE ImpactInv
  OBVIOUS
<1>1. ImpactSound
  BY DEF NoSurface, ImpactSound
<1>2. QueuesSound
  BY DEF NoSurface, QueuesSound
<1> QED
  BY <1>1, <1>2 DEF ImpactInv

\* A step that leaves the results and shortens a queue at most.
LEMMA ResultsStay ==
  ASSUME ImpactInv, UNCHANGED <<repository, surface>>
  PROVE  ImpactSound'
<1>1. UNCHANGED <<changed, callers, callees, handlers, surfacesOf, affected, endpoints, surfaces>>
  BY DEF repository, surface
<1>2. \A n \in affected : Within(callers, n)' \/ Within(callees, n)'
  BY <1>1, StepsStay DEF ImpactInv, ImpactSound
<1>3. \A n \in endpoints : n \in handlers /\ Within(callers, n)'
  BY <1>1, StepsStay DEF ImpactInv, ImpactSound
<1>4. \A r \in surfaces : \E n \in Nodes : r \in surfacesOf[n] /\ Within(callees, n)'
  BY <1>1, StepsStay DEF ImpactInv, ImpactSound
<1> QED
  BY <1>1, <1>2, <1>3, <1>4 DEF ImpactSound

LEMMA NothingChangedSound == ASSUME ImpactInv, NothingChanged PROVE ImpactInv'
<1>1. UNCHANGED <<changed, callers, callees, handlers, surfacesOf, queueUp, queueDown,
                  visitedUp, visitedDown, affected, endpoints, surfaces>> /\ phase' = "done"
  BY DEF NothingChanged, repository, surface
<1>2. ImpactTypeOK'
  BY <1>1 DEF ImpactInv, ImpactTypeOK
<1>3. ImpactSound'
  BY ResultsStay DEF NothingChanged
<1>4. QueuesSound'
  BY <1>1, StepsStay DEF ImpactInv, QueuesSound
<1> QED
  BY <1>2, <1>3, <1>4 DEF ImpactInv

LEMMA StartTraversalSound == ASSUME ImpactInv, StartTraversal PROVE ImpactInv'
<1>1. UNCHANGED <<changed, callers, callees, handlers, surfacesOf,
                  visitedUp, visitedDown, endpoints, surfaces>>
      /\ phase' = "up" /\ affected' = changed
  BY DEF StartTraversal, repository
<1>2. PICK q \in Entries(changed, 0) : queueUp' = q /\ queueDown' = q
  BY DEF StartTraversal
<1>3. changed \in SUBSET Nodes /\ 0 <= MaxDepth
  BY ImpactAssumption DEF ImpactInv, ImpactTypeOK
<1>4. q \in Seq(Reached(callers)) /\ q \in Seq(Entry)
  BY <1>3, ChangedWithin, EntriesReached
<1>5. q \in Seq(Reached(callees))
  BY <1>3, ChangedWithin, EntriesReached
<1>6. ImpactTypeOK'
  BY <1>1, <1>2, <1>3, <1>4 DEF ImpactInv, ImpactTypeOK
<1>7. QueuesSound'
  BY <1>1, <1>2, <1>4, <1>5, StepsStay DEF QueuesSound
<1>8. \A n \in affected' : Within(callers, n)'
  BY <1>1, ChangedWithin, StepsStay
<1>9. \A n \in endpoints : n \in handlers /\ Within(callers, n)'
  BY <1>1, StepsStay DEF ImpactInv, ImpactSound
<1>10. \A r \in surfaces : \E n \in Nodes : r \in surfacesOf[n] /\ Within(callees, n)'
  BY <1>1, StepsStay DEF ImpactInv, ImpactSound
<1>11. ImpactSound'
  BY <1>1, <1>8, <1>9, <1>10 DEF ImpactSound
<1> QED
  BY <1>6, <1>7, <1>11 DEF ImpactInv

LEMMA SkipUpSound == ASSUME ImpactInv, SkipUp PROVE ImpactInv'
<1>1. UNCHANGED <<changed, callers, callees, handlers, surfacesOf, queueDown, phase,
                  visitedUp, visitedDown, affected, endpoints, surfaces>>
      /\ queueUp' = Tail(queueUp) /\ queueUp # <<>>
  BY DEF SkipUp, repository, surface, MayVisit
<1>2. Tail(queueUp) \in Seq(Reached(callers)) /\ Tail(queueUp) \in Seq(Entry)
  BY <1>1, TailStays DEF ImpactInv, QueuesSound, ImpactTypeOK
<1>3. ImpactTypeOK'
  BY <1>1, <1>2 DEF ImpactInv, ImpactTypeOK
<1>4. ImpactSound'
  BY ResultsStay DEF SkipUp
<1>5. QueuesSound'
  BY <1>1, <1>2, StepsStay DEF ImpactInv, QueuesSound
<1> QED
  BY <1>3, <1>4, <1>5 DEF ImpactInv

LEMMA SkipDownSound == ASSUME ImpactInv, SkipDown PROVE ImpactInv'
<1>1. UNCHANGED <<changed, callers, callees, handlers, surfacesOf, queueUp, phase,
                  visitedUp, visitedDown, affected, endpoints, surfaces>>
      /\ queueDown' = Tail(queueDown) /\ queueDown # <<>>
  BY DEF SkipDown, repository, surface, MayVisit
<1>2. Tail(queueDown) \in Seq(Reached(callees)) /\ Tail(queueDown) \in Seq(Entry)
  BY <1>1, TailStays DEF ImpactInv, QueuesSound, ImpactTypeOK
<1>3. ImpactTypeOK'
  BY <1>1, <1>2 DEF ImpactInv, ImpactTypeOK
<1>4. ImpactSound'
  BY ResultsStay DEF SkipDown
<1>5. QueuesSound'
  BY <1>1, <1>2, StepsStay DEF ImpactInv, QueuesSound
<1> QED
  BY <1>3, <1>4, <1>5 DEF ImpactInv

LEMMA VisitUpSound == ASSUME ImpactInv, VisitUp PROVE ImpactInv'
<1> DEFINE at == Head(queueUp)
<1>1. UNCHANGED <<changed, callers, callees, handlers, surfacesOf, queueDown, phase,
                  visitedDown, surfaces>>
      /\ queueUp # <<>>
  BY DEF VisitUp, repository, MayVisit
<1>2. /\ visitedUp' = visitedUp \union {at.node}
      /\ affected' = affected \union {at.node}
      /\ endpoints' = endpoints \union ({at.node} \intersect handlers)
  BY DEF VisitUp
<1>3. /\ queueUp \in Seq(Reached(callers)) /\ queueUp \in Seq(Entry)
      /\ callers \in [Nodes -> SUBSET Nodes] /\ changed \in SUBSET Nodes
  BY DEF ImpactInv, QueuesSound, ImpactTypeOK
<1>4. at \in Reached(callers) /\ Tail(queueUp) \in Seq(Reached(callers)) /\ Tail(queueUp) \in Seq(Entry)
  BY <1>1, <1>3, TailStays
<1>5. at.node \in Nodes /\ Within(callers, at.node)
  BY <1>4, ReachedWithin
<1>6. queueUp' \in Seq(Reached(callers)) /\ queueUp' \in Seq(Entry)
  <2>1. CASE TooDeep(at)
    BY <1>4, <2>1 DEF VisitUp
  <2>2. CASE ~TooDeep(at)
    <3>1. PICK q \in Entries(callers[at.node] \ visitedUp', at.depth + 1) :
                 queueUp' = Enqueued(queueUp, q)
      BY <2>2 DEF VisitUp
    <3> QED
      BY <1>1, <1>3, <2>2, <3>1, VisitKeeps
  <2> QED
    BY <2>1, <2>2
<1> HIDE DEF at
<1>7. ImpactTypeOK'
  BY <1>1, <1>2, <1>5, <1>6 DEF ImpactInv, ImpactTypeOK
<1>8. QueuesSound'
  BY <1>1, <1>6, StepsStay DEF ImpactInv, QueuesSound
<1>9. \A n \in affected' : Within(callers, n)' \/ Within(callees, n)'
  BY <1>1, <1>2, <1>5, StepsStay DEF ImpactInv, ImpactSound
<1>10. \A n \in endpoints' : n \in handlers /\ Within(callers, n)'
  BY <1>1, <1>2, <1>5, StepsStay DEF ImpactInv, ImpactSound
<1>11. \A r \in surfaces : \E n \in Nodes : r \in surfacesOf[n] /\ Within(callees, n)'
  BY <1>1, StepsStay DEF ImpactInv, ImpactSound
<1>12. ImpactSound'
  BY <1>1, <1>9, <1>10, <1>11 DEF ImpactSound
<1> QED
  BY <1>7, <1>8, <1>12 DEF ImpactInv

LEMMA VisitDownSound == ASSUME ImpactInv, VisitDown PROVE ImpactInv'
<1> DEFINE at == Head(queueDown)
<1>1. UNCHANGED <<changed, callers, callees, handlers, surfacesOf, queueUp, phase,
                  visitedUp, endpoints>>
      /\ queueDown # <<>>
  BY DEF VisitDown, repository, MayVisit
<1>2. /\ visitedDown' = visitedDown \union {at.node}
      /\ affected' = affected \union {at.node}
      /\ surfaces' = surfaces \union surfacesOf[at.node]
  BY DEF VisitDown
<1>3. /\ queueDown \in Seq(Reached(callees)) /\ queueDown \in Seq(Entry)
      /\ callees \in [Nodes -> SUBSET Nodes] /\ changed \in SUBSET Nodes
  BY DEF ImpactInv, QueuesSound, ImpactTypeOK
<1>4. at \in Reached(callees) /\ Tail(queueDown) \in Seq(Reached(callees)) /\ Tail(queueDown) \in Seq(Entry)
  BY <1>1, <1>3, TailStays
<1>5. at.node \in Nodes /\ Within(callees, at.node)
  BY <1>4, ReachedWithin
<1>6. queueDown' \in Seq(Reached(callees)) /\ queueDown' \in Seq(Entry)
  <2>1. CASE TooDeep(at)
    BY <1>4, <2>1 DEF VisitDown
  <2>2. CASE ~TooDeep(at)
    <3>1. PICK q \in Entries(callees[at.node] \ visitedDown', at.depth + 1) :
                 queueDown' = Enqueued(queueDown, q)
      BY <2>2 DEF VisitDown
    <3> QED
      BY <1>1, <1>3, <2>2, <3>1, VisitKeeps
  <2> QED
    BY <2>1, <2>2
<1> HIDE DEF at
<1>7. ImpactTypeOK'
  BY <1>1, <1>2, <1>5, <1>6 DEF ImpactInv, ImpactTypeOK
<1>8. QueuesSound'
  BY <1>1, <1>6, StepsStay DEF ImpactInv, QueuesSound
<1>9. \A n \in affected' : Within(callers, n)' \/ Within(callees, n)'
  BY <1>1, <1>2, <1>5, StepsStay DEF ImpactInv, ImpactSound
<1>10. \A n \in endpoints : n \in handlers /\ Within(callers, n)'
  BY <1>1, StepsStay DEF ImpactInv, ImpactSound
<1>11. \A r \in surfaces' : \E n \in Nodes : r \in surfacesOf[n] /\ Within(callees, n)'
  BY <1>1, <1>2, <1>5, StepsStay DEF ImpactInv, ImpactSound
<1>12. ImpactSound'
  BY <1>1, <1>9, <1>10, <1>11 DEF ImpactSound
<1> QED
  BY <1>7, <1>8, <1>12 DEF ImpactInv

LEMMA EndsSound == ASSUME ImpactInv, EndUp \/ EndDown PROVE ImpactInv'
<1>1. UNCHANGED <<changed, callers, callees, handlers, surfacesOf, queueUp, queueDown,
                  visitedUp, visitedDown, affected, endpoints, surfaces>>
      /\ phase' \in {"down", "done"}
  BY DEF EndUp, EndDown, repository, surface
<1>2. ImpactTypeOK'
  BY <1>1 DEF ImpactInv, ImpactTypeOK
<1>3. ImpactSound'
  BY ResultsStay DEF EndUp, EndDown
<1>4. QueuesSound'
  BY <1>1, StepsStay DEF ImpactInv, QueuesSound
<1> QED
  BY <1>2, <1>3, <1>4 DEF ImpactInv

LEMMA NoStepSound == ASSUME ImpactInv, UNCHANGED impactVars PROVE ImpactInv'
<1>1. UNCHANGED <<changed, callers, callees, handlers, surfacesOf, queueUp, queueDown, phase,
                  visitedUp, visitedDown, affected, endpoints, surfaces>>
  BY DEF impactVars, repository, surface
<1>2. ImpactTypeOK'
  BY <1>1 DEF ImpactInv, ImpactTypeOK
<1>3. ImpactSound'
  BY ResultsStay DEF impactVars
<1>4. QueuesSound'
  BY <1>1, StepsStay DEF ImpactInv, QueuesSound
<1> QED
  BY <1>2, <1>3, <1>4 DEF ImpactInv

\* No step of the traversal breaks the invariant.
THEOREM ImpactInvariant == ImpactSpec => []ImpactInv
<1>1. ImpactTypeOK /\ NoSurface => ImpactInv
  BY InitImpact
<1>2. ImpactInv /\ [ImpactNext]_impactVars => ImpactInv'
  <2> SUFFICES ASSUME ImpactInv, [ImpactNext]_impactVars PROVE ImpactInv'
    OBVIOUS
  <2>1. CASE NothingChanged
    BY <2>1, NothingChangedSound
  <2>2. CASE StartTraversal
    BY <2>2, StartTraversalSound
  <2>3. CASE SkipUp
    BY <2>3, SkipUpSound
  <2>4. CASE VisitUp
    BY <2>4, VisitUpSound
  <2>5. CASE EndUp \/ EndDown
    BY <2>5, EndsSound
  <2>6. CASE SkipDown
    BY <2>6, SkipDownSound
  <2>7. CASE VisitDown
    BY <2>7, VisitDownSound
  <2>8. CASE UNCHANGED impactVars
    BY <2>8, NoStepSound
  <2> QED
    BY <2>1, <2>2, <2>3, <2>4, <2>5, <2>6, <2>7, <2>8 DEF ImpactNext
<1> QED
  BY <1>1, <1>2, PTL DEF ImpactSpec

\* The traversal of calculate_impact calls nothing affected that is not at most
\* MaxDepth callers or callees away from a changed symbol, for every graph, every
\* order of the answers and every limit on depth and visited nodes.
THEOREM ImpactSoundAlways == ImpactSpec => []ImpactSound
<1>1. ImpactInv => ImpactSound
  BY DEF ImpactInv
<1> QED
  BY <1>1, ImpactInvariant, PTL

\* Every variable of the traversal keeps its type.
THEOREM ImpactTypeCorrect == ImpactSpec => []ImpactTypeOK
<1>1. ImpactInv => ImpactTypeOK
  BY DEF ImpactInv
<1> QED
  BY <1>1, ImpactInvariant, PTL
-----------------------------------------------------------------------------
(* Completeness.  A queue holds its entries in the order of their depths,  *)
(* which differ by one at most, and what a visited node leads to in fewer  *)
(* than MaxDepth steps is visited or in the queue at a depth no greater    *)
(* than those steps and one more.  So a node that comes up has its least   *)
(* depth.                                                                  *)

Sorted(queue) ==
  \A i, j \in 1 .. Len(queue) : i <= j =>
    queue[i].depth <= queue[j].depth /\ queue[j].depth <= queue[i].depth + 1

\* the queue holds a node, or something, no deeper than d
Holds(queue, n, d) == \E i \in 1 .. Len(queue) : queue[i].node = n /\ queue[i].depth <= d
HoldsSome(queue, d) == \E i \in 1 .. Len(queue) : queue[i].depth <= d

StartsCovered(queue, visited) == \A s \in changed : s \in visited \/ Holds(queue, s, 0)

NextCovered(answer, queue, visited) ==
  \A v \in visited : \A d \in 0 .. MaxDepth : (d < MaxDepth /\ Steps(answer, v, d)) =>
    \A m \in answer[v] : m \in visited \/ Holds(queue, m, d + 1)

Frontier(answer, queue, visited) ==
  Sorted(queue) /\ StartsCovered(queue, visited) /\ NextCovered(answer, queue, visited)

ResultsKept ==
  /\ visitedUp \subseteq affected /\ visitedDown \subseteq affected
  /\ visitedUp \intersect handlers \subseteq endpoints
  /\ \A n \in visitedDown : surfacesOf[n] \subseteq surfaces
  /\ endpoints \subseteq affected

CompleteInv ==
  /\ phase = "idle" => NoSurface
  /\ phase # "idle" => /\ Frontier(callers, queueUp, visitedUp)
                       /\ Frontier(callees, queueDown, visitedDown)
  /\ phase \in {"down", "done"} => ~MayVisit(queueUp, visitedUp)
  /\ phase = "done" => ~MayVisit(queueDown, visitedDown)
  /\ ResultsKept

\* The last step of a walk comes from a node one step nearer.
LEMMA StepBefore ==
  ASSUME NEW answer \in [Nodes -> SUBSET Nodes], changed \in SUBSET Nodes,
         NEW n \in Nodes, NEW d \in Nat, Steps(answer, n, d + 1)
  PROVE  \E m \in Nodes : Steps(answer, m, d) /\ n \in answer[m]
<1>1. PICK s \in changed : \E p \in [1 .. d -> Nodes] :
             Follows(answer, Walk(s, p, n, d + 1), d + 1)
  <2>1. d + 1 # 0 /\ (d + 1) - 1 = d
    OBVIOUS
  <2> QED
    BY <2>1 DEF Steps
<1>2. PICK p \in [1 .. d -> Nodes] : Follows(answer, Walk(s, p, n, d + 1), d + 1)
  BY <1>1
<1> DEFINE w == Walk(s, p, n, d + 1)
<1>3. n \in answer[w[d]]
  <2>1. w[d + 1] = n /\ d + 1 \in 1 .. (d + 1) /\ (d + 1) - 1 = d
    BY DEF Walk
  <2> HIDE DEF w
  <2>2. Follows(answer, w, d + 1)
    BY <1>2 DEF w
  <2>3. w[d + 1] \in answer[w[(d + 1) - 1]]
    BY <2>1, <2>2 DEF Follows
  <2> QED
    BY <2>1, <2>3
<1>4. CASE d = 0
  <2>1. w[d] = s
    BY <1>4 DEF Walk
  <2>2. Steps(answer, s, d)
    BY <1>4 DEF Steps
  <2> QED
    BY <1>3, <2>1, <2>2
<1>5. CASE d # 0
  <2> DEFINE q == [i \in 1 .. (d - 1) |-> p[i]]
             v == Walk(s, q, p[d], d)
  <2>1. w[d] = p[d] /\ p[d] \in Nodes /\ q \in [1 .. (d - 1) -> Nodes]
    BY <1>5 DEF Walk
  <2>2. \A i \in 0 .. d : v[i] = w[i]
    BY <1>5 DEF Walk
  <2>3. Follows(answer, w, d + 1)
    BY <1>2
  <2> HIDE DEF q, v, w
  <2>4. ASSUME NEW i \in 1 .. d PROVE v[i] \in answer[v[i - 1]]
    <3>1. i \in 1 .. (d + 1) /\ i \in 0 .. d /\ i - 1 \in 0 .. d
      OBVIOUS
    <3>2. w[i] \in answer[w[i - 1]]
      BY <2>3, <3>1 DEF Follows
    <3> QED
      BY <2>2, <3>1, <3>2
  <2>5. Follows(answer, v, d)
    BY <2>4 DEF Follows
  <2>6. Steps(answer, p[d], d)
    BY <1>5, <2>1, <2>5 DEF Steps, v
  <2> QED
    BY <1>3, <2>1, <2>6
<1> QED
  BY <1>4, <1>5

\* What lies d steps away is visited, or the queue still holds something that is
\* no deeper.
LEMMA Covered ==
  ASSUME NEW answer \in [Nodes -> SUBSET Nodes], changed \in SUBSET Nodes,
         NEW queue \in Seq(Entry), NEW visited, Frontier(answer, queue, visited),
         NEW n \in Nodes, NEW d \in 0 .. MaxDepth, Steps(answer, n, d)
  PROVE  n \in visited \/ HoldsSome(queue, d)
<1> DEFINE Missed(k, x) == x \notin visited /\ ~HoldsSome(queue, k) /\ Steps(answer, x, k)
           T == {k \in 0 .. MaxDepth : \E x \in Nodes : Missed(k, x)}
<1> SUFFICES ASSUME T # {} PROVE FALSE
  OBVIOUS
<1>1. MaxDepth \in Nat /\ T \in SUBSET Nat
  BY ImpactAssumption
<1> HIDE DEF T
<1>2. PICK k \in T : \A j \in T : k <= j
  BY <1>1, LeastNumber
<1>3. k \in 0 .. MaxDepth /\ \E x \in Nodes : Missed(k, x)
  BY <1>2 DEF T
<1>4. PICK x \in Nodes : Missed(k, x)
  BY <1>3
<1>5. Len(queue) \in Nat /\ \A i \in 1 .. Len(queue) : queue[i].depth \in Nat
  <2>1. Len(queue) \in Nat /\ \A i \in 1 .. Len(queue) : queue[i] \in Entry
    BY LenProperties, ElementOfSeq
  <2> QED
    BY <2>1 DEF Entry
<1>6. CASE k = 0
  <2>1. x \in changed
    BY <1>4, <1>6 DEF Steps
  <2>2. Holds(queue, x, 0)
    BY <2>1, <1>4 DEF Frontier, StartsCovered
  <2> QED
    BY <2>2, <1>4, <1>6 DEF Holds, HoldsSome
<1>7. CASE k # 0
  <2>1. k - 1 \in Nat /\ k = (k - 1) + 1 /\ k - 1 \in 0 .. MaxDepth /\ k - 1 < MaxDepth
    BY <1>1, <1>3, <1>7
  <2>2. Steps(answer, x, (k - 1) + 1)
    BY <1>4, <2>1
  <2>3. PICK m \in Nodes : Steps(answer, m, k - 1) /\ x \in answer[m]
    BY <2>1, <2>2, StepBefore
  <2>4. k - 1 \notin T
    BY <1>1, <1>2, <2>1
  <2>5. ~Missed(k - 1, m)
    BY <2>1, <2>4 DEF T
  <2>6. CASE m \in visited
    <3>1. Holds(queue, x, (k - 1) + 1)
      BY <1>4, <2>1, <2>3, <2>6 DEF Frontier, NextCovered
    <3> QED
      BY <3>1, <2>1, <1>4 DEF Holds, HoldsSome
  <2>7. CASE HoldsSome(queue, k - 1)
    <3>1. HoldsSome(queue, k)
      BY <2>7, <2>1, <1>1, <1>5 DEF HoldsSome
    <3> QED
      BY <3>1, <1>4
  <2> QED
    BY <2>3, <2>5, <2>6, <2>7
<1> QED
  BY <1>6, <1>7

\* Every node of a set has an entry.
LEMMA EntriesHold ==
  ASSUME NEW S \in SUBSET Nodes, NEW d \in Nat, NEW q \in Entries(S, d)
  PROVE  /\ q \in Seq(Entry)
         /\ \A i \in 1 .. Len(q) : q[i].depth = d
         /\ \A m \in S : \E i \in 1 .. Len(q) : q[i].node = m
<1> DEFINE c == Cardinality(S)
           f == [i \in 1 .. c |-> q[i].node]
<1>1. IsFiniteSet(S) /\ c \in Nat
  BY ImpactAssumption, FS_Subset, FS_CardinalityType
<1>2. q \in [1 .. c -> [node : S, depth : {d}]]
      /\ \A i, j \in 1 .. c : q[i].node = q[j].node => i = j
  BY DEF Entries
<1>3. Cardinality(1 .. c) = c
  BY <1>1, FS_Interval
<1> HIDE DEF c
<1>4. \A i \in 1 .. c : q[i].node \in S /\ q[i].depth = d /\ q[i] \in Entry
  BY <1>2 DEF Entry
<1>5. q \in Seq(Entry) /\ Len(q) = c
  <2>1. q \in [1 .. c -> Entry]
    BY <1>2, <1>4
  <2> QED
    BY <1>1, <2>1, SeqDef
<1>6. f \in Injection(1 .. c, S)
  <2>1. f \in [1 .. c -> S]
    BY <1>4
  <2>2. \A i, j \in 1 .. c : f[i] = f[j] => i = j
    BY <1>2
  <2> QED
    BY <2>1, <2>2 DEF Injection, IsInjective
<1>7. f \in Surjection(1 .. c, S)
  BY <1>1, <1>3, <1>6, FS_Injection DEF c
<1>8. ASSUME NEW m \in S PROVE \E i \in 1 .. c : q[i].node = m
  <2>1. \E i \in 1 .. c : f[i] = m
    BY <1>7 DEF Surjection
  <2> QED
    BY <2>1
<1> QED
  BY <1>4, <1>5, <1>8

\* What the tail of a queue is to the queue.
LEMMA TailIndices ==
  ASSUME NEW queue \in Seq(Entry), queue # <<>>
  PROVE  /\ Len(queue) \in Nat /\ 1 \in 1 .. Len(queue) /\ Head(queue) = queue[1]
         /\ Tail(queue) \in Seq(Entry) /\ Len(Tail(queue)) = Len(queue) - 1
         /\ \A i \in 1 .. Len(queue) : queue[i] \in Entry /\ queue[i].depth \in Nat
         /\ \A i \in 1 .. Len(queue) - 1 : Tail(queue)[i] = queue[i + 1]
<1>1. Len(queue) \in Nat \ {0} /\ Head(queue) = queue[1]
  BY EmptySeq, LenProperties
<1>2. Tail(queue) \in Seq(Entry) /\ Len(Tail(queue)) = Len(queue) - 1
      /\ \A i \in 1 .. Len(Tail(queue)) : Tail(queue)[i] = queue[i + 1]
  BY HeadTailProperties
<1>3. \A i \in 1 .. Len(queue) : queue[i] \in Entry
  BY ElementOfSeq
<1>4. \A i \in 1 .. Len(queue) : queue[i].depth \in Nat
  BY <1>3 DEF Entry
<1> QED
  BY <1>1, <1>2, <1>3, <1>4

\* The tail holds what the queue holds, but for the node that came up.
LEMMA TailHolds ==
  ASSUME NEW queue \in Seq(Entry), queue # <<>>, NEW n, n # Head(queue).node,
         NEW d \in Nat, Holds(queue, n, d)
  PROVE  Holds(Tail(queue), n, d)
<1>1. PICK i \in 1 .. Len(queue) : queue[i].node = n /\ queue[i].depth <= d
  BY DEF Holds
<1>2. i # 1 /\ Len(queue) \in Nat
  BY <1>1, TailIndices
<1>3. i - 1 \in 1 .. Len(queue) - 1 /\ (i - 1) + 1 = i
  BY <1>2
<1>4. Tail(queue)[i - 1] = queue[i]
  BY <1>3, TailIndices
<1> QED
  BY <1>1, <1>3, <1>4, TailIndices DEF Holds

LEMMA TailSorted ==
  ASSUME NEW queue \in Seq(Entry), queue # <<>>, Sorted(queue)
  PROVE  Sorted(Tail(queue))
<1>1. ASSUME NEW i \in 1 .. Len(Tail(queue)), NEW j \in 1 .. Len(Tail(queue)), i <= j
      PROVE  /\ Tail(queue)[i].depth <= Tail(queue)[j].depth
             /\ Tail(queue)[j].depth <= Tail(queue)[i].depth + 1
  <2>1. Len(queue) \in Nat /\ Len(Tail(queue)) = Len(queue) - 1
    BY TailIndices
  <2>2. i + 1 \in 1 .. Len(queue) /\ j + 1 \in 1 .. Len(queue) /\ i + 1 <= j + 1
        /\ i \in 1 .. Len(queue) - 1 /\ j \in 1 .. Len(queue) - 1
    BY <1>1, <2>1
  <2>3. Tail(queue)[i] = queue[i + 1] /\ Tail(queue)[j] = queue[j + 1]
    BY <2>2, TailIndices
  <2> QED
    BY <2>2, <2>3 DEF Sorted
<1> QED
  BY <1>1 DEF Sorted

\* No entry is above the head of a sorted queue.
LEMMA HeadIsLeast ==
  ASSUME NEW queue \in Seq(Entry), queue # <<>>, Sorted(queue),
         NEW d \in Nat, HoldsSome(queue, d)
  PROVE  Head(queue).depth <= d
<1>1. PICK i \in 1 .. Len(queue) : queue[i].depth <= d
  BY DEF HoldsSome
<1>2. queue[1].depth <= queue[i].depth /\ queue[1].depth \in Nat /\ queue[i].depth \in Nat
  BY TailIndices DEF Sorted
<1> QED
  BY <1>1, <1>2, TailIndices

\* What a queue holds it holds with more behind it, and the other way round.
LEMMA ConcatHolds ==
  ASSUME NEW p \in Seq(Entry), NEW q \in Seq(Entry), NEW n, NEW d
  PROVE  /\ p \o q \in Seq(Entry)
         /\ Holds(p, n, d) => Holds(p \o q, n, d)
         /\ Holds(q, n, d) => Holds(p \o q, n, d)
<1>1. p \o q \in Seq(Entry) /\ Len(p \o q) = Len(p) + Len(q) /\ Len(p) \in Nat /\ Len(q) \in Nat
      /\ \A i \in 1 .. Len(p) + Len(q) :
           (p \o q)[i] = IF i <= Len(p) THEN p[i] ELSE q[i - Len(p)]
  BY ConcatProperties, LenProperties
<1>2. ASSUME Holds(p, n, d) PROVE Holds(p \o q, n, d)
  <2>1. PICK i \in 1 .. Len(p) : p[i].node = n /\ p[i].depth <= d
    BY <1>2 DEF Holds
  <2>2. i \in 1 .. Len(p \o q) /\ (p \o q)[i] = p[i]
    BY <1>1
  <2> QED
    BY <2>1, <2>2 DEF Holds
<1>3. ASSUME Holds(q, n, d) PROVE Holds(p \o q, n, d)
  <2>1. PICK i \in 1 .. Len(q) : q[i].node = n /\ q[i].depth <= d
    BY <1>3 DEF Holds
  <2>2. i + Len(p) \in 1 .. Len(p) + Len(q) /\ ~(i + Len(p) <= Len(p))
        /\ (i + Len(p)) - Len(p) = i
    BY <1>1
  <2>3. (p \o q)[i + Len(p)] = q[i]
    BY <1>1, <2>2
  <2> QED
    BY <1>1, <2>1, <2>2, <2>3 DEF Holds
<1> QED
  BY <1>1, <1>2, <1>3

\* A queue stays sorted when what is put behind it is one deeper than its old head.
LEMMA EnqueuedSorted ==
  ASSUME NEW queue \in Seq(Entry), queue # <<>>, Sorted(queue),
         NEW q \in Seq(Entry), \A i \in 1 .. Len(q) : q[i].depth = Head(queue).depth + 1
  PROVE  Sorted(Enqueued(queue, q))
<1> DEFINE p == Tail(queue)
           h == Head(queue).depth
<1>1. Sorted(p) /\ p \in Seq(Entry) /\ h \in Nat
  BY TailSorted, TailIndices
<1>2. \A i \in 1 .. Len(p) : h <= p[i].depth /\ p[i].depth <= h + 1 /\ p[i].depth \in Nat
  <2> SUFFICES ASSUME NEW i \in 1 .. Len(p)
               PROVE  h <= p[i].depth /\ p[i].depth <= h + 1 /\ p[i].depth \in Nat
    OBVIOUS
  <2>1. i \in 1 .. Len(queue) - 1 /\ i + 1 \in 1 .. Len(queue) /\ 1 \in 1 .. Len(queue) /\ 1 <= i + 1
    BY TailIndices
  <2>2. p[i] = queue[i + 1] /\ queue[i + 1].depth \in Nat
    BY <2>1, TailIndices
  <2>3. queue[1].depth <= queue[i + 1].depth /\ queue[i + 1].depth <= queue[1].depth + 1
    BY <2>1 DEF Sorted
  <2>4. h = queue[1].depth
    BY TailIndices
  <2> QED
    BY <2>2, <2>3, <2>4
<1>3. p \o q \in Seq(Entry) /\ Len(p \o q) = Len(p) + Len(q) /\ Len(p) \in Nat /\ Len(q) \in Nat
      /\ \A i \in 1 .. Len(p) + Len(q) :
           (p \o q)[i] = IF i <= Len(p) THEN p[i] ELSE q[i - Len(p)]
  BY <1>1, ConcatProperties, LenProperties
<1>4. \A i \in 1 .. Len(q) : q[i].depth = h + 1
  OBVIOUS
<1> HIDE DEF p, h
<1>5. ASSUME NEW i \in 1 .. Len(p \o q), NEW j \in 1 .. Len(p \o q), i <= j
      PROVE  /\ (p \o q)[i].depth <= (p \o q)[j].depth
             /\ (p \o q)[j].depth <= (p \o q)[i].depth + 1
  <2>1. CASE j <= Len(p)
    <3>1. i \in 1 .. Len(p) /\ j \in 1 .. Len(p) /\ (p \o q)[i] = p[i] /\ (p \o q)[j] = p[j]
      BY <1>3, <1>5, <2>1
    <3> QED
      BY <1>1, <1>5, <3>1 DEF Sorted
  <2>2. CASE j > Len(p) /\ i <= Len(p)
    <3>1. i \in 1 .. Len(p) /\ j - Len(p) \in 1 .. Len(q)
          /\ (p \o q)[i] = p[i] /\ (p \o q)[j] = q[j - Len(p)]
      BY <1>3, <2>2
    <3> QED
      BY <1>1, <1>2, <1>4, <3>1
  <2>3. CASE i > Len(p)
    <3>1. j - Len(p) \in 1 .. Len(q) /\ i - Len(p) \in 1 .. Len(q)
          /\ (p \o q)[i] = q[i - Len(p)] /\ (p \o q)[j] = q[j - Len(p)]
      BY <1>3, <1>5, <2>3
    <3> QED
      BY <1>1, <1>4, <3>1
  <2> QED
    BY <1>3, <2>1, <2>2, <2>3
<1> QED
  BY <1>5 DEF Sorted, Enqueued, p

\* The traversal starts with the changed symbols in its queue.
LEMMA StartFrontier ==
  ASSUME NEW answer, changed \in SUBSET Nodes, NEW q \in Entries(changed, 0)
  PROVE  Frontier(answer, q, {})
<1>1. /\ \A i \in 1 .. Len(q) : q[i].depth = 0
      /\ \A m \in changed : \E i \in 1 .. Len(q) : q[i].node = m
  BY EntriesHold
<1>2. Sorted(q)
  BY <1>1 DEF Sorted
<1>3. StartsCovered(q, {})
  BY <1>1 DEF StartsCovered, Holds
<1> QED
  BY <1>2, <1>3 DEF Frontier, NextCovered

\* A node that was visited before is dropped.
LEMMA SkipFrontier ==
  ASSUME NEW answer, NEW queue \in Seq(Entry), queue # <<>>, NEW visited,
         Frontier(answer, queue, visited), Head(queue).node \in visited
  PROVE  Frontier(answer, Tail(queue), visited)
<1>1. Sorted(Tail(queue))
  BY TailSorted DEF Frontier
<1>2. StartsCovered(Tail(queue), visited)
  <2> SUFFICES ASSUME NEW s \in changed, s \notin visited PROVE Holds(Tail(queue), s, 0)
    BY DEF StartsCovered
  <2>1. Holds(queue, s, 0)
    BY DEF Frontier, StartsCovered
  <2> QED
    BY <2>1, TailHolds
<1>3. NextCovered(answer, Tail(queue), visited)
  <2> SUFFICES ASSUME NEW v \in visited, NEW d \in 0 .. MaxDepth, d < MaxDepth, Steps(answer, v, d),
                      NEW m \in answer[v], m \notin visited
               PROVE  Holds(Tail(queue), m, d + 1)
    BY DEF NextCovered
  <2>1. Holds(queue, m, d + 1)
    BY DEF Frontier, NextCovered
  <2>2. d + 1 \in Nat
    OBVIOUS
  <2> QED
    BY <2>1, <2>2, TailHolds
<1> QED
  BY <1>1, <1>2, <1>3 DEF Frontier

\* A visit leaves of the queue its tail, with the answer behind it unless the node
\* is too deep.
LEMMA VisitFrontier ==
  ASSUME NEW answer \in [Nodes -> SUBSET Nodes], changed \in SUBSET Nodes,
         NEW queue \in Seq(Entry), queue # <<>>, NEW visited,
         Frontier(answer, queue, visited), Head(queue).node \notin visited,
         NEW seen, seen = visited \union {Head(queue).node}, NEW rest \in Seq(Entry),
         \A n, d : Holds(Tail(queue), n, d) => Holds(rest, n, d), Sorted(rest),
         ~TooDeep(Head(queue)) =>
           \A m \in answer[Head(queue).node] \ seen : Holds(rest, m, Head(queue).depth + 1)
  PROVE  Frontier(answer, rest, seen)
<1> DEFINE at == Head(queue)
<1>1. at \in Entry /\ at.node \in Nodes /\ at.depth \in Nat
  <2>1. at \in Entry
    BY TailIndices
  <2> QED
    BY <2>1 DEF Entry
<1> HIDE DEF at
<1>2. StartsCovered(rest, seen)
  <2> SUFFICES ASSUME NEW s \in changed, s \notin seen PROVE Holds(rest, s, 0)
    BY DEF StartsCovered
  <2>1. Holds(queue, s, 0) /\ s # Head(queue).node
    BY DEF Frontier, StartsCovered
  <2> QED
    BY <2>1, TailHolds
<1>3. NextCovered(answer, rest, seen)
  <2> SUFFICES ASSUME NEW v \in seen, NEW d \in 0 .. MaxDepth, d < MaxDepth, Steps(answer, v, d),
                      NEW m \in answer[v], m \notin seen
               PROVE  Holds(rest, m, d + 1)
    BY DEF NextCovered
  <2>1. d \in Nat /\ d + 1 \in Nat /\ m # Head(queue).node /\ m \notin visited /\ MaxDepth \in Nat
    BY ImpactAssumption
  <2>2. CASE v \in visited
    <3>1. Holds(queue, m, d + 1)
      BY <2>1, <2>2 DEF Frontier, NextCovered
    <3>2. Holds(Tail(queue), m, d + 1)
      BY <2>1, <3>1, TailHolds
    <3> QED
      BY <3>2
  <2>3. CASE v \notin visited
    <3>1. v = at.node
      BY <2>3 DEF at
    <3>2. HoldsSome(queue, d)
      BY <1>1, <2>3, <3>1, Covered
    <3>3. at.depth <= d
      BY <2>1, <3>2, HeadIsLeast DEF Frontier, at
    <3>4. ~TooDeep(at)
      BY <1>1, <2>1, <3>3 DEF TooDeep
    <3>5. Holds(rest, m, at.depth + 1)
      BY <3>1, <3>4 DEF at
    <3>6. Len(rest) \in Nat /\ \A i \in 1 .. Len(rest) : rest[i].depth \in Nat
      <4>1. Len(rest) \in Nat /\ \A i \in 1 .. Len(rest) : rest[i] \in Entry
        BY LenProperties, ElementOfSeq
      <4> QED
        BY <4>1 DEF Entry
    <3> QED
      BY <1>1, <2>1, <3>3, <3>5, <3>6 DEF Holds
  <2> QED
    BY <2>2, <2>3
<1> QED
  BY <1>2, <1>3 DEF Frontier

LEMMA LastVisitFrontier ==
  ASSUME NEW answer \in [Nodes -> SUBSET Nodes], changed \in SUBSET Nodes,
         NEW queue \in Seq(Entry), queue # <<>>, NEW visited,
         Frontier(answer, queue, visited), Head(queue).node \notin visited,
         TooDeep(Head(queue))
  PROVE  Frontier(answer, Tail(queue), visited \union {Head(queue).node})
<1>1. Tail(queue) \in Seq(Entry) /\ Sorted(Tail(queue))
  BY TailIndices, TailSorted DEF Frontier
<1> QED
  BY <1>1, VisitFrontier

LEMMA NextVisitFrontier ==
  ASSUME NEW answer \in [Nodes -> SUBSET Nodes], changed \in SUBSET Nodes,
         NEW queue \in Seq(Entry), queue # <<>>, NEW visited,
         Frontier(answer, queue, visited), Head(queue).node \notin visited,
         NEW seen, seen = visited \union {Head(queue).node},
         NEW q \in Entries(answer[Head(queue).node] \ seen, Head(queue).depth + 1)
  PROVE  Frontier(answer, Enqueued(queue, q), seen)
<1> DEFINE S == answer[Head(queue).node] \ seen
           h == Head(queue).depth + 1
<1>1. Tail(queue) \in Seq(Entry) /\ Head(queue).node \in Nodes /\ h \in Nat
  <2>1. Tail(queue) \in Seq(Entry) /\ Head(queue) \in Entry
    BY TailIndices
  <2> QED
    BY <2>1 DEF Entry
<1>2. S \in SUBSET Nodes
  BY <1>1
<1>3. q \in Entries(S, h)
  OBVIOUS
<1> HIDE DEF S, h
<1>4. /\ q \in Seq(Entry)
      /\ \A i \in 1 .. Len(q) : q[i].depth = h
      /\ \A m \in S : \E i \in 1 .. Len(q) : q[i].node = m
  BY ONLY <1>1, <1>2, <1>3, EntriesHold
<1>5. Enqueued(queue, q) \in Seq(Entry)
      /\ \A n, d : /\ Holds(Tail(queue), n, d) => Holds(Enqueued(queue, q), n, d)
                   /\ Holds(q, n, d) => Holds(Enqueued(queue, q), n, d)
  BY <1>1, <1>4, ConcatHolds DEF Enqueued
<1>6. Sorted(Enqueued(queue, q))
  BY <1>4, EnqueuedSorted DEF Frontier, h
<1>7. \A m \in S : Holds(Enqueued(queue, q), m, h)
  <2>1. \A m \in S : Holds(q, m, h)
    BY <1>1, <1>4 DEF Holds
  <2> QED
    BY <2>1, <1>5
<1>8. \A m \in answer[Head(queue).node] \ seen : Holds(Enqueued(queue, q), m, Head(queue).depth + 1)
  BY <1>7 DEF S, h
<1> QED
  BY <1>5, <1>6, <1>8, VisitFrontier

\* An empty queue has missed nothing.
LEMMA NothingMissed ==
  ASSUME NEW answer \in [Nodes -> SUBSET Nodes], changed \in SUBSET Nodes,
         NEW queue, queue = <<>>, NEW visited, Frontier(answer, queue, visited),
         NEW n \in Nodes, Within(answer, n)
  PROVE  n \in visited
<1>1. PICK d \in 0 .. MaxDepth : Steps(answer, n, d)
  BY DEF Within
<1>2. queue \in Seq(Entry) /\ Len(queue) = 0
  BY EmptySeq
<1>3. ~HoldsSome(queue, d)
  BY <1>2 DEF HoldsSome
<1> QED
  BY <1>1, <1>2, <1>3, Covered

\* Frontiers speak of the repository, which does not change.
LEMMA FrontierStays ==
  ASSUME UNCHANGED <<changed, callers, callees>>
  PROVE  /\ Frontier(callers, queueUp, visitedUp)' <=> Frontier(callers, queueUp', visitedUp')
         /\ Frontier(callees, queueDown, visitedDown)'
              <=> Frontier(callees, queueDown', visitedDown')
  BY DEF Frontier, Sorted, StartsCovered, NextCovered, Holds, Steps, Follows, Walk

\* A step that leaves queues, visits and results alone.
LEMMA FrontiersStay ==
  ASSUME CompleteInv, phase # "idle",
         UNCHANGED <<repository, queueUp, queueDown, visitedUp, visitedDown, surface>>
  PROVE  /\ Frontier(callers, queueUp, visitedUp)' /\ Frontier(callees, queueDown, visitedDown)'
         /\ ResultsKept'
<1>1. UNCHANGED <<changed, callers, callees, handlers, surfacesOf, queueUp, queueDown,
                  visitedUp, visitedDown, affected, endpoints, surfaces>>
  BY DEF repository, surface
<1>2. ResultsKept'
  BY <1>1 DEF CompleteInv, ResultsKept
<1> QED
  BY <1>1, <1>2, FrontierStays DEF CompleteInv

LEMMA NothingChangedComplete ==
  ASSUME ImpactInv, CompleteInv, NothingChanged PROVE CompleteInv'
<1>1. UNCHANGED <<changed, callers, callees, handlers, surfacesOf, queueUp, queueDown,
                  visitedUp, visitedDown, affected, endpoints, surfaces>>
      /\ phase' = "done" /\ changed = {} /\ NoSurface
  BY DEF NothingChanged, CompleteInv, repository, surface
<1>2. queueUp = <<>> /\ queueDown = <<>> /\ visitedUp = {} /\ visitedDown = {} /\ Len(<<>>) = 0
  BY <1>1, EmptySeq DEF NoSurface
<1>3. \A answer : Frontier(answer, <<>>, {})
  BY <1>1, <1>2 DEF Frontier, Sorted, StartsCovered, NextCovered
<1>4. Frontier(callers, queueUp, visitedUp)' /\ Frontier(callees, queueDown, visitedDown)'
  BY <1>1, <1>2, <1>3, FrontierStays
<1>5. ~MayVisit(queueUp, visitedUp)' /\ ~MayVisit(queueDown, visitedDown)'
  BY <1>1, <1>2 DEF MayVisit
<1>6. ResultsKept'
  BY <1>1 DEF CompleteInv, ResultsKept
<1> QED
  BY <1>1, <1>4, <1>5, <1>6 DEF CompleteInv

LEMMA StartTraversalComplete ==
  ASSUME ImpactInv, CompleteInv, StartTraversal PROVE CompleteInv'
<1>1. UNCHANGED <<changed, callers, callees, handlers, surfacesOf,
                  visitedUp, visitedDown, endpoints, surfaces>>
      /\ phase' = "up" /\ affected' = changed /\ NoSurface
  BY DEF StartTraversal, CompleteInv, repository
<1>2. PICK q \in Entries(changed, 0) : queueUp' = q /\ queueDown' = q
  BY DEF StartTraversal
<1>3. changed \in SUBSET Nodes
  BY DEF ImpactInv, ImpactTypeOK
<1>4. visitedUp = {} /\ visitedDown = {} /\ endpoints = {} /\ surfaces = {}
  BY <1>1 DEF NoSurface
<1>5. \A answer : Frontier(answer, q, {})
  BY <1>3, StartFrontier
<1>6. Frontier(callers, queueUp, visitedUp)' /\ Frontier(callees, queueDown, visitedDown)'
  BY <1>1, <1>2, <1>4, <1>5, FrontierStays
<1>7. ResultsKept'
  BY <1>1, <1>4 DEF ResultsKept
<1> QED
  BY <1>1, <1>6, <1>7 DEF CompleteInv

LEMMA SkipUpComplete ==
  ASSUME ImpactInv, CompleteInv, SkipUp PROVE CompleteInv'
<1>1. UNCHANGED <<changed, callers, callees, handlers, surfacesOf, queueDown, phase,
                  visitedUp, visitedDown, affected, endpoints, surfaces>>
      /\ queueUp' = Tail(queueUp) /\ queueUp # <<>> /\ Head(queueUp).node \in visitedUp
      /\ phase = "up"
  BY DEF SkipUp, repository, surface, MayVisit
<1>2. queueUp \in Seq(Entry) /\ Frontier(callers, queueUp, visitedUp)
      /\ Frontier(callees, queueDown, visitedDown)
  BY <1>1 DEF ImpactInv, ImpactTypeOK, CompleteInv
<1>3. Frontier(callers, Tail(queueUp), visitedUp)
  BY <1>1, <1>2, SkipFrontier
<1>4. Frontier(callers, queueUp, visitedUp)' /\ Frontier(callees, queueDown, visitedDown)'
  BY <1>1, <1>2, <1>3, FrontierStays
<1>5. ResultsKept'
  BY <1>1 DEF CompleteInv, ResultsKept
<1> QED
  BY <1>1, <1>4, <1>5 DEF CompleteInv

LEMMA SkipDownComplete ==
  ASSUME ImpactInv, CompleteInv, SkipDown PROVE CompleteInv'
<1>1. UNCHANGED <<changed, callers, callees, handlers, surfacesOf, queueUp, phase,
                  visitedUp, visitedDown, affected, endpoints, surfaces>>
      /\ queueDown' = Tail(queueDown) /\ queueDown # <<>> /\ Head(queueDown).node \in visitedDown
      /\ phase = "down"
  BY DEF SkipDown, repository, surface, MayVisit
<1>2. queueDown \in Seq(Entry) /\ Frontier(callers, queueUp, visitedUp)
      /\ Frontier(callees, queueDown, visitedDown)
  BY <1>1 DEF ImpactInv, ImpactTypeOK, CompleteInv
<1>3. Frontier(callees, Tail(queueDown), visitedDown)
  BY <1>1, <1>2, SkipFrontier
<1>4. Frontier(callers, queueUp, visitedUp)' /\ Frontier(callees, queueDown, visitedDown)'
  BY <1>1, <1>2, <1>3, FrontierStays
<1>5. ResultsKept'
  BY <1>1 DEF CompleteInv, ResultsKept
<1>6. ~MayVisit(queueUp, visitedUp)'
  BY <1>1 DEF CompleteInv, MayVisit
<1> QED
  BY <1>1, <1>4, <1>5, <1>6 DEF CompleteInv

LEMMA VisitUpComplete ==
  ASSUME ImpactInv, CompleteInv, VisitUp PROVE CompleteInv'
<1> DEFINE at == Head(queueUp)
<1>1. UNCHANGED <<changed, callers, callees, handlers, surfacesOf, queueDown, phase,
                  visitedDown, surfaces>>
      /\ queueUp # <<>> /\ phase = "up" /\ at.node \notin visitedUp
  BY DEF VisitUp, repository, MayVisit
<1>2. /\ visitedUp' = visitedUp \union {at.node}
      /\ affected' = affected \union {at.node}
      /\ endpoints' = endpoints \union ({at.node} \intersect handlers)
  BY DEF VisitUp
<1>3. /\ queueUp \in Seq(Entry) /\ callers \in [Nodes -> SUBSET Nodes]
      /\ changed \in SUBSET Nodes
      /\ Frontier(callers, queueUp, visitedUp) /\ Frontier(callees, queueDown, visitedDown)
  BY <1>1 DEF ImpactInv, ImpactTypeOK, CompleteInv
<1>4. Frontier(callers, queueUp', visitedUp')
  <2>1. CASE TooDeep(at)
    <3>1. queueUp' = Tail(queueUp)
      BY <2>1 DEF VisitUp
    <3> QED
      BY <1>1, <1>2, <1>3, <2>1, <3>1, LastVisitFrontier
  <2>2. CASE ~TooDeep(at)
    <3>1. PICK q \in Entries(callers[at.node] \ visitedUp', at.depth + 1) :
                 queueUp' = Enqueued(queueUp, q)
      BY <2>2 DEF VisitUp
    <3> QED
      BY <1>1, <1>2, <1>3, <3>1, NextVisitFrontier
  <2> QED
    BY <2>1, <2>2
<1> HIDE DEF at
<1>5. Frontier(callers, queueUp, visitedUp)' /\ Frontier(callees, queueDown, visitedDown)'
  BY <1>1, <1>3, <1>4, FrontierStays
<1>6. ResultsKept'
  BY <1>1, <1>2 DEF CompleteInv, ResultsKept
<1> QED
  BY <1>1, <1>5, <1>6 DEF CompleteInv

LEMMA VisitDownComplete ==
  ASSUME ImpactInv, CompleteInv, VisitDown PROVE CompleteInv'
<1> DEFINE at == Head(queueDown)
<1>1. UNCHANGED <<changed, callers, callees, handlers, surfacesOf, queueUp, phase,
                  visitedUp, endpoints>>
      /\ queueDown # <<>> /\ phase = "down" /\ at.node \notin visitedDown
  BY DEF VisitDown, repository, MayVisit
<1>2. /\ visitedDown' = visitedDown \union {at.node}
      /\ affected' = affected \union {at.node}
      /\ surfaces' = surfaces \union surfacesOf[at.node]
  BY DEF VisitDown
<1>3. /\ queueDown \in Seq(Entry) /\ callees \in [Nodes -> SUBSET Nodes]
      /\ changed \in SUBSET Nodes
      /\ Frontier(callers, queueUp, visitedUp) /\ Frontier(callees, queueDown, visitedDown)
  BY <1>1 DEF ImpactInv, ImpactTypeOK, CompleteInv
<1>4. Frontier(callees, queueDown', visitedDown')
  <2>1. CASE TooDeep(at)
    <3>1. queueDown' = Tail(queueDown)
      BY <2>1 DEF VisitDown
    <3> QED
      BY <1>1, <1>2, <1>3, <2>1, <3>1, LastVisitFrontier
  <2>2. CASE ~TooDeep(at)
    <3>1. PICK q \in Entries(callees[at.node] \ visitedDown', at.depth + 1) :
                 queueDown' = Enqueued(queueDown, q)
      BY <2>2 DEF VisitDown
    <3> QED
      BY <1>1, <1>2, <1>3, <3>1, NextVisitFrontier
  <2> QED
    BY <2>1, <2>2
<1> HIDE DEF at
<1>5. Frontier(callers, queueUp, visitedUp)' /\ Frontier(callees, queueDown, visitedDown)'
  BY <1>1, <1>3, <1>4, FrontierStays
<1>6. ResultsKept'
  BY <1>1, <1>2 DEF CompleteInv, ResultsKept
<1>7. ~MayVisit(queueUp, visitedUp)'
  BY <1>1 DEF CompleteInv, MayVisit
<1> QED
  BY <1>1, <1>5, <1>6, <1>7 DEF CompleteInv

LEMMA EndsComplete ==
  ASSUME ImpactInv, CompleteInv, EndUp \/ EndDown PROVE CompleteInv'
<1>1. UNCHANGED <<repository, queueUp, queueDown, visitedUp, visitedDown, surface>>
      /\ phase # "idle"
  BY DEF EndUp, EndDown
<1>2. \/ phase' = "down" /\ ~MayVisit(queueUp, visitedUp)
      \/ phase' = "done" /\ phase = "down" /\ ~MayVisit(queueDown, visitedDown)
  BY DEF EndUp, EndDown
<1>3. (~MayVisit(queueUp, visitedUp) => ~MayVisit(queueUp, visitedUp)')
      /\ (~MayVisit(queueDown, visitedDown) => ~MayVisit(queueDown, visitedDown)')
  BY <1>1 DEF MayVisit
<1> QED
  BY <1>1, <1>2, <1>3, FrontiersStay DEF CompleteInv

LEMMA NoStepComplete ==
  ASSUME CompleteInv, UNCHANGED impactVars PROVE CompleteInv'
<1>1. UNCHANGED <<repository, queueUp, queueDown, visitedUp, visitedDown, surface>>
      /\ phase' = phase
  BY DEF impactVars
<1>2. (~MayVisit(queueUp, visitedUp) => ~MayVisit(queueUp, visitedUp)')
      /\ (~MayVisit(queueDown, visitedDown) => ~MayVisit(queueDown, visitedDown)')
  BY <1>1 DEF MayVisit
<1>3. CASE phase = "idle"
  <2>1. NoSurface' /\ ResultsKept'
    BY <1>1, <1>3 DEF CompleteInv, NoSurface, ResultsKept, repository, surface
  <2> QED
    BY <1>1, <1>3, <2>1 DEF CompleteInv
<1>4. CASE phase # "idle"
  BY <1>1, <1>2, <1>4, FrontiersStay DEF CompleteInv
<1> QED
  BY <1>3, <1>4

\* Any step of the traversal.
LEMMA TraversalComplete ==
  ASSUME ImpactInv, CompleteInv, [ImpactNext]_impactVars PROVE CompleteInv'
  BY NothingChangedComplete, StartTraversalComplete, SkipUpComplete, VisitUpComplete,
     EndsComplete, SkipDownComplete, VisitDownComplete, NoStepComplete DEF ImpactNext

LEMMA InitComplete == ASSUME NoSurface PROVE CompleteInv
<1>1. ResultsKept
  BY DEF NoSurface, ResultsKept
<1> QED
  BY <1>1 DEF NoSurface, CompleteInv

\* When both directions are done, what is within the depth was visited.
LEMMA CompleteInvComplete == ASSUME ImpactInv, CompleteInv PROVE ImpactComplete
<1> SUFFICES ASSUME phase = "done"
             PROVE
    /\ BelowLimit(visitedUp) =>
         \A n \in Nodes : Within(callers, n) =>
           n \in affected /\ (n \in handlers => n \in endpoints)
    /\ BelowLimit(visitedDown) =>
         \A n \in Nodes : Within(callees, n) =>
           n \in affected /\ surfacesOf[n] \subseteq surfaces
  BY DEF ImpactComplete
<1>1. /\ Frontier(callers, queueUp, visitedUp) /\ Frontier(callees, queueDown, visitedDown)
      /\ ~MayVisit(queueUp, visitedUp) /\ ~MayVisit(queueDown, visitedDown) /\ ResultsKept
  BY DEF CompleteInv
<1>2. /\ changed \in SUBSET Nodes /\ callers \in [Nodes -> SUBSET Nodes]
      /\ callees \in [Nodes -> SUBSET Nodes]
  BY DEF ImpactInv, ImpactTypeOK
<1>3. ASSUME BelowLimit(visitedUp), NEW n \in Nodes, Within(callers, n)
      PROVE  n \in affected /\ (n \in handlers => n \in endpoints)
  <2>1. queueUp = <<>>
    BY <1>1, <1>3 DEF MayVisit
  <2>2. n \in visitedUp
    BY <1>1, <1>2, <1>3, <2>1, NothingMissed
  <2> QED
    BY <1>1, <2>2 DEF ResultsKept
<1>4. ASSUME BelowLimit(visitedDown), NEW n \in Nodes, Within(callees, n)
      PROVE  n \in affected /\ surfacesOf[n] \subseteq surfaces
  <2>1. queueDown = <<>>
    BY <1>1, <1>4 DEF MayVisit
  <2>2. n \in visitedDown
    BY <1>1, <1>2, <1>4, <2>1, NothingMissed
  <2> QED
    BY <1>1, <2>2 DEF ResultsKept
<1> QED
  BY <1>3, <1>4

\* The traversal of calculate_impact misses nothing within MaxDepth steps of a changed
\* symbol unless it met the limit on visited nodes, for every graph, every order of the
\* answers and every value of the limits.
THEOREM ImpactCompleteAlways == ImpactSpec => []ImpactComplete
<1>1. ImpactTypeOK /\ NoSurface => CompleteInv
  BY InitComplete
<1>2. ImpactInv /\ CompleteInv /\ [ImpactNext]_impactVars => CompleteInv'
  BY TraversalComplete
<1>3. ImpactInv /\ CompleteInv => ImpactComplete
  BY CompleteInvComplete
<1> QED
  BY <1>1, <1>2, <1>3, ImpactInvariant, PTL DEF ImpactSpec

-----------------------------------------------------------------------------
(* The analysis.                                                           *)

\* files compared so far
Compared == Diff \ pending

\* what a file has in the two views
Was(f) == InFile(base.rows, f)
AddedIn(f) == DOMAIN HeadRows(f) \ DOMAIN Was(f)
RemovedIn(f) == DOMAIN Was(f) \ DOMAIN HeadRows(f)
ModifiedIn(f) == {s \in DOMAIN Was(f) \intersect DOMAIN HeadRows(f) : Differ(Was(f)[s], HeadRows(f)[s])}
ChangedHere(f) == AddedIn(f) \union RemovedIn(f) \union ModifiedIn(f)

\* what became of a number in a file
Became(s, kind, f) ==
  \/ kind = "added" /\ s \in AddedIn(f)
  \/ kind = "removed" /\ s \in RemovedIn(f)
  \/ kind = "modified" /\ s \in ModifiedIn(f)

\* the calls a file gains and loses
Gains(f) ==
  (UNION {Edges(s, HeadCallees(s)) : s \in AddedIn(f)}) \union (UNION {NewCalls(s) : s \in ModifiedIn(f)})
Loses(f) ==
  (UNION {Edges(s, BaseCallees(s)) : s \in RemovedIn(f)}) \union (UNION {LostCalls(s) : s \in ModifiedIn(f)})

\* its contract changes
Breaks(f) ==
  (UNION {Whole(s, HeadRows(f)[s], "added") : s \in AddedIn(f)})
  \union (UNION {Whole(s, Was(f)[s], "removed") : s \in RemovedIn(f)})
  \union (UNION {Parts(s, Was(f)[s], HeadRows(f)[s]) : s \in ModifiedIn(f)})

\* what is reported of a file
Reports(f) ==
  (AddedIn(f) \X {"added"} \X {f}) \union (RemovedIn(f) \X {"removed"} \X {f})
  \union (ModifiedIn(f) \X {"modified"} \X {f})

SymbolsCompared == facts.symbols = UNION {Reports(f) : f \in Compared}
GainsCompared == facts.addedCalls = UNION {Gains(f) : f \in Compared}
LossesCompared == facts.removedCalls = UNION {Loses(f) : f \in Compared}
ContractsCompared == facts.contracts = UNION {Breaks(f) : f \in Compared}

Contracts ==
  {c \in Numbers \X {"body", "visibility", "api", "surface"} \X Kinds
            \X (Routes \union Targets \union {None}) :
     c[2] = "api" => c[4] \in Routes}

ChangeInv ==
  /\ base \in Bases(Row) /\ head \in Overlays(Row)
  /\ pending \subseteq Diff
  /\ SymbolsCompared /\ GainsCompared /\ LossesCompared /\ ContractsCompared

AnalysisInv ==
  /\ ChangeInv
  /\ ImpactInv /\ CompleteInv
  /\ stage = "change" => NoSurface

-----------------------------------------------------------------------------
(* What the queries answer.                                                *)

\* The parts of a base and of an overlay.
LEMMA VersionsTyped ==
  ASSUME NEW b \in Bases(Row), NEW h \in Overlays(Row)
  PROVE  /\ b.rows \in [Numbers -> Row \union {None}]
         /\ h.rows \in [Numbers -> Row \union {None}]
         /\ h.twin \in [Files -> Files \union {None}]
         /\ DOMAIN h.change \subseteq Files /\ \A f \in DOMAIN h.change : h.change[f] \in Changes
<1>1. b.rows \in [Numbers -> Row \union {None}] /\ h.rows \in [Numbers -> Row \union {None}]
  BY DEF Bases, Overlays, Numbered
<1>2. h.twin \in [Files -> Files \union {None}]
  BY DEF Overlays
<1>3. PICK F \in SUBSET Files : h.change \in [F -> Changes]
  BY DEF Overlays
<1> QED
  BY <1>1, <1>2, <1>3

LEMMA RowTyped ==
  ASSUME NEW row \in Row
  PROVE  /\ row.calls \subseteq Numbers /\ row.api \subseteq Routes /\ row.surfaces \subseteq Targets
         /\ row.name \in Names /\ row.file \in Files /\ row # None
<1>1. None \notin Row
  BY AnalysisAssumption
<1> QED
  BY <1>1 DEF Row, Rows

\* The view of the base has an overlay as well, an empty one.
LEMMA NoOverlayTyped == NoOverlay \in Overlays(Row)
<1>1. <<>> \in [{} -> Changes]
  OBVIOUS
<1>2. <<>> \in UNION {[F -> Changes] : F \in SUBSET Files}
  BY <1>1
<1> QED
  BY <1>2 DEF NoOverlay, Overlays, Numbered, Placeholders

\* A placeholder resolves to a number.
LEMMA ResolvedTyped ==
  ASSUME NEW b, NEW h, NEW x \in Numbers PROVE Resolved(b, h, x) \in Numbers
  BY DEF Resolved, Named

\* Callees and callers are numbers.
LEMMA AnswersAreNumbers ==
  ASSUME NEW b \in Bases(Row), NEW h \in Overlays(Row), NEW x \in Numbers
  PROVE  Callees(b, h, x) \subseteq Numbers /\ Callers(b, h, x) \subseteq Numbers
<1>1. b.rows[x] \in Row \union {None} /\ h.rows[x] \in Row \union {None}
  BY VersionsTyped
<1>2. Callees(b, h, x) \subseteq Numbers
  <2>1. CASE Shown(b, h, x) = None
    BY <2>1 DEF Callees
  <2>2. CASE Shown(b, h, x) # None /\ h.rows[x] # None
    BY <2>2, <1>1, RowTyped DEF Callees
  <2>3. CASE Shown(b, h, x) # None /\ h.rows[x] = None
    <3>1. b.rows[x] # None
      BY <2>3 DEF Shown
    <3>2. b.rows[x].calls \subseteq Numbers
      BY <3>1, <1>1, RowTyped
    <3>3. Callees(b, h, x) \subseteq {Resolved(b, h, c) : c \in b.rows[x].calls}
      BY <2>3 DEF Callees
    <3> QED
      BY <3>2, <3>3, ResolvedTyped
  <2> QED
    BY <2>1, <2>2, <2>3
<1>3. Callers(b, h, x) \subseteq Numbers
  BY DEF Callers
<1> QED
  BY <1>2, <1>3

-----------------------------------------------------------------------------
(* The change compiler.                                                    *)

LEMMA InitChange ==
  ASSUME base \in Bases(Row), head \in Overlays(Row), ChangeInit
  PROVE  ChangeInv
<1>1. Compared = {}
  BY DEF Compared, ChangeInit
<1>2. SymbolsCompared /\ GainsCompared /\ LossesCompared /\ ContractsCompared
  BY <1>1 DEF SymbolsCompared, GainsCompared, LossesCompared, ContractsCompared,
              ChangeInit, NoFacts
<1> QED
  BY <1>2 DEF ChangeInv, ChangeInit

\* The files and what is in them depend on the versions only.
LEMMA FilesStay ==
  ASSUME UNCHANGED <<base, head>>
  PROVE  /\ Diff' = Diff
         /\ \A f : /\ Reports(f)' = Reports(f) /\ Gains(f)' = Gains(f)
                   /\ Loses(f)' = Loses(f) /\ Breaks(f)' = Breaks(f)
<1>1. Diff' = Diff /\ Replaced' = Replaced
  BY DEF Diff, Replaced
<1>2. \A f : HeadRows(f)' = HeadRows(f) /\ Was(f)' = Was(f)
  BY <1>1 DEF HeadRows, Was
<1>3. \A f : /\ AddedIn(f)' = AddedIn(f) /\ RemovedIn(f)' = RemovedIn(f)
             /\ ModifiedIn(f)' = ModifiedIn(f)
  BY <1>2 DEF AddedIn, RemovedIn, ModifiedIn
<1>4. \A s : HeadCallees(s)' = HeadCallees(s) /\ BaseCallees(s)' = BaseCallees(s)
  BY DEF HeadCallees, BaseCallees
<1>5. \A s : NewCalls(s)' = NewCalls(s) /\ LostCalls(s)' = LostCalls(s)
  BY <1>4 DEF NewCalls, LostCalls
<1> QED
  BY <1>1, <1>2, <1>3, <1>4, <1>5 DEF Reports, Gains, Loses, Breaks

\* Comparing a file adds what is reported of it to the facts.
LEMMA CompareAdds ==
  ASSUME NEW f \in pending, CompareFile(f)
  PROVE  /\ pending' = pending \ {f} /\ UNCHANGED <<base, head>>
         /\ facts'.symbols = facts.symbols \union Reports(f)
         /\ facts'.addedCalls = facts.addedCalls \union Gains(f)
         /\ facts'.removedCalls = facts.removedCalls \union Loses(f)
         /\ facts'.contracts = facts.contracts \union Breaks(f)
<1> DEFINE b == InFile(base.rows, f)
           h == HeadRows(f)
           added == DOMAIN h \ DOMAIN b
           removed == DOMAIN b \ DOMAIN h
           modified == {s \in DOMAIN b \intersect DOMAIN h : Differ(b[s], h[s])}
<1>1. /\ pending' = pending \ {f} /\ UNCHANGED <<base, head>>
      /\ facts'.symbols = facts.symbols
           \union (added \X {"added"} \X {f}) \union (removed \X {"removed"} \X {f})
           \union (modified \X {"modified"} \X {f})
      /\ facts'.addedCalls = facts.addedCalls
           \union (UNION {Edges(s, HeadCallees(s)) : s \in added})
           \union (UNION {NewCalls(s) : s \in modified})
      /\ facts'.removedCalls = facts.removedCalls
           \union (UNION {Edges(s, BaseCallees(s)) : s \in removed})
           \union (UNION {LostCalls(s) : s \in modified})
      /\ facts'.contracts = facts.contracts
           \union (UNION {Whole(s, h[s], "added") : s \in added})
           \union (UNION {Whole(s, b[s], "removed") : s \in removed})
           \union (UNION {Parts(s, b[s], h[s]) : s \in modified})
  BY DEF CompareFile
<1>2. b = Was(f) /\ h = HeadRows(f)
  BY DEF Was
<1>3. added = AddedIn(f) /\ removed = RemovedIn(f) /\ modified = ModifiedIn(f)
  BY <1>2 DEF AddedIn, RemovedIn, ModifiedIn
<1> HIDE DEF b, h, added, removed, modified
<1> QED
  BY <1>1, <1>2, <1>3 DEF Reports, Gains, Loses, Breaks

LEMMA CompareKeeps ==
  ASSUME ChangeInv, NEW f \in pending, CompareFile(f)
  PROVE  ChangeInv'
<1>1. /\ pending' = pending \ {f} /\ UNCHANGED <<base, head>>
      /\ facts'.symbols = facts.symbols \union Reports(f)
      /\ facts'.addedCalls = facts.addedCalls \union Gains(f)
      /\ facts'.removedCalls = facts.removedCalls \union Loses(f)
      /\ facts'.contracts = facts.contracts \union Breaks(f)
  BY CompareAdds
<1>2. /\ Diff' = Diff
      /\ \A g : /\ Reports(g)' = Reports(g) /\ Gains(g)' = Gains(g)
                /\ Loses(g)' = Loses(g) /\ Breaks(g)' = Breaks(g)
  BY <1>1, FilesStay
<1>3. Compared' = Compared \union {f}
  BY <1>1, <1>2 DEF Compared, ChangeInv
<1>4. SymbolsCompared'
  BY <1>1, <1>2, <1>3 DEF SymbolsCompared, ChangeInv
<1>5. GainsCompared'
  BY <1>1, <1>2, <1>3 DEF GainsCompared, ChangeInv
<1>6. LossesCompared'
  BY <1>1, <1>2, <1>3 DEF LossesCompared, ChangeInv
<1>7. ContractsCompared'
  BY <1>1, <1>2, <1>3 DEF ContractsCompared, ChangeInv
<1>8. base' \in Bases(Row) /\ head' \in Overlays(Row) /\ pending' \subseteq Diff'
  BY <1>1, <1>2 DEF ChangeInv
<1> QED
  BY <1>4, <1>5, <1>6, <1>7, <1>8 DEF ChangeInv

\* What is in a file in either view.
LEMMA FileTyped ==
  ASSUME base \in Bases(Row), head \in Overlays(Row), NEW f \in Diff
  PROVE  /\ DOMAIN Was(f) \subseteq Numbers /\ DOMAIN HeadRows(f) \subseteq Numbers
         /\ \A s \in DOMAIN Was(f) : Was(f)[s] \in Row
         /\ \A s \in DOMAIN HeadRows(f) : HeadRows(f)[s] \in Row
<1>1. /\ \A s \in Numbers : base.rows[s] \in Row \union {None} /\ head.rows[s] \in Row \union {None}
      /\ head.change[f] \in Changes
  BY VersionsTyped DEF Diff
<1>2. \A g : /\ DOMAIN InFile(base.rows, g) \subseteq Numbers
             /\ \A s \in DOMAIN InFile(base.rows, g) :
                  InFile(base.rows, g)[s] = base.rows[s] /\ base.rows[s] \in Row
  BY <1>1 DEF InFile
<1>3. \A g : /\ DOMAIN InFile(head.rows, g) \subseteq Numbers
             /\ \A s \in DOMAIN InFile(head.rows, g) :
                  InFile(head.rows, g)[s] = head.rows[s] /\ head.rows[s] \in Row
  BY <1>1 DEF InFile
<1> DEFINE kept == [s \in DOMAIN InFile(base.rows, f) \ Replaced |-> base.rows[s]]
<1>4. \/ HeadRows(f) = InFile(head.rows, f) \/ HeadRows(f) = <<>>
      \/ HeadRows(f) = InFile(head.rows, head.twin[f])
      \/ HeadRows(f) = kept
  BY <1>1 DEF HeadRows, Changes
<1>5. DOMAIN kept \subseteq Numbers /\ \A s \in DOMAIN kept : kept[s] \in Row
  BY <1>2
<1>6. DOMAIN <<>> = {}
  OBVIOUS
<1>7. DOMAIN HeadRows(f) \subseteq Numbers /\ \A s \in DOMAIN HeadRows(f) : HeadRows(f)[s] \in Row
  <2> HIDE DEF kept
  <2> QED
    BY <1>3, <1>4, <1>5, <1>6
<1> QED
  BY <1>2, <1>7 DEF Was

\* The contract changes of a row.
LEMMA ContractsOfRow ==
  ASSUME NEW s \in Numbers, NEW row \in Row, NEW kind \in Kinds
  PROVE  Whole(s, row, kind) \subseteq Contracts
<1>1. row.api \subseteq Routes /\ row.surfaces \subseteq Targets
  BY RowTyped
<1>2. {s} \X {"api"} \X {kind} \X row.api \subseteq Contracts
  BY <1>1 DEF Contracts
<1>3. {s} \X {"surface"} \X {kind} \X row.surfaces \subseteq Contracts
  BY <1>1 DEF Contracts
<1> QED
  BY <1>2, <1>3 DEF Whole

\* The contract changes between two rows.
LEMMA ContractsOfParts ==
  ASSUME NEW s \in Numbers, NEW b \in Row, NEW h \in Row
  PROVE  Parts(s, b, h) \subseteq Contracts
<1>1. Lost(b, h) \subseteq Routes /\ Lost(h, b) \subseteq Routes
  BY RowTyped DEF Lost
<1>2. {s} \X {"api"} \X {"added"} \X Lost(h, b) \subseteq Contracts
  BY <1>1 DEF Contracts, Kinds
<1>3. {s} \X {"api"} \X {"removed"} \X Lost(b, h) \subseteq Contracts
  BY <1>1 DEF Contracts, Kinds
<1>4. <<s, "body", "modified", None>> \in Contracts
      /\ <<s, "visibility", "modified", None>> \in Contracts
  BY DEF Contracts, Kinds
<1> QED
  BY <1>2, <1>3, <1>4 DEF Parts

\* A contract change is one of the symbol it is listed for.
LEMMA PartsAreOfSymbol ==
  ASSUME NEW s
  PROVE  /\ \A b, h : \A c \in Parts(s, b, h) : c[1] = s
         /\ \A row, kind : \A c \in Whole(s, row, kind) : c[1] = s
<1>1. ASSUME NEW b, NEW h, NEW c \in Parts(s, b, h) PROVE c[1] = s
  BY <1>1 DEF Parts
<1>2. ASSUME NEW row, NEW kind, NEW c \in Whole(s, row, kind) PROVE c[1] = s
  BY <1>2 DEF Whole
<1> QED
  BY <1>1, <1>2

\* What is reported of a file is of its type.
LEMMA FileReports ==
  ASSUME base \in Bases(Row), head \in Overlays(Row), NEW f \in Diff
  PROVE  /\ ChangedHere(f) \subseteq Numbers
         /\ Reports(f) \subseteq Numbers \X Kinds \X Diff
         /\ Gains(f) \subseteq Numbers \X Numbers
         /\ Loses(f) \subseteq Numbers \X Numbers
         /\ Breaks(f) \subseteq Contracts
<1>1. /\ DOMAIN Was(f) \subseteq Numbers /\ DOMAIN HeadRows(f) \subseteq Numbers
      /\ \A s \in DOMAIN Was(f) : Was(f)[s] \in Row
      /\ \A s \in DOMAIN HeadRows(f) : HeadRows(f)[s] \in Row
  BY FileTyped
<1>2. AddedIn(f) \subseteq Numbers /\ RemovedIn(f) \subseteq Numbers /\ ModifiedIn(f) \subseteq Numbers
  BY <1>1 DEF AddedIn, RemovedIn, ModifiedIn
<1>3. \A s \in Numbers : BaseCallees(s) \subseteq Numbers /\ HeadCallees(s) \subseteq Numbers
  BY AnswersAreNumbers, NoOverlayTyped DEF BaseCallees, HeadCallees
<1>4. Reports(f) \subseteq Numbers \X Kinds \X Diff
  BY <1>2 DEF Reports, Kinds
<1>5. Gains(f) \subseteq Numbers \X Numbers
  BY <1>2, <1>3 DEF Gains, Edges, NewCalls
<1>6. Loses(f) \subseteq Numbers \X Numbers
  BY <1>2, <1>3 DEF Loses, Edges, LostCalls
<1>7. \A s \in AddedIn(f) : Whole(s, HeadRows(f)[s], "added") \subseteq Contracts
  <2> SUFFICES ASSUME NEW s \in AddedIn(f) PROVE Whole(s, HeadRows(f)[s], "added") \subseteq Contracts
    OBVIOUS
  <2>1. s \in Numbers /\ HeadRows(f)[s] \in Row /\ "added" \in Kinds
    BY <1>1, <1>2 DEF AddedIn, Kinds
  <2> QED
    BY <2>1, ContractsOfRow
<1>8. \A s \in RemovedIn(f) : Whole(s, Was(f)[s], "removed") \subseteq Contracts
  <2> SUFFICES ASSUME NEW s \in RemovedIn(f) PROVE Whole(s, Was(f)[s], "removed") \subseteq Contracts
    OBVIOUS
  <2>1. s \in Numbers /\ Was(f)[s] \in Row /\ "removed" \in Kinds
    BY <1>1, <1>2 DEF RemovedIn, Kinds
  <2> QED
    BY <2>1, ContractsOfRow
<1>9. \A s \in ModifiedIn(f) : Parts(s, Was(f)[s], HeadRows(f)[s]) \subseteq Contracts
  <2> SUFFICES ASSUME NEW s \in ModifiedIn(f)
               PROVE  Parts(s, Was(f)[s], HeadRows(f)[s]) \subseteq Contracts
    OBVIOUS
  <2>1. s \in Numbers /\ Was(f)[s] \in Row /\ HeadRows(f)[s] \in Row
    BY <1>1, <1>2 DEF ModifiedIn
  <2> QED
    BY <2>1, ContractsOfParts
<1>10. Breaks(f) \subseteq Contracts
  BY <1>7, <1>8, <1>9 DEF Breaks
<1> QED
  BY <1>2, <1>4, <1>5, <1>6, <1>10 DEF ChangedHere

\* The facts are of their types.
LEMMA FactsTyped ==
  ASSUME ChangeInv
  PROVE  /\ facts.symbols \subseteq Numbers \X Kinds \X Diff
         /\ ChangedIds \subseteq Numbers
         /\ facts.contracts \subseteq Contracts
<1>1. \A f \in Compared : f \in Diff
  BY DEF Compared
<1>2. facts.symbols \subseteq Numbers \X Kinds \X Diff
  BY <1>1, FileReports DEF ChangeInv, SymbolsCompared
<1>3. ChangedIds \subseteq Numbers
  BY <1>2 DEF ChangedIds
<1>4. facts.contracts \subseteq Contracts
  BY <1>1, FileReports DEF ChangeInv, ContractsCompared
<1> QED
  BY <1>2, <1>3, <1>4

LEMMA ChangeTyped == ASSUME ChangeInv PROVE ChangeTypeOK
<1>1. \A f \in Compared : f \in Diff
  BY DEF Compared
<1>2. facts.addedCalls \in SUBSET (Numbers \X Numbers)
  BY <1>1, FileReports DEF ChangeInv, GainsCompared
<1>3. facts.removedCalls \in SUBSET (Numbers \X Numbers)
  BY <1>1, FileReports DEF ChangeInv, LossesCompared
<1>4. facts.contracts \in
       SUBSET (Numbers \X {"body", "visibility", "api", "surface"} \X Kinds
               \X (Routes \union Targets \union {None}))
  BY FactsTyped DEF Contracts
<1> QED
  BY <1>2, <1>3, <1>4, FactsTyped DEF ChangeTypeOK, ChangeInv

\* What is reported of a file and its edges names symbols that changed in it.
LEMMA ReportsName ==
  ASSUME NEW f, NEW s
  PROVE  /\ \A kind : <<s, kind, f>> \in Reports(f) <=> Became(s, kind, f)
         /\ s \in ChangedHere(f) <=> \E c \in Reports(f) : c[1] = s
<1>1. \A kind : <<s, kind, f>> \in Reports(f) <=> Became(s, kind, f)
  BY DEF Reports, Became
<1>2. ASSUME s \in ChangedHere(f) PROVE \E c \in Reports(f) : c[1] = s
  <2>1. PICK kind \in Kinds : Became(s, kind, f)
    BY <1>2 DEF ChangedHere, Became, Kinds
  <2>2. <<s, kind, f>> \in Reports(f) /\ <<s, kind, f>>[1] = s
    BY <1>1, <2>1
  <2> QED
    BY <2>2
<1>3. ASSUME NEW c \in Reports(f), c[1] = s PROVE s \in ChangedHere(f)
  BY <1>3 DEF Reports, ChangedHere
<1> QED
  BY <1>1, <1>2, <1>3

\* Once every file is compared, the changed numbers are those of the files.
LEMMA ChangedInFiles ==
  ASSUME ChangeInv, pending = {}
  PROVE  \A s : s \in ChangedIds <=> \E f \in Diff : s \in ChangedHere(f)
<1>1. facts.symbols = UNION {Reports(f) : f \in Diff}
  BY DEF ChangeInv, SymbolsCompared, Compared
<1> QED
  BY <1>1, ReportsName DEF ChangedIds

\* A file that the numbers of the overlay hide from the base has in the view of the
\* head what it has in the head.
LEMMA HeadOfFile ==
  ASSUME base \in Bases(Row), head \in Overlays(Row), FilesAgree, NEW f \in Diff
  PROVE  DOMAIN HeadRows(f) = DOMAIN InFile(head.rows, f)
<1>1. CASE head.change[f] # "deleted"
  BY <1>1 DEF HeadRows
<1>2. CASE head.change[f] = "deleted"
  <2>1. Hidden(head, f)
    BY <1>2 DEF FilesAgree
  <2>2. HeadRows(f) = <<>>
    BY <1>2, <2>1 DEF HeadRows
  <2>3. DOMAIN InFile(head.rows, f) = {}
    BY <1>2 DEF FilesAgree, InFile
  <2> QED
    BY <2>2, <2>3
<1> QED
  BY <1>1, <1>2

\* where a number has a row
InBase(s, f) == s \in Numbers /\ base.rows[s] # None /\ base.rows[s].file = f
InHead(s, f) == s \in Numbers /\ head.rows[s] # None /\ head.rows[s].file = f

LEMMA PlaceInFile ==
  ASSUME base \in Bases(Row), head \in Overlays(Row), FilesAgree, NEW f \in Diff, NEW s
  PROVE  /\ s \in AddedIn(f) <=> InHead(s, f) /\ ~InBase(s, f)
         /\ s \in RemovedIn(f) <=> InBase(s, f) /\ ~InHead(s, f)
         /\ s \in ModifiedIn(f) => InBase(s, f) /\ InHead(s, f)
<1>1. s \in DOMAIN Was(f) <=> InBase(s, f)
  BY DEF Was, InFile, InBase
<1>2. s \in DOMAIN HeadRows(f) <=> InHead(s, f)
  BY HeadOfFile DEF InFile, InHead
<1> QED
  BY <1>1, <1>2 DEF AddedIn, RemovedIn, ModifiedIn

\* The edges of a number are those of the files it changed in.
LEMMA EdgesOfNumber ==
  ASSUME ChangeInv, pending = {}, NEW s, NEW n
  PROVE  /\ <<s, n>> \in facts.addedCalls <=>
              \E f \in Diff : \/ s \in AddedIn(f) /\ n \in HeadCallees(s)
                              \/ s \in ModifiedIn(f) /\ n \in HeadCallees(s) \ BaseCallees(s)
         /\ <<s, n>> \in facts.removedCalls <=>
              \E f \in Diff : \/ s \in RemovedIn(f) /\ n \in BaseCallees(s)
                              \/ s \in ModifiedIn(f) /\ n \in BaseCallees(s) \ HeadCallees(s)
<1>1. Compared = Diff
  BY DEF Compared
<1>2. \A f : <<s, n>> \in Gains(f) <=>
        \/ s \in AddedIn(f) /\ n \in HeadCallees(s)
        \/ s \in ModifiedIn(f) /\ n \in HeadCallees(s) \ BaseCallees(s)
  BY DEF Gains, Edges, NewCalls
<1>3. \A f : <<s, n>> \in Loses(f) <=>
        \/ s \in RemovedIn(f) /\ n \in BaseCallees(s)
        \/ s \in ModifiedIn(f) /\ n \in BaseCallees(s) \ HeadCallees(s)
  BY DEF Loses, Edges, LostCalls
<1> QED
  BY <1>1, <1>2, <1>3 DEF ChangeInv, GainsCompared, LossesCompared

\* The head answers nothing of a number that only a file of the diff has.
LEMMA GoneHasNone ==
  ASSUME NEW s \in Numbers, NEW f \in Diff, FilesAgree, InBase(s, f), head.rows[s] = None
  PROVE  HeadCallees(s) = {}
<1>1. s \in DOMAIN InFile(base.rows, f)
  BY DEF InBase, InFile
<1>2. Hidden(head, f)
  BY <1>1 DEF FilesAgree
<1>3. Skipped(base, head, s)
  BY <1>2 DEF Skipped, InBase
<1>4. Shown(base, head, s) = None
  BY <1>3 DEF Shown
<1> QED
  BY <1>4 DEF HeadCallees, Callees

\* Removed and added calls lead from what the base answers to what the head does.
LEMMA CallsPatched ==
  ASSUME ChangeInv, FilesAgree, pending = {}, NEW s \in ChangedIds, NEW n
  PROVE  LET was == IF base.rows[s] # None /\ base.rows[s].file \in Diff THEN BaseCallees(s) ELSE {} IN
         n \in HeadCallees(s) <=>
           \/ n \in was /\ <<s, n>> \notin facts.removedCalls
           \/ <<s, n>> \in facts.addedCalls
<1> DEFINE was == IF base.rows[s] # None /\ base.rows[s].file \in Diff THEN BaseCallees(s) ELSE {}
<1>1. PICK f \in Diff : s \in ChangedHere(f)
  BY ChangedInFiles
<1>2. s \in Numbers /\ base \in Bases(Row) /\ head \in Overlays(Row)
  BY FactsTyped DEF ChangeInv
<1>3. head.rows[s] # None => head.rows[s].file \in Diff /\ InHead(s, head.rows[s].file)
  BY <1>2 DEF FilesAgree, InHead
<1>4. \A g \in Diff : /\ s \in AddedIn(g) <=> InHead(s, g) /\ ~InBase(s, g)
                      /\ s \in RemovedIn(g) <=> InBase(s, g) /\ ~InHead(s, g)
                      /\ s \in ModifiedIn(g) => InBase(s, g) /\ InHead(s, g)
  BY <1>2, PlaceInFile
<1>5. \A g, k : /\ InHead(s, g) /\ InHead(s, k) => g = k
                /\ InBase(s, g) /\ InBase(s, k) => g = k
  BY DEF InHead, InBase
<1>6. /\ <<s, n>> \in facts.addedCalls <=>
           \E g \in Diff : \/ s \in AddedIn(g) /\ n \in HeadCallees(s)
                           \/ s \in ModifiedIn(g) /\ n \in HeadCallees(s) \ BaseCallees(s)
      /\ <<s, n>> \in facts.removedCalls <=>
           \E g \in Diff : \/ s \in RemovedIn(g) /\ n \in BaseCallees(s)
                           \/ s \in ModifiedIn(g) /\ n \in BaseCallees(s) \ HeadCallees(s)
  BY EdgesOfNumber
<1>7. s \in AddedIn(f) \/ s \in RemovedIn(f) \/ s \in ModifiedIn(f)
  BY <1>1 DEF ChangedHere
<1>8. CASE s \in ModifiedIn(f)
  <2>1. InBase(s, f) /\ InHead(s, f)
    BY <1>4, <1>8
  <2>2. was = BaseCallees(s)
    BY <2>1 DEF InBase
  <2>3. \A g \in Diff : s \notin AddedIn(g) /\ s \notin RemovedIn(g)
    BY <1>4, <1>5, <2>1
  <2>4. <<s, n>> \in facts.addedCalls <=> n \in HeadCallees(s) \ BaseCallees(s)
    BY <1>6, <1>8, <2>3
  <2>5. <<s, n>> \in facts.removedCalls <=> n \in BaseCallees(s) \ HeadCallees(s)
    BY <1>6, <1>8, <2>3
  <2> QED
    BY <2>2, <2>4, <2>5
<1>9. CASE s \in AddedIn(f)
  <2>1. InHead(s, f) /\ ~InBase(s, f)
    BY <1>4, <1>9
  <2>2. <<s, n>> \in facts.addedCalls <=> n \in HeadCallees(s)
    BY <1>6, <1>9
  <2>3. CASE was = {}
    BY <2>2, <2>3
  <2>4. CASE was # {}
    <3>1. base.rows[s] # None /\ base.rows[s].file \in Diff /\ was = BaseCallees(s)
      BY <2>4
    <3>2. InBase(s, base.rows[s].file) /\ ~InHead(s, base.rows[s].file)
      BY <1>2, <1>5, <2>1, <3>1 DEF InBase
    <3>3. s \in RemovedIn(base.rows[s].file)
      BY <1>4, <3>1, <3>2
    <3>4. n \in was => <<s, n>> \in facts.removedCalls
      BY <1>6, <3>1, <3>3
    <3> QED
      BY <2>2, <3>4
  <2> QED
    BY <2>3, <2>4
<1>10. CASE s \in RemovedIn(f)
  <2>1. InBase(s, f) /\ ~InHead(s, f)
    BY <1>4, <1>10
  <2>2. was = BaseCallees(s)
    BY <2>1 DEF InBase
  <2>3. n \in was => <<s, n>> \in facts.removedCalls
    BY <1>6, <1>10, <2>2
  <2>4. CASE head.rows[s] # None
    <3>1. head.rows[s].file \in Diff /\ InHead(s, head.rows[s].file) /\ ~InBase(s, head.rows[s].file)
      BY <1>3, <1>5, <2>1, <2>4
    <3>2. s \in AddedIn(head.rows[s].file)
      BY <1>4, <3>1
    <3>3. \A g \in Diff : s \notin ModifiedIn(g)
      BY <1>4, <1>5, <3>1
    <3>4. <<s, n>> \in facts.addedCalls <=> n \in HeadCallees(s)
      BY <1>6, <3>1, <3>2, <3>3
    <3> QED
      BY <2>3, <3>4
  <2>5. CASE head.rows[s] = None
    <3>1. HeadCallees(s) = {}
      BY <1>2, <2>1, <2>5, GoneHasNone
    <3>2. <<s, n>> \notin facts.addedCalls
      BY <1>6, <3>1
    <3> QED
      BY <2>3, <3>1, <3>2
  <2> QED
    BY <2>4, <2>5
<1> QED
  BY <1>7, <1>8, <1>9, <1>10

\* Once every file is compared, the facts patch the base into the head.
LEMMA ComparedPatches == ASSUME ChangeInv PROVE ChangePatches
<1> DEFINE of(kind, f) == {s \in Numbers : <<s, kind, f>> \in facts.symbols}
           to(edges, s) == {n \in Numbers : <<s, n>> \in edges}
           was(s) == IF base.rows[s] # None /\ base.rows[s].file \in Diff THEN BaseCallees(s) ELSE {}
<1> SUFFICES ASSUME pending = {}, FilesAgree
             PROVE
    /\ \A f \in Diff :
         (DOMAIN InFile(base.rows, f) \ of("removed", f)) \union of("added", f)
           = DOMAIN InFile(head.rows, f)
    /\ \A s \in ChangedIds :
         (was(s) \ to(facts.removedCalls, s)) \union to(facts.addedCalls, s) = HeadCallees(s)
    /\ \A e \in facts.addedCalls \union facts.removedCalls : e[1] \in ChangedIds
    /\ \A c \in facts.contracts : c[1] \in ChangedIds
  BY DEF ChangePatches
<1>1. base \in Bases(Row) /\ head \in Overlays(Row) /\ Compared = Diff
  BY DEF ChangeInv, Compared
<1>2. ASSUME NEW f \in Diff
      PROVE  (DOMAIN InFile(base.rows, f) \ of("removed", f)) \union of("added", f)
               = DOMAIN InFile(head.rows, f)
  <2>1. \A s, kind : <<s, kind, f>> \in facts.symbols <=> Became(s, kind, f)
    <3>1. \A s, kind, g : <<s, kind, f>> \in Reports(g) => g = f
      BY DEF Reports
    <3> QED
      BY <3>1, <1>1, ReportsName DEF ChangeInv, SymbolsCompared
  <2>2. \A s : /\ s \in AddedIn(f) <=> InHead(s, f) /\ ~InBase(s, f)
               /\ s \in RemovedIn(f) <=> InBase(s, f) /\ ~InHead(s, f)
    BY <1>1, PlaceInFile
  <2>3. \A s : /\ s \in DOMAIN InFile(base.rows, f) <=> InBase(s, f)
               /\ s \in DOMAIN InFile(head.rows, f) <=> InHead(s, f)
    BY DEF InFile, InBase, InHead
  <2>4. \A s : /\ s \in of("added", f) <=> InHead(s, f) /\ ~InBase(s, f)
               /\ s \in of("removed", f) <=> InBase(s, f) /\ ~InHead(s, f)
    BY <2>1, <2>2 DEF Became, InBase, InHead
  <2> QED
    BY <2>3, <2>4
<1>3. ASSUME NEW s \in ChangedIds
      PROVE  (was(s) \ to(facts.removedCalls, s)) \union to(facts.addedCalls, s) = HeadCallees(s)
  <2>1. BaseCallees(s) \subseteq Numbers /\ HeadCallees(s) \subseteq Numbers
    BY <1>1, FactsTyped, AnswersAreNumbers, NoOverlayTyped DEF BaseCallees, HeadCallees
  <2>2. \A n : n \in HeadCallees(s) <=>
           \/ n \in was(s) /\ <<s, n>> \notin facts.removedCalls
           \/ <<s, n>> \in facts.addedCalls
    BY CallsPatched
  <2>3. was(s) \subseteq Numbers
    BY <2>1
  <2> HIDE DEF was
  <2> QED
    BY <2>1, <2>2, <2>3
<1>4. ASSUME NEW e \in facts.addedCalls \union facts.removedCalls PROVE e[1] \in ChangedIds
  <2>1. PICK f \in Diff : e \in Gains(f) \union Loses(f)
    BY <1>1 DEF ChangeInv, GainsCompared, LossesCompared
  <2>2. e[1] \in ChangedHere(f)
    BY <2>1 DEF Gains, Loses, Edges, NewCalls, LostCalls, ChangedHere
  <2> QED
    BY <2>2, ChangedInFiles
<1>5. ASSUME NEW c \in facts.contracts PROVE c[1] \in ChangedIds
  <2>1. PICK f \in Diff : c \in Breaks(f)
    BY <1>1 DEF ChangeInv, ContractsCompared
  <2>2. PICK s \in ChangedHere(f) :
           \/ c \in Whole(s, HeadRows(f)[s], "added") \/ c \in Whole(s, Was(f)[s], "removed")
           \/ c \in Parts(s, Was(f)[s], HeadRows(f)[s])
    BY <2>1 DEF Breaks, ChangedHere
  <2>3. c[1] = s
    BY <2>2, PartsAreOfSymbol
  <2> QED
    BY <2>2, <2>3, ChangedInFiles
<1> QED
  BY <1>2, <1>3, <1>4, <1>5

-----------------------------------------------------------------------------
(* The stages.                                                             *)

LEMMA InitAnalysis == AnalysisInit => AnalysisInv
<1> SUFFICES ASSUME AnalysisInit PROVE AnalysisInv
  OBVIOUS
<1>1. base \in Bases(Row) /\ head \in Overlays(Row)
  BY AnalysisAssumption DEF AnalysisInit
<1>2. ChangeInv
  BY <1>1, InitChange DEF AnalysisInit
<1>3. ImpactTypeOK /\ NoSurface
  BY DEF AnalysisInit, ImpactTypeOK, NoSurface
<1> QED
  BY <1>2, <1>3, InitImpact, InitComplete DEF AnalysisInv

\* Stages that leave the change, or the traversal, alone.
LEMMA ChangeStays ==
  ASSUME ChangeInv, UNCHANGED changeVars
  PROVE  ChangeInv'
<1>1. UNCHANGED <<base, head, pending, facts>>
  BY DEF changeVars
<1>2. /\ Diff' = Diff
      /\ \A f : /\ Reports(f)' = Reports(f) /\ Gains(f)' = Gains(f)
                /\ Loses(f)' = Loses(f) /\ Breaks(f)' = Breaks(f)
  BY <1>1, FilesStay
<1>3. Compared' = Compared
  BY <1>1, <1>2 DEF Compared
<1>4. SymbolsCompared' /\ GainsCompared'
  BY <1>1, <1>2, <1>3 DEF ChangeInv, SymbolsCompared, GainsCompared
<1>5. LossesCompared' /\ ContractsCompared'
  BY <1>1, <1>2, <1>3 DEF ChangeInv, LossesCompared, ContractsCompared
<1> QED
  BY <1>1, <1>2, <1>4, <1>5 DEF ChangeInv

LEMMA NoSurfaceStays ==
  ASSUME NoSurface, UNCHANGED impactVars
  PROVE  NoSurface'
  BY DEF impactVars, surface, NoSurface

LEMMA TraversalStep ==
  ASSUME ImpactInv, CompleteInv, [ImpactNext]_impactVars
  PROVE  ImpactInv' /\ CompleteInv'
  BY NothingChangedSound, StartTraversalSound, SkipUpSound, VisitUpSound, EndsSound,
     SkipDownSound, VisitDownSound, NoStepSound, TraversalComplete DEF ImpactNext

\* The behavior compiler starts with an untouched surface over well-formed answers.
LEMMA BeginKeeps ==
  ASSUME AnalysisInv, BeginBehavior
  PROVE  AnalysisInv'
<1>1. stage = "change" /\ stage' = "behavior" /\ UNCHANGED changeVars
      /\ UNCHANGED <<phase, queueUp, queueDown, visitedUp, visitedDown, affected, endpoints, surfaces>>
  BY DEF BeginBehavior, surface
<1>2. NoSurface'
  BY <1>1 DEF AnalysisInv, NoSurface
<1>3. base \in Bases(Row) /\ head \in Overlays(Row)
  BY DEF AnalysisInv, ChangeInv
<1>4. Nodes = Numbers /\ Surfaces = Targets /\ Targets = Stores \union Events
  BY OperationalAssumption
<1>5. changed' \in SUBSET Nodes
  <2>1. ChangedIds \subseteq Numbers
    BY FactsTyped DEF AnalysisInv
  <2> QED
    BY <2>1, <1>4 DEF BeginBehavior
<1>6. callers' \in [Nodes -> SUBSET Nodes] /\ callees' \in [Nodes -> SUBSET Nodes]
  <2>1. \A x \in Nodes : /\ Callers(base, head, x) \subseteq Nodes
                         /\ Callees(base, head, x) \subseteq Nodes
    BY <1>3, <1>4, AnswersAreNumbers
  <2>2. /\ callers' = [x \in Nodes |-> Callers(base, head, x)]
        /\ callees' = [x \in Nodes |-> Callees(base, head, x)]
    BY DEF BeginBehavior
  <2> QED
    BY <2>1, <2>2
<1>7. handlers' \in SUBSET Nodes
  <2>1. \A h \in handlers' : h \in Numbers
    BY DEF BeginBehavior, EntryPoints
  <2> QED
    BY <2>1, <1>4
<1>8. surfacesOf' \in [Nodes -> SUBSET Surfaces]
  <2>1. \A x : Touched(x) \subseteq Surfaces
    BY <1>4 DEF Touched
  <2>2. surfacesOf' = [x \in Nodes |-> Touched(x)]
    BY DEF BeginBehavior
  <2> QED
    BY <2>1, <2>2
<1>9. ImpactTypeOK'
  BY <1>2, <1>5, <1>6, <1>7, <1>8 DEF ImpactTypeOK, NoSurface
<1>10. ImpactInv'
  <2>1. ImpactSound'
    BY <1>2 DEF NoSurface, ImpactSound
  <2>2. QueuesSound'
    BY <1>2 DEF NoSurface, QueuesSound
  <2> QED
    BY <1>9, <2>1, <2>2 DEF ImpactInv
<1>11. ChangeInv'
  BY <1>1, ChangeStays DEF AnalysisInv
<1>12. CompleteInv'
  BY <1>2 DEF NoSurface, CompleteInv, ResultsKept
<1> QED
  BY <1>1, <1>10, <1>11, <1>12 DEF AnalysisInv

\* A later stage never goes back to the change and leaves change and traversal alone.
LEMMA LaterStays ==
  ASSUME AnalysisInv, UNCHANGED <<changeVars, impactVars>>, stage' # "change"
  PROVE  AnalysisInv'
<1>1. ChangeInv'
  BY ChangeStays DEF AnalysisInv
<1>2. ImpactInv' /\ CompleteInv'
  BY NoStepSound, NoStepComplete DEF AnalysisInv
<1> QED
  BY <1>1, <1>2 DEF AnalysisInv

THEOREM AnalysisInvariant == AnalysisSpec => []AnalysisInv
<1>1. AnalysisInit => AnalysisInv
  BY InitAnalysis
<1>2. AnalysisInv /\ [AnalysisNext]_analysisVars => AnalysisInv'
  <2> SUFFICES ASSUME AnalysisInv, [AnalysisNext]_analysisVars PROVE AnalysisInv'
    OBVIOUS
  <2>1. CASE Compare
    <3>1. ChangeNext /\ UNCHANGED impactVars /\ stage' = "change" /\ stage = "change"
      BY <2>1 DEF Compare
    <3>2. PICK f \in pending : CompareFile(f)
      BY <3>1 DEF ChangeNext
    <3>3. ChangeInv'
      BY <3>2, CompareKeeps DEF AnalysisInv
    <3>4. NoSurface' /\ ImpactInv' /\ CompleteInv'
      BY <3>1, NoSurfaceStays, NoStepSound, NoStepComplete DEF AnalysisInv
    <3> QED
      BY <3>3, <3>4 DEF AnalysisInv
  <2>2. CASE NoModels
    BY <2>2, LaterStays DEF NoModels
  <2>3. CASE BeginBehavior
    BY <2>3, BeginKeeps
  <2>4. CASE Traverse
    <3>1. ImpactNext /\ stage' # "change" /\ UNCHANGED changeVars
      BY <2>4 DEF Traverse
    <3>2. ImpactInv' /\ CompleteInv' /\ ChangeInv'
      BY <3>1, TraversalStep, ChangeStays DEF AnalysisInv
    <3> QED
      BY <3>1, <3>2 DEF AnalysisInv
  <2>5. CASE Operate
    <3>1. stage' # "change" /\ UNCHANGED <<changeVars, impactVars>>
      BY <2>5 DEF Operate
    <3> QED
      BY <3>1, LaterStays
  <2>6. CASE Discover
    <3>1. stage' # "change" /\ UNCHANGED <<changeVars, impactVars>>
      BY <2>6 DEF Discover
    <3> QED
      BY <3>1, LaterStays
  <2>7. CASE Review
    <3>1. stage' # "change" /\ UNCHANGED <<changeVars, impactVars>>
      BY <2>7 DEF Review
    <3> QED
      BY <3>1, LaterStays
  <2>8. CASE ToLLM
    <3>1. stage' # "change" /\ UNCHANGED <<changeVars, impactVars>>
      BY <2>8 DEF ToLLM
    <3> QED
      BY <3>1, LaterStays
  <2>9. CASE UNCHANGED analysisVars
    <3>1. UNCHANGED <<changeVars, impactVars, stage>>
      BY <2>9 DEF analysisVars
    <3>2. ChangeInv' /\ ImpactInv' /\ CompleteInv'
      BY <3>1, ChangeStays, NoStepSound, NoStepComplete DEF AnalysisInv
    <3>3. stage' = "change" => NoSurface'
      BY <3>1, NoSurfaceStays DEF AnalysisInv
    <3> QED
      BY <3>2, <3>3 DEF AnalysisInv
  <2> QED
    BY <2>1, <2>2, <2>3, <2>4, <2>5, <2>6, <2>7, <2>8, <2>9 DEF AnalysisNext
<1> QED
  BY <1>1, <1>2, PTL DEF AnalysisSpec

\* The change compiler patches the base into the head, for all versions and whatever
\* numbers they have, in every order in which the files are compared.
THEOREM ChangePatchesHolds == AnalysisSpec => []ChangePatches
<1>1. AnalysisInv => ChangePatches
  BY ComparedPatches DEF AnalysisInv
<1> QED
  BY <1>1, AnalysisInvariant, PTL

\* What the analysis calls affected lies within the depth of a changed symbol, over
\* the answers the view really gives.
THEOREM ImpactSoundHolds == AnalysisSpec => []ImpactSound
<1>1. AnalysisInv => ImpactSound
  BY DEF AnalysisInv, ImpactInv
<1> QED
  BY <1>1, AnalysisInvariant, PTL

\* Nor does the analysis miss anything within the depth of a changed symbol, unless a
\* direction met the limit on visited nodes.
THEOREM ImpactCompleteHolds == AnalysisSpec => []ImpactComplete
<1>1. AnalysisInv => ImpactComplete
  BY CompleteInvComplete DEF AnalysisInv
<1> QED
  BY <1>1, AnalysisInvariant, PTL

-----------------------------------------------------------------------------
(* The stages after the change.  The traversal starts from what was        *)
(* changed, over what the view answers, and the passes of the operational  *)
(* compiler leave one another's parts of the model alone.                  *)

\* what the behavior compiler took from the change and the view
Asked ==
  /\ changed = ChangedIds
  /\ callers = [x \in Nodes |-> Callers(base, head, x)]
  /\ callees = [x \in Nodes |-> Callees(base, head, x)]
  /\ handlers = {e.handler : e \in EntryPoints}
  /\ entryOf \in [handlers -> EntryPoints]
  /\ \A h \in handlers : entryOf[h].handler = h

ModelParts == {"dependency", "data", "event", "api", "validation"}

\* the passes that have run leave the parts of a model, and the endpoints stay listed
ModelInv ==
  /\ pass \in DOMAIN After \union {"raised", "end"}
  /\ pass # "composition" => DOMAIN ocm = ModelParts
  /\ pass \in {"data", "events", "api", "validation", "metrics", "end"} /\ caps.calls =>
       ocm.dependency = DependencyModel
  /\ pass \in {"validation", "metrics", "end"} /\ caps.entrypoints => ocm.api = [rest |-> Listed]

StageInv ==
  /\ caps \in Languages /\ stage \in Stages
  /\ stage \in {"behavior", "operational", "discovery", "failed"} => caps.symbols
  /\ caps.symbols /\ stage # "change" => Asked /\ pending = {}
  /\ caps.symbols /\ stage \notin {"change", "behavior"} => phase = "done"
  /\ stage \in {"change", "behavior"} => pass = "composition"
  /\ caps.symbols /\ stage \in {"discovery", "review", "llm", "done"} => pass = "end"
  /\ ~caps.symbols => pass = "composition"
  /\ ModelInv

\* What the view tells follows from the versions.
LEMMA ViewStays ==
  ASSUME UNCHANGED changeVars
  PROVE  /\ ChangedIds' = ChangedIds /\ ChangedEndpoints' = ChangedEndpoints
         /\ EntryPoints' = EntryPoints
         /\ \A x : /\ Callers(base, head, x)' = Callers(base, head, x)
                   /\ Callees(base, head, x)' = Callees(base, head, x)
<1>1. UNCHANGED <<base, head, pending, facts>>
  BY DEF changeVars
<1>2. \A x : Show(x)' = Show(x)
  BY <1>1 DEF Show
<1>3. EntryPoints' = EntryPoints
  BY <1>1, <1>2 DEF EntryPoints
<1> QED
  BY <1>1, <1>3 DEF ChangedIds, ChangedEndpoints

\* The endpoints listed depend on the change and on what is affected.
LEMMA ListedStays ==
  ASSUME UNCHANGED <<changeVars, affected, callers>>
  PROVE  Listed' = Listed
<1>1. ChangedIds' = ChangedIds /\ ChangedEndpoints' = ChangedEndpoints
      /\ EntryPoints' = EntryPoints
  BY ViewStays
<1>2. AffectedIds' = AffectedIds
  BY <1>1 DEF AffectedIds
<1>3. \A id : CallersOf(id)' = CallersOf(id)
  BY <1>2 DEF CallersOf
<1>4. Beyond(CallersOf)' = Beyond(CallersOf)
  BY <1>2, <1>3 DEF Beyond
<1> QED
  BY <1>1, <1>2, <1>4 DEF Listed

\* So does what the symbols depend on.
LEMMA DependencyStays ==
  ASSUME UNCHANGED <<changeVars, affected, callers, callees>>
  PROVE  DependencyModel' = DependencyModel
<1>1. ChangedIds' = ChangedIds /\ UNCHANGED <<base, head>>
  BY ViewStays DEF changeVars
<1>2. AffectedIds' = AffectedIds
  BY <1>1 DEF AffectedIds
<1>3. \A id : CallersOf(id)' = CallersOf(id) /\ CalleesOf(id)' = CalleesOf(id)
  BY <1>2 DEF CallersOf, CalleesOf
<1>4. Beyond(CalleesOf)' = Beyond(CalleesOf)
  BY <1>2, <1>3 DEF Beyond
<1>5. SymbolMap' = SymbolMap
  BY <1>1 DEF SymbolMap
<1>6. \A id : SymbolAt(id)' = SymbolAt(id)
  BY <1>1 DEF SymbolAt
<1>7. Counts(callers)' = Counts(callers) /\ Counts(callees)' = Counts(callees)
  BY <1>1 DEF Counts
<1> QED
  BY <1>1, <1>2, <1>3, <1>4, <1>5, <1>6, <1>7 DEF DependencyModel

LEMMA AskedStays ==
  ASSUME Asked, UNCHANGED <<changeVars, repository, entryOf>>
  PROVE  Asked'
<1>1. UNCHANGED <<changed, callers, callees, handlers, surfacesOf>>
  BY DEF repository
<1> QED
  BY <1>1, ViewStays DEF Asked

\* A step that leaves the operational model and what it is made from alone.
LEMMA ModelStays ==
  ASSUME ModelInv, UNCHANGED <<changeVars, affected, callers, callees, caps, pass, ocm>>
  PROVE  ModelInv'
<1>1. Listed' = Listed /\ DependencyModel' = DependencyModel
  BY ListedStays, DependencyStays
<1> QED
  BY <1>1 DEF ModelInv

\* The passes.
LEMMA OperateModel ==
  ASSUME ModelInv, OpNext, UNCHANGED <<changeVars, impactVars>>
  PROVE  ModelInv' /\ UNCHANGED <<caps, entryOf>> /\ pass' # "composition"
<1>1. Listed' = Listed /\ DependencyModel' = DependencyModel
  BY ListedStays, DependencyStays DEF impactVars, repository, surface
<1>2. DOMAIN After = {"composition", "dependency", "data", "events", "api", "validation", "metrics"}
      /\ After["composition"] = "dependency" /\ After["dependency"] = "data"
      /\ After["data"] = "events" /\ After["events"] = "api" /\ After["api"] = "validation"
      /\ After["validation"] = "metrics" /\ After["metrics"] = "end"
  BY DEF After
<1>3. DOMAIN NoModel = ModelParts
  BY DEF NoModel, ModelParts
<1>4. CASE SkipPass
  BY <1>1, <1>2, <1>4 DEF SkipPass, ModelInv, Gate
<1>5. CASE Compose
  BY <1>2, <1>3, <1>5 DEF Compose, Goes, ModelInv
<1>6. CASE Dependency
  <2>1. pass = "dependency" /\ pass' = "data" /\ UNCHANGED <<caps, entryOf>>
        /\ ocm' = [ocm EXCEPT !.dependency = DependencyModel]
    BY <1>2, <1>6 DEF Dependency, Goes
  <2>2. DOMAIN ocm = ModelParts /\ "dependency" \in ModelParts
    BY <2>1, <1>2 DEF ModelInv, ModelParts
  <2>3. DOMAIN ocm' = ModelParts /\ ocm'.dependency = DependencyModel
    BY <2>1, <2>2
  <2> QED
    BY <1>1, <1>2, <2>1, <2>3 DEF ModelInv
<1>7. CASE Data
  <2>1. pass = "data" /\ pass' = "events" /\ UNCHANGED <<caps, entryOf>>
    BY <1>2, <1>7 DEF Data, Goes
  <2>2. DOMAIN ocm = ModelParts /\ "dependency" \in ModelParts
    BY <2>1, <1>2 DEF ModelInv, ModelParts
  <2>3. DOMAIN ocm' = ModelParts /\ ocm'.dependency = ocm.dependency
    BY <1>7, <2>2 DEF Data
  <2> QED
    BY <1>1, <1>2, <2>1, <2>3 DEF ModelInv
<1>8. CASE EventPass
  <2>1. pass = "events" /\ pass' = "api" /\ UNCHANGED <<caps, entryOf>>
    BY <1>2, <1>8 DEF EventPass, Goes
  <2>2. DOMAIN ocm = ModelParts /\ "dependency" \in ModelParts
    BY <2>1, <1>2 DEF ModelInv, ModelParts
  <2>3. DOMAIN ocm' = ModelParts /\ ocm'.dependency = ocm.dependency
    BY <1>8, <2>2 DEF EventPass
  <2> QED
    BY <1>1, <1>2, <2>1, <2>3 DEF ModelInv
<1>9. CASE Api
  <2>1. pass = "api" /\ pass' = "validation" /\ UNCHANGED <<caps, entryOf>>
        /\ ocm' = [ocm EXCEPT !.api = [rest |-> Listed]]
    BY <1>2, <1>9 DEF Api, Goes
  <2>2. DOMAIN ocm = ModelParts /\ "api" \in ModelParts /\ "dependency" \in ModelParts
    BY <2>1, <1>2 DEF ModelInv, ModelParts
  <2>3. DOMAIN ocm' = ModelParts /\ ocm'.api = [rest |-> Listed] /\ ocm'.dependency = ocm.dependency
    BY <2>1, <2>2
  <2> QED
    BY <1>1, <1>2, <2>1, <2>3 DEF ModelInv
<1>10. CASE ApiRaises
  BY <1>2, <1>10 DEF ApiRaises, ModelInv
<1>11. CASE Validation
  <2>1. pass = "validation" /\ pass' = "metrics" /\ UNCHANGED <<caps, entryOf>>
    BY <1>2, <1>11 DEF Validation, Goes
  <2>2. DOMAIN ocm = ModelParts /\ "api" \in ModelParts /\ "dependency" \in ModelParts
    BY <2>1, <1>2 DEF ModelInv, ModelParts
  <2>3. DOMAIN ocm' = ModelParts /\ ocm'.api = ocm.api /\ ocm'.dependency = ocm.dependency
    BY <1>11, <2>2 DEF Validation
  <2> QED
    BY <1>1, <1>2, <2>1, <2>3 DEF ModelInv
<1>12. CASE Metrics
  BY <1>1, <1>2, <1>12 DEF Metrics, Goes, ModelInv
<1> QED
  BY <1>4, <1>5, <1>6, <1>7, <1>8, <1>9, <1>10, <1>11, <1>12 DEF OpNext

LEMMA InitStages == AnalysisInit => StageInv
  BY DEF AnalysisInit, StageInv, Stages, ModelInv, After

\* What the behavior compiler asks of the view.
LEMMA BeginAsks ==
  ASSUME AnalysisInv, StageInv, BeginBehavior
  PROVE  StageInv'
<1>1. stage' = "behavior" /\ pass = "composition" /\ caps.symbols /\ pending = {}
      /\ UNCHANGED <<changeVars, caps, pass, ocm>>
  BY DEF BeginBehavior, StageInv
<1>2. Asked'
  <2>1. /\ changed' = ChangedIds
        /\ callers' = [x \in Nodes |-> Callers(base, head, x)]
        /\ callees' = [x \in Nodes |-> Callees(base, head, x)]
        /\ handlers' = {e.handler : e \in EntryPoints}
        /\ entryOf' \in [handlers' -> EntryPoints]
        /\ \A h \in handlers' : entryOf'[h].handler = h
    BY DEF BeginBehavior
  <2> QED
    BY <1>1, <2>1, ViewStays DEF Asked
<1>3. pending' = pending
  BY <1>1 DEF changeVars
<1>4. ModelInv'
  BY <1>1 DEF StageInv, ModelInv
<1> QED
  BY <1>1, <1>2, <1>3, <1>4 DEF StageInv, Stages

\* Steps of the stages whose results are parts of the prompt only.
LEMMA LaterStages ==
  ASSUME StageInv, UNCHANGED <<changeVars, impactVars, opVars>>, stage \in Stages, stage' \in Stages,
         stage' = stage \/ (stage = "change" /\ stage' = "review" /\ ~caps.symbols)
           \/ (stage \in {"discovery", "review", "llm"} /\ stage' \in {"review", "llm", "done"})
  PROVE  StageInv'
<1>1. UNCHANGED <<repository, phase, affected, caps, entryOf, pass, ocm, callers, callees, pending>>
  BY DEF impactVars, opVars, repository, surface, changeVars
<1>2. ModelInv'
  BY <1>1, ModelStays DEF StageInv
<1>3. Asked => Asked'
  BY <1>1, AskedStays
<1> QED
  BY <1>1, <1>2, <1>3 DEF StageInv

\* Every step.
LEMMA StageStep ==
  ASSUME AnalysisInv, StageInv, [AnalysisNext]_analysisVars
  PROVE  StageInv'
<1>1. CASE Compare
  <2>1. UNCHANGED <<impactVars, opVars, stage>> /\ stage = "change" /\ pass = "composition"
    BY <1>1 DEF Compare, StageInv
  <2>2. UNCHANGED <<caps, pass, ocm>>
    BY <2>1 DEF opVars
  <2> QED
    BY <2>1, <2>2 DEF StageInv, ModelInv
<1>2. CASE NoModels
  BY <1>2, LaterStages DEF NoModels, Stages
<1>3. CASE BeginBehavior
  BY <1>3, BeginAsks
<1>4. CASE Traverse
  <2>1. stage = "behavior" /\ ImpactNext /\ UNCHANGED <<changeVars, opVars>>
        /\ stage' = IF phase' = "done" THEN "operational" ELSE stage
    BY <1>4 DEF Traverse
  <2>2. UNCHANGED <<repository, caps, entryOf, pass, ocm, pending>>
    BY <2>1 DEF opVars, changeVars, ImpactNext, NothingChanged, StartTraversal, SkipUp, VisitUp,
       EndUp, SkipDown, VisitDown, EndDown
  <2>3. Asked'
    BY <2>1, <2>2, AskedStays DEF StageInv
  <2>4. ModelInv' /\ pass = "composition" /\ caps.symbols
    BY <2>1, <2>2 DEF StageInv, ModelInv
  <2> QED
    BY <2>1, <2>2, <2>3, <2>4 DEF StageInv, Stages
<1>5. CASE Operate
  <2>1. stage = "operational" /\ OpNext /\ UNCHANGED <<changeVars, impactVars>>
        /\ stage' = CASE pass' = "raised" -> "failed" [] pass' = "end" -> "discovery" [] OTHER -> stage
    BY <1>5 DEF Operate
  <2>2. ModelInv' /\ UNCHANGED <<caps, entryOf>> /\ pass' # "composition"
    BY <2>1, OperateModel DEF StageInv
  <2>3. UNCHANGED <<repository, phase, pending>>
    BY <2>1 DEF impactVars, changeVars
  <2>4. Asked' /\ phase = "done" /\ caps.symbols /\ pending = {}
    BY <2>1, <2>2, <2>3, AskedStays DEF StageInv
  <2>5. \/ stage' = "failed" /\ pass' = "raised"
        \/ stage' = "discovery" /\ pass' = "end"
        \/ stage' = "operational"
    BY <2>1
  <2> QED
    BY <2>2, <2>3, <2>4, <2>5 DEF StageInv, Stages
<1>6. CASE Discover
  BY <1>6, LaterStages DEF Discover, Stages
<1>7. CASE Review
  BY <1>7, LaterStages DEF Review, Stages
<1>8. CASE ToLLM
  BY <1>8, LaterStages DEF ToLLM, Stages
<1>9. CASE UNCHANGED analysisVars
  BY <1>9, LaterStages DEF analysisVars, StageInv
<1> QED
  BY <1>1, <1>2, <1>3, <1>4, <1>5, <1>6, <1>7, <1>8, <1>9 DEF AnalysisNext

THEOREM StageInvariant == AnalysisSpec => []StageInv
<1>1. AnalysisInit => StageInv
  BY InitStages
<1>2. AnalysisInv /\ StageInv /\ [AnalysisNext]_analysisVars => StageInv'
  BY StageStep
<1> QED
  BY <1>1, <1>2, AnalysisInvariant, PTL DEF AnalysisSpec

-----------------------------------------------------------------------------
(* What the change leads to.                                               *)

LEMMA CallersAreFound == ASSUME AnalysisInv, StageInv PROVE CallersFound
<1> SUFFICES ASSUME stage = "operational", MaxDepth > 0, BelowLimit(visitedUp),
                    NEW s \in ChangedIds, NEW u \in Numbers, NEW c \in Numbers,
                    head.rows[s] # None, base.named[u] = head.rows[s].name,
                    base.rows[c] # None, u \in base.rows[c].calls,
                    head.rows[c] = None, NameOf(base, head, c) = None,
                    ~Hidden(head, base.rows[c].file)
             PROVE  c \in affected
  BY DEF CallersFound
<1>1. Asked /\ phase = "done"
  BY DEF StageInv
<1>2. s \in Numbers /\ base \in Bases(Row) /\ head \in Overlays(Row)
  BY FactsTyped DEF AnalysisInv, ChangeInv
<1>3. u \in AsCalled(base, head, s)
  BY DEF AsCalled, Exists, Got
<1>4. Shown(base, head, c) # None
  <2>1. Named(base, None) = {}
    <3>1. \A t \in Numbers : base.rows[t] # None => base.rows[t].name # None
      BY <1>2, VersionsTyped, RowTyped, AnalysisAssumption
    <3> QED
      BY <3>1 DEF Named
  <2>2. Resolved(base, head, c) = c
    BY <2>1 DEF Resolved
  <2>3. Got(base, head, c) = base.rows[c]
    BY <2>2 DEF Got
  <2> QED
    BY <2>3 DEF Shown, Skipped, Exists
<1>5. c \in Callers(base, head, s)
  BY <1>3, <1>4 DEF Callers
<1>6. s \in Nodes /\ c \in Nodes
  BY <1>2, OperationalAssumption
<1>7. c \in callers[s] /\ s \in changed
  BY <1>1, <1>5, <1>6 DEF Asked
<1>8. callers \in [Nodes -> SUBSET Nodes] /\ changed \in SUBSET Nodes
  BY DEF AnalysisInv, ImpactInv, ImpactTypeOK
<1>9. Steps(callers, s, 0) /\ 0 \in Nat
  BY <1>7, ChangedWithin
<1>10. Steps(callers, c, 0 + 1)
  BY <1>6, <1>7, <1>8, <1>9, OneStepFurther
<1>11. Within(callers, c)
  <2>1. 1 \in 0 .. MaxDepth /\ 0 + 1 = 1
    BY ImpactAssumption
  <2> QED
    BY <1>10, <2>1 DEF Within
<1>12. ImpactComplete
  BY CompleteInvComplete DEF AnalysisInv
<1>13. \A n \in Nodes : Within(callers, n) => n \in affected
  BY <1>1, <1>12 DEF ImpactComplete
<1> QED
  BY <1>6, <1>11, <1>13

LEMMA EndpointsAreListed == ASSUME AnalysisInv, StageInv PROVE EndpointsListed
<1> SUFFICES ASSUME stage = "discovery", caps.entrypoints
             PROVE
    /\ \A h \in endpoints : \E e \in ocm.api.rest :
         e.path = entryOf[h].path /\ e.method = entryOf[h].method /\ e.id = Text(h)
    /\ \A c \in ChangedEndpoints : \E e \in ocm.api.rest : e.path = c[4][2] /\ e.id.of = c[1]
  BY DEF EndpointsListed
<1>1. Asked /\ ocm.api.rest = Listed
  BY DEF StageInv, ModelInv
<1>2. ASSUME NEW h \in endpoints
      PROVE  \E e \in Listed :
               e.path = entryOf[h].path /\ e.method = entryOf[h].method /\ e.id = Text(h)
  <2>1. h \in handlers /\ h \in affected
    BY DEF AnalysisInv, ImpactInv, ImpactSound, CompleteInv, ResultsKept
  <2>2. entryOf[h] \in EntryPoints /\ entryOf[h].handler = h
    BY <1>1, <2>1 DEF Asked
  <2>3. Text(h) \in AffectedIds
    BY <2>1 DEF AffectedIds
  <2> DEFINE x == entryOf[h]
             e == [method |-> x.method, path |-> x.path, id |-> Text(x.handler)]
  <2>4. e \in Listed
    BY <2>2, <2>3 DEF Listed
  <2>5. e.path = x.path /\ e.method = x.method /\ e.id = Text(h)
    BY <2>2
  <2> QED
    BY <2>4, <2>5
<1>3. ASSUME NEW c \in ChangedEndpoints
      PROVE  \E e \in Listed : e.path = c[4][2] /\ e.id.of = c[1]
  <2> DEFINE e == [method |-> Get, path |-> c[4][2], id |-> Number(c[1])]
  <2>1. e \in Listed
    BY DEF Listed
  <2>2. e.path = c[4][2] /\ e.id.of = c[1]
    BY DEF Number
  <2> QED
    BY <2>1, <2>2
<1> QED
  BY <1>1, <1>2, <1>3

\* The analysis finds the callers that the view takes from the base, for every two
\* numberings of a repository and a pull request.
THEOREM CallersFoundHolds == AnalysisSpec => []CallersFound
<1>1. AnalysisInv /\ StageInv => CallersFound
  BY CallersAreFound
<1> QED
  BY <1>1, AnalysisInvariant, StageInvariant, PTL

\* Where the languages tell entry points, every endpoint affected or changed is listed
\* when the discovery begins.
THEOREM EndpointsListedHolds == AnalysisSpec => []EndpointsListed
<1>1. AnalysisInv /\ StageInv => EndpointsListed
  BY EndpointsAreListed
<1> QED
  BY <1>1, AnalysisInvariant, StageInvariant, PTL
=============================================================================
