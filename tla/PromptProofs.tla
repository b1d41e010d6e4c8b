---------------------------- MODULE PromptProofs ----------------------------
(***************************************************************************)
(* Theorems about what is made of the operational model: the discoveries,  *)
(* the review context and the context of the language model.               *)
(*                                                                         *)
(* Of the discoveries the inductive invariant says, until they are         *)
(* compressed, that they are those that were emitted, each once; and from  *)
(* then on that each is held by one of the discoveries, by itself or by a  *)
(* group.  Of the review context it says that the changed files and the    *)
(* affected endpoints are all in it; of the prompt, what each part was     *)
(* built from.                                                             *)
(***************************************************************************)
EXTENDS AnalysisProofs, SortingProofs, FiniteSetTheorems, SequenceTheorems

\* The totals of a group, each from the one before it.
LEMMA TotalsAdd ==
  ASSUME NEW group, NEW n \in Nat, Len(group) = n,
         \A k \in 1 .. n : group[k].importance \in 0 .. 100
  PROVE  /\ Totals(group) \in [0 .. n -> Int] /\ Totals(group)[0] = 0
         /\ \A k \in 1 .. n : Totals(group)[k] = Totals(group)[k - 1] + group[k].importance
<1> DEFINE x(k) == group[k].importance
           Adds(f, m) == f[0] = 0 /\ \A k \in 1 .. m : f[k] = f[k - 1] + x(k)
           Q(m) == \E f \in [0 .. m -> Int] : Adds(f, m)
           T == {m \in 0 .. n : ~Q(m)}
<1>0. \A k \in 1 .. n : x(k) \in Int
  <2>1. \A y \in 0 .. 100 : y \in Int
    OBVIOUS
  <2> QED
    BY <2>1
<1>1. Q(n)
  <2> HIDE DEF Q
  <2> SUFFICES ASSUME n \in T PROVE FALSE
    OBVIOUS
  <2>1. PICK m \in T : \A k \in T : m <= k
    <3>1. T \in SUBSET Nat /\ T # {}
      OBVIOUS
    <3> HIDE DEF T
    <3> QED
      BY <3>1, LeastNumber
  <2>2. m # 0
    <3>1. [i \in 0 .. 0 |-> 0] \in [0 .. 0 -> Int] /\ Adds([i \in 0 .. 0 |-> 0], 0)
      OBVIOUS
    <3>2. Q(0)
      BY <3>1 DEF Q
    <3> QED
      BY <2>1, <3>2
  <2>3. m - 1 \in 0 .. n /\ m \in 1 .. n /\ m - 1 \notin T
    BY <2>1, <2>2
  <2>4. PICK f \in [0 .. (m - 1) -> Int] : Adds(f, m - 1)
    BY <2>3 DEF Q
  <2> DEFINE g == [i \in 0 .. m |-> IF i = m THEN f[m - 1] + x(m) ELSE f[i]]
  <2>5. g \in [0 .. m -> Int]
    <3>1. f[m - 1] + x(m) \in Int
      BY <1>0, <2>3, <2>4
    <3>2. \A i \in 0 .. m : i # m => i \in 0 .. (m - 1)
      BY <2>3
    <3> QED
      BY <2>4, <3>1, <3>2
  <2>6. g[0] = 0 /\ \A k \in 1 .. m : g[k] = g[k - 1] + x(k)
    <3>1. g[0] = 0
      BY <2>3, <2>4
    <3>2. ASSUME NEW k \in 1 .. m PROVE g[k] = g[k - 1] + x(k)
      <4>1. CASE k = m
        BY <2>3, <4>1
      <4>2. CASE k # m
        <5>1. k \in 1 .. (m - 1) /\ k \in 0 .. m /\ k - 1 \in 0 .. m /\ k - 1 # m
          BY <2>3, <4>2
        <5>2. f[k] = f[k - 1] + x(k)
          BY <2>4, <5>1
        <5>3. g[k] = f[k] /\ g[k - 1] = f[k - 1]
          BY <4>2, <5>1
        <5> QED
          BY <5>2, <5>3
      <4> QED
        BY <4>1, <4>2
    <3> QED
      BY <3>1, <3>2
  <2> HIDE DEF g
  <2> QED
    BY <2>1, <2>5, <2>6 DEF Q
<1>2. PICK f \in [0 .. n -> Int] : Adds(f, n)
  BY <1>1 DEF Q
<1>3. f = [k \in 0 .. n |-> IF k = 0 THEN 0 ELSE f[k - 1] + group[k].importance]
  BY <1>2
<1>4. \E h : h = [k \in 0 .. n |-> IF k = 0 THEN 0 ELSE h[k - 1] + group[k].importance]
  BY <1>3
<1>5. Totals(group) = CHOOSE h : h = [k \in 0 .. n |-> IF k = 0 THEN 0 ELSE h[k - 1] + group[k].importance]
  BY Zenon DEF Totals
<1> DEFINE t == Totals(group)
<1>6. t = [k \in 0 .. n |-> IF k = 0 THEN 0 ELSE t[k - 1] + group[k].importance]
  BY <1>4, <1>5
<1> HIDE DEF t
<1>7. t[0] = 0 /\ \A k \in 1 .. n : t[k] = t[k - 1] + x(k)
  <2>1. t[0] = 0
    BY <1>6
  <2>2. ASSUME NEW k \in 1 .. n PROVE t[k] = t[k - 1] + x(k)
    <3>1. k \in 0 .. n /\ k # 0
      OBVIOUS
    <3>2. t[k] = IF k = 0 THEN 0 ELSE t[k - 1] + group[k].importance
      BY <1>6, <3>1, Zenon
    <3> QED
      BY <3>1, <3>2
  <2> QED
    BY <2>1, <2>2
<1>8. t \in [0 .. n -> Int]
  <2>1. t = f
   <3> DEFINE D == {k \in 0 .. n : t[k] # f[k]}
   <3>1. SUFFICES D = {}
     <4>1. \A k \in 0 .. n : D = {} => t[k] = f[k]
       OBVIOUS
     <4>2. D = {} => [k \in 0 .. n |-> t[k]] = [k \in 0 .. n |-> f[k]]
       BY <4>1
     <4>3. t = [k \in 0 .. n |-> t[k]] /\ f = [k \in 0 .. n |-> f[k]]
       BY <1>6, <1>2
     <4> QED
       BY <4>2, <4>3
   <3>2. SUFFICES ASSUME D # {} PROVE FALSE
     OBVIOUS
   <3>3. PICK m \in D : \A k \in D : m <= k
    <4>1. D \in SUBSET Nat /\ D # {}
      BY <3>2
    <4> HIDE DEF D
    <4> QED
      BY <4>1, LeastNumber
   <3>4. m \in 1 .. n /\ m - 1 \in 0 .. n /\ m - 1 \notin D
     BY <1>2, <1>7, <3>3
   <3>5. t[m - 1] = f[m - 1] /\ t[m] = t[m - 1] + x(m) /\ f[m] = f[m - 1] + x(m)
     BY <1>2, <1>7, <3>4
   <3> QED
     BY <3>3, <3>5
  <2> QED
    BY <2>1, <1>2
<1> QED
  BY <1>7, <1>8 DEF t

\* The sum of importances is bounded as they are.
LEMMA TotalsBound ==
  ASSUME NEW group, NEW n \in Nat, Len(group) = n,
         \A k \in 1 .. n : group[k].importance \in 0 .. 100
  PROVE  Totals(group)[n] \in 0 .. 100 * n
<1> DEFINE t == Totals(group)
           D == {k \in 0 .. n : t[k] \notin 0 .. 100 * k}
<1>1. /\ t \in [0 .. n -> Int] /\ t[0] = 0
      /\ \A k \in 1 .. n : t[k] = t[k - 1] + group[k].importance
  BY TotalsAdd
<1> HIDE DEF t
<1>2. D = {}
  <2>1. SUFFICES ASSUME D # {} PROVE FALSE
    OBVIOUS
  <2>2. PICK m \in D : \A k \in D : m <= k
    <3>1. D \in SUBSET Nat /\ D # {}
      BY <2>1
    <3> HIDE DEF D
    <3> QED
      BY <3>1, LeastNumber
  <2>3. m \in 1 .. n /\ m - 1 \in 0 .. n /\ m - 1 \notin D
    BY <1>1, <2>2
  <2>4. t[m - 1] \in 0 .. 100 * (m - 1) /\ t[m] = t[m - 1] + group[m].importance
    BY <1>1, <2>3
  <2>5. t[m] \in 0 .. 100 * m
    <3>1. \A k \in Int : \A a \in 0 .. 100 * (k - 1), b \in 0 .. 100 : a + b \in 0 .. 100 * k
      OBVIOUS
    <3>2. t[m - 1] \in Int /\ m \in Int
      BY <1>1, <2>3
    <3>3. group[m].importance \in 0 .. 100
      BY <2>3
    <3> QED
      BY <2>4, <3>1, <3>2, <3>3
  <2> QED
    BY <2>2, <2>5
<1> QED
  BY <1>2 DEF t

-----------------------------------------------------------------------------
(* What the discovery compiler is given.                                   *)

LEMMA ModelsAreParts ==
  ASSUME AnalysisInv, Asked
  PROVE  /\ DependencyModel \in DependencyModels /\ [rest |-> Listed] \in APIModels
         /\ DependencyModel # None /\ [rest |-> Listed] # None
<1>1. Nodes = Numbers /\ IsFiniteSet(Nodes)
  BY OperationalAssumption, ImpactAssumption
<1>2. affected \in SUBSET Nodes /\ callers \in [Nodes -> SUBSET Nodes] /\ callees \in [Nodes -> SUBSET Nodes]
  BY DEF AnalysisInv, ImpactInv, ImpactTypeOK
<1>3. ChangedIds \subseteq Numbers
  BY FactsTyped DEF AnalysisInv
<1>4. ASSUME NEW f \in [Nodes -> SUBSET Nodes] PROVE Counts(f) \in Fans
  <2> DEFINE S == affected \union ChangedIds
  <2>1. S \in SUBSET Nodes
    BY <1>1, <1>2, <1>3
  <2>2. \A n \in S : Cardinality(f[n]) \in Nat
    <3> SUFFICES ASSUME NEW n \in S PROVE Cardinality(f[n]) \in Nat
      OBVIOUS
    <3>1. f[n] \in SUBSET Nodes
      BY <2>1
    <3>2. IsFiniteSet(f[n])
      BY <1>1, <3>1, FS_Subset
    <3> QED
      BY <3>2, FS_CardinalityType
  <2>3. Counts(f) \in [S -> Nat]
    BY <2>2 DEF Counts
  <2> QED
    BY <2>1, <2>3 DEF Fans
<1>5. \A id \in SymbolMap : SymbolAt(id) \in Nodes \union {None}
  <2> SUFFICES ASSUME NEW id \in SymbolMap PROVE SymbolAt(id) \in Nodes
    OBVIOUS
  <2>1. id.of \in Nodes
    BY <1>1, <1>2, <1>3 DEF SymbolMap, Text
  <2>2. Resolved(base, head, id.of) \in Nodes
    BY <1>1, <2>1, ResolvedTyped
  <2> QED
    BY <2>1, <2>2 DEF SymbolAt
<1>6. DependencyModel \in DependencyModels
  <2>1. Counts(callers) \in Fans /\ Counts(callees) \in Fans
    BY <1>2, <1>4
  <2>2. {x \in (affected \union ChangedIds) \X Nodes : x[2] \in callees[x[1]] /\ x[2] # x[1]}
          \in SUBSET (Nodes \X Nodes)
    BY <1>1, <1>2, <1>3
  <2>3. \A S : {SymbolAt(id) : id \in S \intersect SymbolMap} \in SUBSET (Nodes \union {None})
    BY <1>5
  <2> QED
    BY <2>1, <2>2, <2>3 DEF DependencyModel, DependencyModels
<1>7. [rest |-> Listed] \in APIModels
  <2> DEFINE R == [method : Methods, path : Paths, id : Ids]
  <2>1. ASSUME NEW e \in EntryPoints
        PROVE  [method |-> e.method, path |-> e.path, id |-> Text(e.handler)] \in R
    <3>1. PICK x \in Numbers \X Routes :
            e = [handler |-> x[1], method |-> x[2][1], path |-> x[2][2]]
      BY DEF EntryPoints
    <3>2. x[1] \in Numbers /\ x[2] \in Methods \X Paths
      BY OperationalAssumption
    <3>3. e.method \in Methods /\ e.path \in Paths /\ e.handler \in Nodes
      BY <1>1, <3>1, <3>2
    <3>4. Text(e.handler) \in Ids
      BY <3>3 DEF Text, Ids
    <3> QED
      BY <3>3, <3>4
  <2>2. ASSUME NEW c \in ChangedEndpoints
        PROVE  [method |-> Get, path |-> c[4][2], id |-> Number(c[1])] \in R
    <3>1. c \in Contracts /\ c[2] = "api"
      BY FactsTyped DEF ChangedEndpoints, AnalysisInv
    <3>2. c[1] \in Numbers /\ c[4] \in Methods \X Paths
      BY <3>1, OperationalAssumption DEF Contracts
    <3>3. Number(c[1]) \in Ids
      BY <1>1, <3>2 DEF Number, Ids
    <3> QED
      BY <3>2, <3>3, OperationalAssumption
  <2>3. Listed \in SUBSET R
    BY <2>1, <2>2 DEF Listed
  <2> QED
    BY <2>3 DEF APIModels
<1> QED
  BY <1>6, <1>7, OperationalAssumption

-----------------------------------------------------------------------------
(* The discoveries.                                                        *)

\* what a discovery is about before it is compressed
Subjects == Nodes \union Claims

Evidence ==
  (FoundKinds \union {"validation", "dependency", "added", "removed", "modified", "api"})
    \X (Nodes \union {None})

Discoveries ==
  [kind : FoundKinds \union {"compressed"}, about : Subjects \union FoundKinds,
   importance : 0 .. 100, evidence : SUBSET Evidence, fanOut : Nat,
   children : SUBSET (FoundKinds \X Subjects)]

\* the nodes the models speak of
Affected == affected \union ChangedIds

\* a discovery that is no group
Single(d) ==
  /\ d.kind \in FoundKinds /\ d.children = {}
  /\ IF d.kind = "boundary_invariant" THEN d.about \in Claims ELSE d.about \in Affected

SinglesIn(s) ==
  /\ \A i \in DOMAIN s : Single(s[i])
  /\ \A i, j \in DOMAIN s : Identity(s[i]) = Identity(s[j]) => i = j

\* what of a discovery may not change
Sign(d) == <<d.kind, d.about, d.evidence>>
Signs(s) == {Sign(s[i]) : i \in DOMAIN s}
Signed(D) == {Sign(d) : d \in D}

\* a discovery tells of another one, by itself or as its group
Tells(r, d) == Identity(d) = Identity(r) \/ Identity(d) \in r.children

\* a discovery is told once, and its evidence with it
HeldIn(s, d) ==
  \E i \in DOMAIN s :
    /\ Tells(s[i], d) /\ d.evidence \subseteq s[i].evidence
    /\ \A j \in DOMAIN s : Tells(s[j], d) => j = i

Contents(r) == IF r.kind = "compressed" THEN r.children ELSE {Identity(r)}

AllHeld(s, D) ==
  /\ \A d \in D : HeldIn(s, d)
  /\ \A i \in DOMAIN s : Contents(s[i]) \subseteq {Identity(d) : d \in D}

\* the claims that are made are true
Justified(about) ==
  /\ about = "api-unchanged" => endpoints = {} /\ ChangedEndpoints = {}
  /\ about = "no-cross-service" => \A n \in affected : callees[n] \subseteq {n}

ClaimsIn(s) == \A i \in DOMAIN s : Justified(s[i].about)

Finding == {"boundary", "gap"}
Weighing == {"significance", "ranking", "surprise", "compression"}

\* the discoveries before each pass
Fits(p, s, D) ==
  /\ p \in {"none", "dominant", "build", "end"} \union Finding \union Weighing
  /\ p \in {"none", "dominant"} => s = <<>>
  /\ s \in Seq(Discoveries)
  /\ p \in Finding \union Weighing => SinglesIn(s)
  /\ p = "boundary" => \A i \in DOMAIN s : s[i].kind \in {"fan_in", "fan_out"}
  /\ p = "gap" => \A i \in DOMAIN s : s[i].kind # "validation_gap"
  /\ p \in Weighing => Signed(D) = Signs(s)
  /\ p \in {"build", "end"} => AllHeld(s, D)
  /\ ClaimsIn(s)

DiscoveryInv ==
  /\ Fits(step, found, emitted)
  /\ stage \notin {"discovery", "review", "llm", "done"} => step = "none"
  /\ stage = "discovery" => step # "end"

InsightsInv ==
  /\ stage \notin {"llm", "done"} => insights = <<>>
  /\ \A i \in DOMAIN insights : Justified(insights[i].about)

\* What the discovery compiler asks of the models.
LEMMA DiscoveryGiven ==
  ASSUME AnalysisInv, StageInv, stage = "discovery"
  PROVE  /\ ocm.dependency = DependencyModel /\ ocm.dependency # None
         /\ ocm.api = [rest |-> Listed] /\ ocm.api # None /\ ocm.api.rest = Listed
         /\ Affected \in SUBSET Nodes /\ IsFiniteSet(Affected)
         /\ ocm.dependency.fanIn \in [Affected -> Nat]
         /\ ocm.dependency.fanOut \in [Affected -> Nat]
<1>1. caps \in Languages /\ caps.symbols /\ pass = "end" /\ Asked /\ ModelInv
  BY DEF StageInv
<1>2. caps.calls /\ caps.entrypoints
  BY <1>1 DEF Languages, AllOf
<1>3. ocm.dependency = DependencyModel /\ ocm.api = [rest |-> Listed]
  BY <1>1, <1>2 DEF ModelInv
<1>4. DependencyModel # None /\ [rest |-> Listed] # None /\ DependencyModel \in DependencyModels
  BY <1>1, ModelsAreParts
<1>5. Affected \in SUBSET Nodes
  <2>1. affected \in SUBSET Nodes
    BY DEF AnalysisInv, ImpactInv, ImpactTypeOK
  <2>2. ChangedIds \subseteq Numbers
    BY FactsTyped DEF AnalysisInv
  <2> QED
    BY <2>1, <2>2, OperationalAssumption DEF Affected
<1>6. IsFiniteSet(Affected)
  BY <1>5, ImpactAssumption, FS_Subset
<1>7. ocm.dependency.fanIn = Counts(callers) /\ ocm.dependency.fanOut = Counts(callees)
  BY <1>3 DEF DependencyModel
<1>8. \A f \in [Nodes -> SUBSET Nodes] : Counts(f) \in [Affected -> Nat]
  <2> SUFFICES ASSUME NEW f \in [Nodes -> SUBSET Nodes], NEW n \in Affected
               PROVE  Cardinality(f[n]) \in Nat
    BY DEF Counts, Affected
  <2>1. f[n] \in SUBSET Nodes
    BY <1>5
  <2>2. IsFiniteSet(f[n])
    BY <2>1, ImpactAssumption, FS_Subset
  <2> QED
    BY <2>2, FS_CardinalityType
<1>9. callers \in [Nodes -> SUBSET Nodes] /\ callees \in [Nodes -> SUBSET Nodes]
  BY DEF AnalysisInv, ImpactInv, ImpactTypeOK
<1> QED
  BY <1>3, <1>4, <1>5, <1>6, <1>7, <1>8, <1>9

\* What does not depend on the discoveries.
LEMMA ClaimsStay ==
  ASSUME UNCHANGED <<changeVars, impactVars>>
  PROVE  /\ \A about : Justified(about)' = Justified(about)
         /\ \A d : Single(d)' = Single(d)
<1>1. ChangedIds' = ChangedIds /\ ChangedEndpoints' = ChangedEndpoints
  BY ViewStays
<1>2. UNCHANGED <<affected, endpoints, callees>>
  BY DEF impactVars, repository, surface
<1> QED
  BY <1>1, <1>2 DEF Justified, Single, Affected

LEMMA FitsStay ==
  ASSUME UNCHANGED <<changeVars, impactVars>>, Fits(step', found', emitted')
  PROVE  Fits(step, found, emitted)'
<1>1. SinglesIn(found') => SinglesIn(found)'
  BY ClaimsStay DEF SinglesIn
<1>2. ClaimsIn(found') => ClaimsIn(found)'
  BY ClaimsStay DEF ClaimsIn
<1>3. AllHeld(found', emitted') => AllHeld(found, emitted)'
  BY DEF AllHeld, HeldIn
<1>4. Signed(emitted)' = Signed(emitted') /\ Signs(found)' = Signs(found')
  BY DEF Signed, Signs
<1> QED
  BY <1>1, <1>2, <1>3, <1>4 DEF Fits

\* One sequence after another.
LEMMA Joined ==
  ASSUME NEW S, NEW s \in Seq(S), NEW t \in Seq(S)
  PROVE  /\ s \o t \in Seq(S)
         /\ DOMAIN s \subseteq DOMAIN (s \o t)
         /\ \A i \in DOMAIN s : (s \o t)[i] = s[i]
         /\ \A j \in DOMAIN t : Len(s) + j \in DOMAIN (s \o t) /\ (s \o t)[Len(s) + j] = t[j]
         /\ \A i \in DOMAIN (s \o t) : i \in DOMAIN s \/ \E j \in DOMAIN t : i = Len(s) + j
<1> DEFINE m == Len(s)
           n == Len(t)
           u == s \o t
<1>1. /\ u \in Seq(S) /\ Len(u) = m + n
      /\ \A i \in 1 .. m + n : u[i] = IF i <= m THEN s[i] ELSE t[i - m]
  BY ConcatProperties
<1>2. m \in Nat /\ n \in Nat /\ DOMAIN s = 1 .. m /\ DOMAIN t = 1 .. n /\ DOMAIN u = 1 .. m + n
  BY <1>1, LenProperties
<1> HIDE DEF u, m, n
<1>3. \A i \in 1 .. m : i \in 1 .. m + n /\ u[i] = s[i]
  BY <1>1, <1>2
<1>4. \A j \in 1 .. n : m + j \in 1 .. m + n /\ u[m + j] = t[j]
  <2> SUFFICES ASSUME NEW j \in 1 .. n PROVE m + j \in 1 .. m + n /\ u[m + j] = t[j]
    OBVIOUS
  <2>1. m + j \in 1 .. m + n /\ ~(m + j <= m) /\ (m + j) - m = j
    BY <1>2
  <2> QED
    BY <1>1, <2>1
<1>5. \A i \in 1 .. m + n : i \in 1 .. m \/ \E j \in 1 .. n : i = m + j
  <2> SUFFICES ASSUME NEW i \in 1 .. m + n, i \notin 1 .. m PROVE \E j \in 1 .. n : i = m + j
    OBVIOUS
  <2>1. i - m \in 1 .. n /\ i = m + (i - m)
    BY <1>2
  <2> QED
    BY <2>1
<1> QED
  BY <1>1, <1>2, <1>3, <1>4, <1>5 DEF u, m, n

LEMMA SinglesJoined ==
  ASSUME NEW s \in Seq(Discoveries), NEW t \in Seq(Discoveries), SinglesIn(s), SinglesIn(t),
         \A i \in DOMAIN s, j \in DOMAIN t : Identity(s[i]) # Identity(t[j])
  PROVE  SinglesIn(s \o t)
<1> DEFINE u == s \o t
<1>1. \A i \in DOMAIN u : \/ i \in DOMAIN s /\ u[i] = s[i]
                          \/ \E j \in DOMAIN t : i = Len(s) + j /\ u[i] = t[j]
  BY Joined
<1> HIDE DEF u
<1>2. \A i \in DOMAIN u : Single(u[i])
  BY <1>1 DEF SinglesIn
<1>3. ASSUME NEW i \in DOMAIN u, NEW j \in DOMAIN u, Identity(u[i]) = Identity(u[j]) PROVE i = j
  <2>1. CASE i \in DOMAIN s /\ u[i] = s[i]
    <3>1. j \in DOMAIN s /\ u[j] = s[j]
      BY <1>1, <1>3, <2>1
    <3> QED
      BY <1>3, <2>1, <3>1 DEF SinglesIn
  <2>2. CASE \E k \in DOMAIN t : i = Len(s) + k /\ u[i] = t[k]
    <3>1. PICK k \in DOMAIN t : i = Len(s) + k /\ u[i] = t[k]
      BY <2>2
    <3>2. PICK l \in DOMAIN t : j = Len(s) + l /\ u[j] = t[l]
      BY <1>1, <1>3, <3>1
    <3> QED
      BY <1>3, <3>1, <3>2 DEF SinglesIn
  <2> QED
    BY <1>1, <2>1, <2>2
<1> QED
  BY <1>2, <1>3 DEF SinglesIn, u

LEMMA ClaimsJoined ==
  ASSUME NEW s \in Seq(Discoveries), NEW t \in Seq(Discoveries), ClaimsIn(s), ClaimsIn(t)
  PROVE  ClaimsIn(s \o t)
<1>1. \A i \in DOMAIN (s \o t) : \/ i \in DOMAIN s /\ (s \o t)[i] = s[i]
                                 \/ \E j \in DOMAIN t : (s \o t)[i] = t[j]
  BY Joined
<1> QED
  BY <1>1 DEF ClaimsIn

\* Nothing is claimed of a node.
LEMMA NodesClaimNothing ==
  ASSUME NEW s, \A i \in DOMAIN s : s[i].about \in Nodes PROVE ClaimsIn(s)
<1>1. "api-unchanged" \notin Nodes /\ "no-cross-service" \notin Nodes
  BY DiscoveryAssumption DEF Claims
<1> QED
  BY <1>1 DEF ClaimsIn, Justified

\* Passes that change the measurements of discoveries keep the rest.
LEMMA Remeasured ==
  ASSUME NEW s \in Seq(Discoveries), NEW t, t = [i \in DOMAIN s |-> t[i]],
         \A i \in DOMAIN s :
           /\ t[i] \in Discoveries
           /\ t[i].kind = s[i].kind /\ t[i].about = s[i].about
           /\ t[i].evidence = s[i].evidence /\ t[i].children = s[i].children
  PROVE  /\ t \in Seq(Discoveries) /\ Signs(t) = Signs(s)
         /\ SinglesIn(s) => SinglesIn(t)
         /\ ClaimsIn(s) => ClaimsIn(t)
<1>1. DOMAIN s = 1 .. Len(s) /\ Len(s) \in Nat
  BY LenProperties
<1>2. t \in [1 .. Len(s) -> Discoveries] /\ DOMAIN t = DOMAIN s
  BY <1>1
<1>3. t \in Seq(Discoveries)
  BY <1>1, <1>2, FunctionIsSeq
<1>4. \A i \in DOMAIN s : /\ Sign(t[i]) = Sign(s[i]) /\ Identity(t[i]) = Identity(s[i])
                          /\ Single(s[i]) => Single(t[i])
  BY DEF Sign, Identity, Single
<1>5. Signs(t) = Signs(s)
  BY <1>2, <1>4 DEF Signs
<1>6. SinglesIn(s) => SinglesIn(t)
  BY <1>2, <1>4 DEF SinglesIn
<1>7. ClaimsIn(s) => ClaimsIn(t)
  BY <1>2 DEF ClaimsIn
<1> QED
  BY <1>3, <1>5, <1>6, <1>7

\* Passes that order discoveries by a measurement keep them.
LEMMA Rearranged ==
  ASSUME NEW s \in Seq(Discoveries), NEW key \in [DOMAIN s -> Int]
  PROVE  LET t == SortedBy(s, key) IN
         /\ t \in Seq(Discoveries) /\ Len(t) = Len(s) /\ DOMAIN t = DOMAIN s
         /\ Signs(t) = Signs(s)
         /\ SinglesIn(s) => SinglesIn(t)
         /\ ClaimsIn(s) => ClaimsIn(t)
         /\ \A D : AllHeld(s, D) => AllHeld(t, D)
<1> DEFINE t == SortedBy(s, key)
<1>1. DOMAIN s = 1 .. Len(s) /\ Len(s) \in Nat /\ s \in [1 .. Len(s) -> Discoveries]
  BY LenProperties
<1>2. PICK p : /\ p \in [DOMAIN s -> DOMAIN s]
               /\ t = [k \in DOMAIN s |-> s[p[k]]]
               /\ \A k, l \in DOMAIN s : p[k] = p[l] => k = l
               /\ \A i \in DOMAIN s : \E k \in DOMAIN s : p[k] = i
  <2>1. key \in [1 .. Len(s) -> Int]
    BY <1>1
  <2>2. \E p : Reorders(p, s, t)
    BY <1>1, <2>1, SortRearranges
  <2> QED
    BY <2>2 DEF Reorders
<1> HIDE DEF t
<1>3. DOMAIN t = DOMAIN s /\ \A k \in DOMAIN s : t[k] = s[p[k]] /\ p[k] \in DOMAIN s
  BY <1>2
<1>4. t \in [1 .. Len(s) -> Discoveries]
  BY <1>1, <1>2, <1>3
<1>5. t \in Seq(Discoveries) /\ Len(t) = Len(s)
  BY <1>1, <1>4, FunctionIsSeq
<1>6. Signs(t) = Signs(s)
  BY <1>2, <1>3 DEF Signs
<1>7. SinglesIn(s) => SinglesIn(t)
  BY <1>2, <1>3 DEF SinglesIn
<1>8. ClaimsIn(s) => ClaimsIn(t)
  BY <1>3 DEF ClaimsIn
<1>9. ASSUME NEW D, AllHeld(s, D) PROVE AllHeld(t, D)
  <2>1. ASSUME NEW d \in D PROVE HeldIn(t, d)
    <3>1. PICK i \in DOMAIN s : /\ Tells(s[i], d) /\ d.evidence \subseteq s[i].evidence
                                /\ \A j \in DOMAIN s : Tells(s[j], d) => j = i
      BY <1>9, <2>1 DEF AllHeld, HeldIn
    <3>2. PICK k \in DOMAIN s : p[k] = i
      BY <1>2
    <3>3. t[k] = s[i] /\ k \in DOMAIN t
      BY <1>3, <3>2
    <3>4. ASSUME NEW l \in DOMAIN t, Tells(t[l], d) PROVE l = k
      <4>1. t[l] = s[p[l]] /\ p[l] \in DOMAIN s
        BY <1>3
      <4>2. p[l] = i
        BY <3>1, <3>4, <4>1
      <4> QED
        BY <1>2, <1>3, <3>2, <4>2
    <3> QED
      BY <3>1, <3>3, <3>4 DEF HeldIn
  <2>2. ASSUME NEW k \in DOMAIN t PROVE Contents(t[k]) \subseteq {Identity(d) : d \in D}
    BY <1>3, <1>9 DEF AllHeld
  <2> QED
    BY <2>1, <2>2 DEF AllHeld
<1> QED
  BY <1>3, <1>5, <1>6, <1>7, <1>8, <1>9 DEF t

\* What the pass of the dominant symbols finds.
LEMMA AboutFinds ==
  ASSUME NEW A \in SUBSET Nodes, IsFiniteSet(A), A = Affected, NEW count \in [A -> Nat],
         NEW q \in Tops(count), NEW kind \in {"fan_in", "fan_out"}
  PROVE  /\ About(kind, q, count) \in Seq(Discoveries)
         /\ \A i \in DOMAIN About(kind, q, count) : /\ About(kind, q, count)[i].kind = kind
                                                    /\ About(kind, q, count)[i].about \in Nodes
         /\ SinglesIn(About(kind, q, count))
<1> DEFINE worth == {n \in DOMAIN count : count[n] >= MinFan}
           size == IF Cardinality(worth) < Top THEN Cardinality(worth) ELSE Top
           s == About(kind, q, count)
           e(i) == Discovered(kind, q[i], Least(30 + 5 * count[q[i]], 95), {<<kind, q[i]>>})
<1>1. IsFiniteSet(worth) /\ worth \subseteq A
  <2>1. worth \in SUBSET A
    OBVIOUS
  <2> QED
    BY <2>1, FS_Subset
<1>2. size \in Nat
  <2>1. Cardinality(worth) \in Nat /\ Top \in Nat
    BY <1>1, FS_CardinalityType, DiscoveryAssumption
  <2> QED
    BY <2>1
<1>3. q \in [1 .. size -> worth] /\ \A i, j \in 1 .. size : i < j => q[i] # q[j]
  BY DEF Tops
<1> HIDE DEF size, worth
<1>4. \A i \in 1 .. size : e(i) \in Discoveries
  <2> SUFFICES ASSUME NEW i \in 1 .. size PROVE e(i) \in Discoveries
    OBVIOUS
  <2>1. q[i] \in A /\ q[i] \in Nodes /\ count[q[i]] \in Nat
    BY <1>1, <1>3
  <2>2. \A c \in Nat : Least(30 + 5 * c, 95) \in 0 .. 100
    BY DEF Least
  <2>3. {<<kind, q[i]>>} \in SUBSET Evidence
    BY <2>1 DEF Evidence, FoundKinds
  <2> QED
    BY <2>1, <2>2, <2>3 DEF Discovered, Discoveries, FoundKinds, Subjects
<1>5. DOMAIN s = 1 .. size /\ \A i \in 1 .. size : s[i] = e(i)
  BY <1>3 DEF About
<1>6. s = [i \in 1 .. size |-> e(i)]
  BY <1>3 DEF About
<1>7. s \in [1 .. size -> Discoveries]
  BY <1>4, <1>6
<1>8. s \in Seq(Discoveries)
  BY <1>2, <1>7, FunctionIsSeq
<1>9. \A i \in 1 .. size : /\ s[i].kind = kind /\ s[i].about = q[i] /\ s[i].children = {}
                           /\ q[i] \in A /\ q[i] \in Nodes
  BY <1>1, <1>3, <1>5 DEF Discovered
<1>10. \A i \in 1 .. size : Single(s[i])
  BY <1>9 DEF Single, FoundKinds
<1>11. \A i, j \in 1 .. size : Identity(s[i]) = Identity(s[j]) => i = j
  <2> SUFFICES ASSUME NEW i \in 1 .. size, NEW j \in 1 .. size, Identity(s[i]) = Identity(s[j]), i # j
               PROVE  FALSE
    OBVIOUS
  <2>1. q[i] = q[j]
    BY <1>9 DEF Identity
  <2>2. i < j \/ j < i
    BY <1>2
  <2> QED
    BY <1>3, <2>1, <2>2
<1>12. SinglesIn(s)
  BY <1>5, <1>10, <1>11 DEF SinglesIn
<1> QED
  BY <1>5, <1>8, <1>9, <1>12

LEMMA NothingFound ==
  /\ <<>> \in Seq(Discoveries) /\ SinglesIn(<<>>) /\ ClaimsIn(<<>>)
  /\ \A i \in DOMAIN <<>> : FALSE
<1>1. DOMAIN <<>> = {}
  OBVIOUS
<1>2. <<>> \in Seq(Discoveries)
  BY EmptySeq
<1> QED
  BY <1>1, <1>2 DEF SinglesIn, ClaimsIn

LEMMA DominantFits ==
  ASSUME AnalysisInv, StageInv, stage = "discovery", Fits(step, found, emitted), Dominant
  PROVE  Fits(step', found', emitted')
<1>1. step' = "boundary"
  BY DEF Dominant, Runs
<1>2. SUFFICES /\ found' \in Seq(Discoveries) /\ SinglesIn(found') /\ ClaimsIn(found')
               /\ \A i \in DOMAIN found' : found'[i].kind \in {"fan_in", "fan_out"}
  BY <1>1 DEF Fits, Finding, Weighing
<1> DEFINE d == ocm.dependency
<1>3. /\ d # None /\ Affected \in SUBSET Nodes /\ IsFiniteSet(Affected)
      /\ d.fanIn \in [Affected -> Nat] /\ d.fanOut \in [Affected -> Nat]
  BY DiscoveryGiven
<1>4. PICK i \in Tops(d.fanIn), o \in Tops(d.fanOut) :
        found' = About("fan_in", i, d.fanIn) \o About("fan_out", o, d.fanOut)
  BY <1>3 DEF Dominant
<1> DEFINE s == About("fan_in", i, d.fanIn)
           t == About("fan_out", o, d.fanOut)
<1>5. /\ s \in Seq(Discoveries) /\ SinglesIn(s)
      /\ \A k \in DOMAIN s : s[k].kind = "fan_in" /\ s[k].about \in Nodes
  BY <1>3, AboutFinds
<1>6. /\ t \in Seq(Discoveries) /\ SinglesIn(t)
      /\ \A k \in DOMAIN t : t[k].kind = "fan_out" /\ t[k].about \in Nodes
  BY <1>3, AboutFinds
<1> HIDE DEF s, t
<1>7. \A k \in DOMAIN s, l \in DOMAIN t : Identity(s[k]) # Identity(t[l])
  BY <1>5, <1>6 DEF Identity
<1>8. SinglesIn(s \o t)
  BY <1>5, <1>6, <1>7, SinglesJoined
<1>9. ClaimsIn(s) /\ ClaimsIn(t)
  BY <1>5, <1>6, NodesClaimNothing
<1>10. ClaimsIn(s \o t)
  BY <1>5, <1>6, <1>9, ClaimsJoined
<1>11. \A k \in DOMAIN (s \o t) : (s \o t)[k].kind \in {"fan_in", "fan_out"}
  <2>1. \A k \in DOMAIN (s \o t) : \/ k \in DOMAIN s /\ (s \o t)[k] = s[k]
                                   \/ \E l \in DOMAIN t : (s \o t)[k] = t[l]
    BY <1>5, <1>6, Joined
  <2> QED
    BY <1>5, <1>6, <2>1
<1>12. s \o t \in Seq(Discoveries)
  BY <1>5, <1>6, Joined
<1>13. found' = s \o t
  BY <1>4 DEF s, t
<1> QED
  BY <1>8, <1>10, <1>11, <1>12, <1>13

\* A single claim.
LEMMA OneClaim ==
  ASSUME NEW d \in Discoveries, d.kind = "boundary_invariant", d.about \in Claims, d.children = {},
         Justified(d.about)
  PROVE  /\ <<d>> \in Seq(Discoveries) /\ SinglesIn(<<d>>) /\ ClaimsIn(<<d>>)
         /\ DOMAIN <<d>> = {1} /\ <<d>>[1] = d
<1>1. <<d>> \in Seq(Discoveries) /\ DOMAIN <<d>> = {1} /\ <<d>>[1] = d
  OBVIOUS
<1>2. Single(d)
  BY DEF Single, FoundKinds
<1>3. SinglesIn(<<d>>) /\ ClaimsIn(<<d>>)
  BY <1>1, <1>2 DEF SinglesIn, ClaimsIn
<1> QED
  BY <1>1, <1>3

LEMMA BoundaryFits ==
  ASSUME AnalysisInv, StageInv, stage = "discovery", Fits(step, found, emitted), Boundary
  PROVE  Fits(step', found', emitted')
<1> DEFINE a == IF AnyChanged /\ NoEndpoint THEN <<ApiUnchanged>> ELSE <<>>
           b == IF AnyChanged /\ NoCrossing THEN <<NoCrossService>> ELSE <<>>
           s == found \o a
<1>1. step = "boundary" /\ step' = "gap" /\ found' = s \o b
  BY DEF Boundary, Runs
<1>2. /\ found \in Seq(Discoveries) /\ SinglesIn(found) /\ ClaimsIn(found)
      /\ \A i \in DOMAIN found : found[i].kind \in {"fan_in", "fan_out"}
  BY <1>1 DEF Fits, Finding
<1>3. SUFFICES /\ found' \in Seq(Discoveries) /\ SinglesIn(found') /\ ClaimsIn(found')
               /\ \A i \in DOMAIN found' : found'[i].kind # "validation_gap"
  BY <1>1 DEF Fits, Finding, Weighing
<1>4. /\ ApiUnchanged \in Discoveries /\ ApiUnchanged.kind = "boundary_invariant"
      /\ ApiUnchanged.about = "api-unchanged" /\ ApiUnchanged.children = {}
  <2>1. {"added", "removed", "modified", "api"} \X {None} \in SUBSET Evidence
    BY DEF Evidence
  <2> QED
    BY <2>1 DEF ApiUnchanged, Discovered, Discoveries, FoundKinds, Subjects, Claims
<1>5. /\ NoCrossService \in Discoveries /\ NoCrossService.kind = "boundary_invariant"
      /\ NoCrossService.about = "no-cross-service" /\ NoCrossService.children = {}
  <2>1. {<<"dependency", None>>} \in SUBSET Evidence
    BY DEF Evidence
  <2> QED
    BY <2>1 DEF NoCrossService, Discovered, Discoveries, FoundKinds, Subjects, Claims
<1>6. NoEndpoint => Justified("api-unchanged")
  <2> SUFFICES ASSUME NoEndpoint PROVE endpoints = {} /\ ChangedEndpoints = {}
    BY DEF Justified
  <2>1. ocm.api.rest = {}
    BY DiscoveryGiven DEF NoEndpoint
  <2>2. caps.entrypoints
    BY DEF StageInv, Languages, AllOf
  <2> QED
    BY <2>1, <2>2, EndpointsAreListed DEF EndpointsListed
<1>7. NoCrossing => Justified("no-cross-service")
  <2> SUFFICES ASSUME NoCrossing, NEW n \in affected, NEW m \in callees[n] PROVE m = n
    BY DEF Justified
  <2>1. ocm.dependency.crossing = {} /\ ocm.dependency = DependencyModel /\ Affected \in SUBSET Nodes
    BY DiscoveryGiven DEF NoCrossing
  <2>2. callees \in [Nodes -> SUBSET Nodes] /\ n \in Nodes
    BY <2>1 DEF AnalysisInv, ImpactInv, ImpactTypeOK, Affected
  <2>3. m \in Nodes
    BY <2>2
  <2>4. ~(m \in callees[n] /\ m # n)
    <3>1. {x \in (affected \union ChangedIds) \X Nodes : x[2] \in callees[x[1]] /\ x[2] # x[1]} = {}
      BY <2>1 DEF DependencyModel
    <3>2. <<n, m>> \in (affected \union ChangedIds) \X Nodes
      BY <2>3
    <3> QED
      BY <3>1, <3>2
  <2> QED
    BY <2>4
<1>8. /\ a \in Seq(Discoveries) /\ SinglesIn(a) /\ ClaimsIn(a)
      /\ \A i \in DOMAIN a : a[i] = ApiUnchanged
  <2>1. CASE AnyChanged /\ NoEndpoint
    <3>1. a = <<ApiUnchanged>>
      BY <2>1
    <3>2. /\ <<ApiUnchanged>> \in Seq(Discoveries) /\ SinglesIn(<<ApiUnchanged>>)
          /\ ClaimsIn(<<ApiUnchanged>>)
          /\ DOMAIN <<ApiUnchanged>> = {1} /\ <<ApiUnchanged>>[1] = ApiUnchanged
      BY <1>4, <1>6, <2>1, OneClaim DEF Claims
    <3> QED
      BY <3>1, <3>2
  <2>2. CASE ~(AnyChanged /\ NoEndpoint)
    <3>1. a = <<>>
      BY <2>2
    <3> QED
      BY <3>1, NothingFound
  <2> QED
    BY <2>1, <2>2
<1>9. /\ b \in Seq(Discoveries) /\ SinglesIn(b) /\ ClaimsIn(b)
      /\ \A i \in DOMAIN b : b[i] = NoCrossService
  <2>1. CASE AnyChanged /\ NoCrossing
    <3>1. b = <<NoCrossService>>
      BY <2>1
    <3>2. /\ <<NoCrossService>> \in Seq(Discoveries) /\ SinglesIn(<<NoCrossService>>)
          /\ ClaimsIn(<<NoCrossService>>)
          /\ DOMAIN <<NoCrossService>> = {1} /\ <<NoCrossService>>[1] = NoCrossService
      BY <1>5, <1>7, <2>1, OneClaim DEF Claims
    <3> QED
      BY <3>1, <3>2
  <2>2. CASE ~(AnyChanged /\ NoCrossing)
    <3>1. b = <<>>
      BY <2>2
    <3> QED
      BY <3>1, NothingFound
  <2> QED
    BY <2>1, <2>2
<1> HIDE DEF a, b
<1>10. \A i \in DOMAIN found, j \in DOMAIN a : Identity(found[i]) # Identity(a[j])
  BY <1>2, <1>4, <1>8 DEF Identity
<1>11. s \in Seq(Discoveries) /\ SinglesIn(s) /\ ClaimsIn(s)
  BY <1>2, <1>8, <1>10, Joined, SinglesJoined, ClaimsJoined
<1>12. \A i \in DOMAIN s : s[i].kind \in {"fan_in", "fan_out"} \/ s[i] = ApiUnchanged
  <2>1. \A i \in DOMAIN s : \/ i \in DOMAIN found /\ s[i] = found[i]
                            \/ \E j \in DOMAIN a : s[i] = a[j]
    BY <1>2, <1>8, Joined
  <2> HIDE DEF s
  <2> QED
    BY <1>2, <1>8, <2>1
<1> HIDE DEF s
<1>13. \A i \in DOMAIN s, j \in DOMAIN b : Identity(s[i]) # Identity(b[j])
  BY <1>4, <1>5, <1>9, <1>12 DEF Identity
<1>14. s \o b \in Seq(Discoveries) /\ SinglesIn(s \o b) /\ ClaimsIn(s \o b)
  BY <1>9, <1>11, <1>13, Joined, SinglesJoined, ClaimsJoined
<1>15. \A i \in DOMAIN (s \o b) : (s \o b)[i].kind # "validation_gap"
  <2>1. \A i \in DOMAIN (s \o b) : \/ i \in DOMAIN s /\ (s \o b)[i] = s[i]
                                   \/ \E j \in DOMAIN b : (s \o b)[i] = b[j]
    BY <1>9, <1>11, Joined
  <2> QED
    BY <1>4, <1>5, <1>9, <1>12, <2>1
<1> QED
  BY <1>1, <1>14, <1>15 DEF s

LEMMA GapFits ==
  ASSUME AnalysisInv, StageInv, stage = "discovery", Fits(step, found, emitted), Gap
  PROVE  Fits(step', found', emitted')
<1> DEFINE fan == ocm.dependency.fanOut
           high(d) == d.kind = "fan_out" /\ fan[d.about] >= MinGap
           gap(d) == Discovered("validation_gap", d.about, Least(50 + 5 * fan[d.about], 90),
                                {<<"fan_out", d.about>>, <<"validation", None>>})
           I == {i \in DOMAIN found : high(found[i])}
           s == Those(found, I)
           gaps == [i \in DOMAIN s |-> gap(s[i])]
<1>1. step = "gap" /\ step' = "significance" /\ found' \in {found, found \o gaps}
      /\ emitted' = ToSet(found')
  BY DEF Gap, Runs
<1>2. /\ found \in Seq(Discoveries) /\ SinglesIn(found) /\ ClaimsIn(found)
      /\ \A i \in DOMAIN found : found[i].kind # "validation_gap"
  BY <1>1 DEF Fits, Finding
<1>3. Signed(emitted') = Signs(found')
  BY <1>1 DEF Signed, Signs, ToSet
<1>4. SUFFICES found' \in Seq(Discoveries) /\ SinglesIn(found') /\ ClaimsIn(found')
  BY <1>1, <1>3 DEF Fits, Finding, Weighing
<1>5. Affected \in SUBSET Nodes /\ fan \in [Affected -> Nat]
  BY DiscoveryGiven
<1>6. DOMAIN found = 1 .. Len(found) /\ Len(found) \in Nat /\ I \in SUBSET (1 .. Len(found))
  <2>1. DOMAIN found = 1 .. Len(found) /\ Len(found) \in Nat
    BY <1>2, LenProperties
  <2> QED
    BY <2>1
<1> HIDE DEF fan
<1>7. \A i \in I : found[i].kind = "fan_out" /\ found[i].about \in Affected
  BY <1>2 DEF SinglesIn, Single
<1> DEFINE n == Cardinality(I)
           p == Ascending(I)
<1> HIDE DEF I
<1>8. /\ n \in Nat /\ p \in [1 .. n -> I] /\ DOMAIN s = 1 .. n
      /\ \A k \in 1 .. n : s[k] = found[p[k]]
      /\ \A k, l \in 1 .. n : p[k] = p[l] => k = l
  BY <1>6, ThoseElements
<1> HIDE DEF n, p, s
<1>9. \A k \in 1 .. n : s[k].kind = "fan_out" /\ s[k].about \in Affected
  BY <1>7, <1>8
<1>10. \A k, l \in 1 .. n : s[k].about = s[l].about => k = l
  <2> SUFFICES ASSUME NEW k \in 1 .. n, NEW l \in 1 .. n, s[k].about = s[l].about PROVE k = l
    OBVIOUS
  <2>1. Identity(found[p[k]]) = Identity(found[p[l]])
    BY <1>8, <1>9 DEF Identity
  <2>2. p[k] \in DOMAIN found /\ p[l] \in DOMAIN found
    BY <1>8 DEF I
  <2> QED
    BY <1>2, <1>8, <2>1, <2>2 DEF SinglesIn
<1>11. \A k \in 1 .. n : gap(s[k]) \in Discoveries
  <2> SUFFICES ASSUME NEW k \in 1 .. n PROVE gap(s[k]) \in Discoveries
    OBVIOUS
  <2> DEFINE a == s[k].about
  <2>1. a \in Affected /\ a \in Nodes /\ fan[a] \in Nat
    BY <1>5, <1>9
  <2>2. \A c \in Nat : Least(50 + 5 * c, 90) \in 0 .. 100
    BY DEF Least
  <2> HIDE DEF a
  <2>3. {<<"fan_out", a>>, <<"validation", None>>} \in SUBSET Evidence
    BY <2>1 DEF Evidence, FoundKinds
  <2>4. Least(50 + 5 * fan[a], 90) \in 0 .. 100
    BY <2>1, <2>2
  <2>5. Discovered("validation_gap", a, Least(50 + 5 * fan[a], 90),
                   {<<"fan_out", a>>, <<"validation", None>>}) \in Discoveries
    BY <2>1, <2>3, <2>4 DEF Discovered, Discoveries, FoundKinds, Subjects
  <2> QED
    BY <2>5 DEF a
<1>12. DOMAIN gaps = 1 .. n /\ \A k \in 1 .. n : gaps[k] = gap(s[k])
  BY <1>8
<1>13. gaps \in [1 .. n -> Discoveries]
  BY <1>8, <1>11
<1>14. gaps \in Seq(Discoveries)
  BY <1>8, <1>13, FunctionIsSeq
<1>15. \A k \in 1 .. n : /\ gaps[k].kind = "validation_gap" /\ gaps[k].about = s[k].about
                         /\ gaps[k].children = {}
  BY <1>12 DEF Discovered
<1> HIDE DEF gaps
<1>16. SinglesIn(gaps)
  <2>1. \A k \in 1 .. n : Single(gaps[k])
    BY <1>9, <1>15 DEF Single, FoundKinds
  <2>2. \A k, l \in 1 .. n : Identity(gaps[k]) = Identity(gaps[l]) => k = l
    BY <1>10, <1>15 DEF Identity
  <2> QED
    BY <1>12, <2>1, <2>2 DEF SinglesIn
<1>17. ClaimsIn(gaps)
  BY <1>5, <1>9, <1>12, <1>15, NodesClaimNothing
<1>18. \A i \in DOMAIN found, j \in DOMAIN gaps : Identity(found[i]) # Identity(gaps[j])
  BY <1>2, <1>12, <1>15 DEF Identity
<1>19. found \o gaps \in Seq(Discoveries) /\ SinglesIn(found \o gaps) /\ ClaimsIn(found \o gaps)
  BY <1>2, <1>14, <1>16, <1>17, <1>18, Joined, SinglesJoined, ClaimsJoined
<1> QED
  BY <1>1, <1>2, <1>19

LEMMA SignificanceFits ==
  ASSUME AnalysisInv, StageInv, stage = "discovery", Fits(step, found, emitted), Significance
  PROVE  Fits(step', found', emitted')
<1> DEFINE fan(d) == IF d.about \in Nodes /\ ocm.dependency # None
                     THEN ocm.dependency.fanOut[d.about] ELSE 0
           e(i) == [found[i] EXCEPT !.fanOut = fan(found[i])]
<1>1. step = "significance" /\ step' = "ranking" /\ emitted' = emitted
      /\ found' = [i \in DOMAIN found |-> e(i)]
  BY DEF Significance, Runs
<1>2. /\ found \in Seq(Discoveries) /\ SinglesIn(found) /\ ClaimsIn(found)
      /\ Signed(emitted) = Signs(found)
  BY <1>1 DEF Fits, Weighing
<1>3. \A i \in DOMAIN found : found[i] \in Discoveries
  BY <1>2, LenProperties, ElementOfSeq
<1>4. \A i \in DOMAIN found : fan(found[i]) \in Nat
  <2> SUFFICES ASSUME NEW i \in DOMAIN found, found[i].about \in Nodes
               PROVE  ocm.dependency.fanOut[found[i].about] \in Nat
    OBVIOUS
  <2>1. found[i].about \in Affected
    BY <1>2, DiscoveryAssumption DEF SinglesIn, Single
  <2> QED
    BY <2>1, DiscoveryGiven
<1> HIDE DEF fan
<1>5. \A i \in DOMAIN found :
        /\ e(i) \in Discoveries
        /\ e(i).kind = found[i].kind /\ e(i).about = found[i].about
        /\ e(i).evidence = found[i].evidence /\ e(i).children = found[i].children
  BY <1>3, <1>4 DEF Discoveries
<1> HIDE DEF e
<1>6. found' = [i \in DOMAIN found |-> found'[i]] /\ \A i \in DOMAIN found : found'[i] = e(i)
  BY <1>1
<1>7. /\ found' \in Seq(Discoveries) /\ Signs(found') = Signs(found)
      /\ SinglesIn(found') /\ ClaimsIn(found')
  BY <1>2, <1>5, <1>6, Remeasured
<1> QED
  BY <1>1, <1>2, <1>7 DEF Fits, Finding, Weighing

LEMMA EvidenceCounted ==
  ASSUME NEW d \in Discoveries
  PROVE  IsFiniteSet(d.evidence) /\ Cardinality(d.evidence) \in Nat
<1>1. IsFiniteSet(Nodes \union {None})
  BY ImpactAssumption, FS_AddElement
<1>2. IsFiniteSet(FoundKinds \union {"validation", "dependency", "added", "removed", "modified", "api"})
  <2> DEFINE a == {"validation", "dependency", "added", "removed", "modified", "api"}
             b == FoundKinds
  <2>1. IsFiniteSet(a)
    <3>1. IsFiniteSet({"validation"} \union {"dependency"} \union {"added"})
      BY FS_Singleton, FS_AddElement
    <3>2. IsFiniteSet({"removed"} \union {"modified"} \union {"api"})
      BY FS_Singleton, FS_AddElement
    <3>3. a = ({"validation"} \union {"dependency"} \union {"added"})
              \union ({"removed"} \union {"modified"} \union {"api"})
      OBVIOUS
    <3>4. IsFiniteSet(({"validation"} \union {"dependency"} \union {"added"})
                      \union ({"removed"} \union {"modified"} \union {"api"}))
      BY <3>1, <3>2, FS_Union
    <3> QED
      BY <3>3, <3>4
  <2>2. IsFiniteSet(b)
    <3>1. b = {} \union {"fan_in"} \union {"fan_out"} \union {"boundary_invariant"} \union {"validation_gap"}
      BY DEF FoundKinds
    <3> QED
      BY <3>1, FS_EmptySet, FS_AddElement
  <2> HIDE DEF a, b
  <2>3. IsFiniteSet(b \union a)
    BY <2>1, <2>2, FS_Union
  <2> QED
    BY <2>3 DEF a, b
<1>3. IsFiniteSet(Evidence)
  BY <1>1, <1>2, FS_Product DEF Evidence
<1>4. d.evidence \in SUBSET Evidence
  BY DEF Discoveries
<1>5. IsFiniteSet(d.evidence)
  BY <1>3, <1>4, FS_Subset
<1> QED
  BY <1>5, FS_CardinalityType

\* A quotient is no larger than its bound.
LEMMA Quotient ==
  ASSUME NEW a \in Nat, NEW b \in Nat \ {0}, a < 101 * b
  PROVE  a \div b \in 0 .. 100
<1> DEFINE q == a \div b
<1>1. q \in Int /\ b * q <= a /\ a < b * (q + 1)
  OBVIOUS
<1> HIDE DEF q
<1>2. q < 101
  <2> SUFFICES ASSUME q >= 101 PROVE FALSE
    BY <1>1
  <2>1. b * q >= b * 101
    BY <1>1
  <2> QED
    BY <1>1, <2>1
<1>3. q >= 0
  <2> SUFFICES ASSUME q + 1 <= 0 PROVE FALSE
    BY <1>1
  <2>1. b * (q + 1) <= 0
    BY <1>1
  <2> QED
    BY <1>1, <2>1
<1> QED
  BY <1>1, <1>2, <1>3 DEF q

LEMMA PositionBound ==
  ASSUME NEW n \in Nat, NEW i \in 1 .. n PROVE Position(i, n) \in 0 .. 100
<1>1. CASE n = 1
  BY <1>1 DEF Position
<1>2. CASE n # 1
  <2> DEFINE b == n - 1
             h == b \div 2
             a == 100 * (n - i) + h
  <2>1. b \in Nat \ {0} /\ n - i \in 0 .. b
    BY <1>2
  <2> HIDE DEF b
  <2>2. h \in Nat /\ h < b
    BY <2>1
  <2> HIDE DEF h
  <2>3. a \in Nat /\ a < 101 * b
    BY <2>1, <2>2
  <2> HIDE DEF a
  <2>4. a \div b \in 0 .. 100
    BY <2>1, <2>3, Quotient
  <2> QED
    BY <1>2, <2>4 DEF Position, a, b, h
<1> QED
  BY <1>1, <1>2

LEMMA RankingFits ==
  ASSUME Fits(step, found, emitted), Ranking
  PROVE  Fits(step', found', emitted')
<1> DEFINE key == [i \in DOMAIN found |-> -RankingKey(found[i])]
           s == SortedBy(found, key)
           e(i) == [s[i] EXCEPT !.importance = Position(i, Len(s))]
<1>1. step = "ranking" /\ step' = "surprise" /\ emitted' = emitted
      /\ found' = [i \in DOMAIN s |-> e(i)]
  BY DEF Ranking, Runs
<1>2. /\ found \in Seq(Discoveries) /\ SinglesIn(found) /\ ClaimsIn(found)
      /\ Signed(emitted) = Signs(found)
  BY <1>1 DEF Fits, Weighing
<1>3. \A i \in DOMAIN found : found[i] \in Discoveries
  BY <1>2, LenProperties, ElementOfSeq
<1>4. key \in [DOMAIN found -> Int]
  <2> SUFFICES ASSUME NEW i \in DOMAIN found PROVE -RankingKey(found[i]) \in Int
    OBVIOUS
  <2>1. Cardinality(found[i].evidence) \in Nat
    BY <1>3, EvidenceCounted
  <2>2. RankingKey(found[i]) \in Int
    BY <2>1 DEF RankingKey
  <2> QED
    BY <2>2
<1> HIDE DEF key
<1>5. /\ s \in Seq(Discoveries) /\ Signs(s) = Signs(found) /\ SinglesIn(s) /\ ClaimsIn(s)
  BY <1>2, <1>4, Rearranged
<1> HIDE DEF s
<1>6. DOMAIN s = 1 .. Len(s) /\ Len(s) \in Nat /\ \A i \in DOMAIN s : s[i] \in Discoveries
  BY <1>5, LenProperties, ElementOfSeq
<1>7. \A i \in DOMAIN s :
        /\ e(i) \in Discoveries
        /\ e(i).kind = s[i].kind /\ e(i).about = s[i].about
        /\ e(i).evidence = s[i].evidence /\ e(i).children = s[i].children
  <2>1. \A i \in DOMAIN s : Position(i, Len(s)) \in 0 .. 100
    BY <1>6, PositionBound
  <2> QED
    BY <1>6, <2>1 DEF Discoveries
<1> HIDE DEF e
<1>8. found' = [i \in DOMAIN s |-> found'[i]] /\ \A i \in DOMAIN s : found'[i] = e(i)
  BY <1>1
<1>9. /\ found' \in Seq(Discoveries) /\ Signs(found') = Signs(s)
      /\ SinglesIn(found') /\ ClaimsIn(found')
  BY <1>5, <1>7, <1>8, Remeasured
<1> QED
  BY <1>1, <1>2, <1>5, <1>9 DEF Fits, Finding, Weighing

LEMMA SurpriseFits ==
  ASSUME Fits(step, found, emitted), Surprise
  PROVE  Fits(step', found', emitted')
<1> DEFINE e(i) == IF Surprising(found[i])
                   THEN [found[i] EXCEPT !.importance = Boosted(found[i].importance)]
                   ELSE found[i]
<1>1. step = "surprise" /\ step' = "compression" /\ emitted' = emitted
      /\ found' = [i \in DOMAIN found |-> e(i)]
  BY DEF Surprise, Runs
<1>2. /\ found \in Seq(Discoveries) /\ SinglesIn(found) /\ ClaimsIn(found)
      /\ Signed(emitted) = Signs(found)
  BY <1>1 DEF Fits, Weighing
<1>3. \A i \in DOMAIN found : found[i] \in Discoveries
  BY <1>2, LenProperties, ElementOfSeq
<1>4. \A i \in DOMAIN found :
        /\ e(i) \in Discoveries
        /\ e(i).kind = found[i].kind /\ e(i).about = found[i].about
        /\ e(i).evidence = found[i].evidence /\ e(i).children = found[i].children
  <2>1. \A n \in 0 .. 100 : Boosted(n) \in 0 .. 100
    BY DEF Boosted, Least
  <2> QED
    BY <1>3, <2>1 DEF Discoveries
<1> HIDE DEF e
<1>5. found' = [i \in DOMAIN found |-> found'[i]] /\ \A i \in DOMAIN found : found'[i] = e(i)
  BY <1>1
<1>6. /\ found' \in Seq(Discoveries) /\ Signs(found') = Signs(found)
      /\ SinglesIn(found') /\ ClaimsIn(found')
  BY <1>2, <1>4, <1>5, Remeasured
<1> QED
  BY <1>1, <1>2, <1>6 DEF Fits, Finding, Weighing

LEMMA BuildFits ==
  ASSUME Fits(step, found, emitted), BuildIR
  PROVE  Fits(step', found', emitted')
<1> DEFINE key == [i \in DOMAIN found |-> -found[i].importance]
<1>1. step = "build" /\ step' = "end" /\ emitted' = emitted /\ found' = SortedBy(found, key)
  BY DEF BuildIR, Runs
<1>2. found \in Seq(Discoveries) /\ AllHeld(found, emitted) /\ ClaimsIn(found)
  BY <1>1 DEF Fits
<1>3. \A i \in DOMAIN found : found[i] \in Discoveries
  BY <1>2, LenProperties, ElementOfSeq
<1>4. \A i \in DOMAIN found : found[i].importance \in 0 .. 100
  BY <1>3 DEF Discoveries
<1>5. \A n \in 0 .. 100 : -n \in Int
  OBVIOUS
<1>6. key \in [DOMAIN found -> Int]
  BY <1>4, <1>5
<1> HIDE DEF key
<1>7. found' \in Seq(Discoveries) /\ ClaimsIn(found') /\ AllHeld(found', emitted)
  BY <1>1, <1>2, <1>6, Rearranged
<1> QED
  BY <1>1, <1>7 DEF Fits, Finding, Weighing

\* A group stands for the discoveries of its kind.
LEMMA GroupOfKind ==
  ASSUME found \in Seq(Discoveries), SinglesIn(found), Affected \in SUBSET Nodes,
         NEW kind \in Compressed
  PROVE  LET r == Compress(OfKind(kind)) IN
         /\ r \in Discoveries /\ r.kind = "compressed" /\ r.about = kind
         /\ r.children = {Identity(found[i]) : i \in Members(kind)}
         /\ \A i \in Members(kind) : found[i].evidence \subseteq r.evidence
<1> DEFINE I == Members(kind)
           m == Cardinality(I)
           p == Ascending(I)
           g == OfKind(kind)
           r == Compress(g)
<1>1. DOMAIN found = 1 .. Len(found) /\ Len(found) \in Nat
      /\ \A i \in DOMAIN found : found[i] \in Discoveries
  BY LenProperties, ElementOfSeq
<1>2. I \in SUBSET (1 .. Len(found)) /\ g = Those(found, I)
  BY <1>1 DEF Members, OfKind
<1>3. \A i \in I : found[i] \in Discoveries /\ found[i].kind = kind /\ Single(found[i])
  BY <1>1 DEF Members, SinglesIn
<1>4. kind \in FoundKinds /\ m >= MinGroup /\ MinGroup \in Nat \ {0}
  BY DiscoveryAssumption DEF Compressed
<1> HIDE DEF I
<1>5. /\ m \in Nat /\ p \in [1 .. m -> I] /\ DOMAIN g = 1 .. m
      /\ \A k \in 1 .. m : g[k] = found[p[k]]
      /\ \A i \in I : \E k \in 1 .. m : p[k] = i
  BY <1>1, <1>2, ThoseElements
<1>6. g = [k \in 1 .. m |-> found[p[k]]]
  BY <1>2 DEF Those
<1> HIDE DEF m, p, g
<1>7. \A k \in 1 .. m : g[k] \in Discoveries /\ g[k].kind = kind /\ Single(g[k])
  BY <1>3, <1>5
<1>8. g \in [1 .. m -> Discoveries]
  BY <1>3, <1>5, <1>6
<1>9. g \in Seq(Discoveries) /\ Len(g) = m
  BY <1>5, <1>8, FunctionIsSeq
<1>10. m \in Nat \ {0} /\ 1 \in 1 .. m
  BY <1>4, <1>5
<1>11. (2 * Totals(g)[m] + m) \div (2 * m) \in 0 .. 100
  <2>1. \A k \in 1 .. m : g[k].importance \in 0 .. 100
    BY <1>7 DEF Discoveries
  <2>2. Totals(g)[m] \in 0 .. 100 * m
    BY <1>5, <1>9, <2>1, TotalsBound
  <2> DEFINE t == Totals(g)[m]
             a == 2 * t + m
             b == 2 * m
  <2>3. t \in 0 .. 100 * m
    BY <2>2
  <2> HIDE DEF t
  <2>4. a \in Nat /\ b \in Nat \ {0} /\ a < 101 * b
    BY <1>10, <2>3
  <2> HIDE DEF a, b
  <2>5. a \div b \in 0 .. 100
    BY <2>4, Quotient
  <2> QED
    BY <2>5 DEF a, b, t
<1>12. r.kind = "compressed" /\ r.about = kind
  BY <1>7, <1>10 DEF Compress
<1>13. r.children = {Identity(found[i]) : i \in I}
  <2>1. r.children = {Identity(g[k]) : k \in 1 .. m}
    BY <1>5 DEF Compress
  <2> HIDE DEF r
  <2> QED
    BY <1>5, <2>1
<1>14. \A i \in I : found[i].evidence \subseteq r.evidence
  <2>1. r.evidence = UNION {g[k].evidence : k \in 1 .. m}
    BY <1>5 DEF Compress
  <2> HIDE DEF r
  <2> SUFFICES ASSUME NEW i \in I PROVE found[i].evidence \subseteq r.evidence
    OBVIOUS
  <2>2. PICK k \in 1 .. m : p[k] = i
    BY <1>5
  <2>3. g[k] = found[i]
    BY <1>5, <2>2
  <2> QED
    BY <2>1, <2>3
<1>15. r \in Discoveries
  <2>1. UNION {g[k].evidence : k \in 1 .. m} \in SUBSET Evidence
    BY <1>7 DEF Discoveries
  <2>2. {Identity(g[k]) : k \in 1 .. m} \in SUBSET (FoundKinds \X Subjects)
    <3> SUFFICES ASSUME NEW k \in 1 .. m PROVE Identity(g[k]) \in FoundKinds \X Subjects
      OBVIOUS
    <3>1. g[k].about \in Subjects
      BY <1>7 DEF Single, Subjects
    <3> QED
      BY <1>4, <1>7, <3>1 DEF Identity
  <2>3. g[1].fanOut \in Nat
    BY <1>7, <1>10 DEF Discoveries
  <2>4. r = [kind |-> "compressed", about |-> kind,
             importance |-> (2 * Totals(g)[m] + m) \div (2 * m),
             evidence |-> UNION {g[k].evidence : k \in 1 .. m},
             fanOut |-> g[1].fanOut,
             children |-> {Identity(g[k]) : k \in 1 .. m}]
    BY <1>5, <1>7, <1>9, <1>10 DEF Compress
  <2> QED
    BY <1>4, <1>11, <2>1, <2>2, <2>3, <2>4 DEF Discoveries
<1> QED
  BY <1>12, <1>13, <1>14, <1>15 DEF r, g, I

\* Each kind that is compressed has a first member.
LEMMA FirstOfKind ==
  ASSUME found \in Seq(Discoveries), NEW kind \in Compressed
  PROVE  \E i \in Members(kind) : \A j \in Members(kind) : i <= j
<1>1. DOMAIN found = 1 .. Len(found) /\ Len(found) \in Nat
  BY LenProperties
<1>2. Members(kind) \in SUBSET Nat /\ Members(kind) \in SUBSET (1 .. Len(found))
  BY <1>1 DEF Members
<1>3. Cardinality(Members(kind)) # 0
  BY DiscoveryAssumption DEF Compressed
<1>4. Members(kind) # {}
  BY <1>3, FS_EmptySet
<1> QED
  BY <1>2, <1>4, LeastNumber

LEMMA CompressionFits ==
  ASSUME AnalysisInv, StageInv, stage = "discovery", Fits(step, found, emitted), Compression
  PROVE  Fits(step', found', emitted')
<1> DEFINE L == {i \in DOMAIN found : found[i].kind \notin Compressed}
           F == {i \in DOMAIN found \ L : \A j \in Members(found[i].kind) : i <= j}
           n == Len(found)
           u == Those(found, L)
           groups == Those(found, F)
           v == [k \in DOMAIN groups |-> Compress(OfKind(groups[k].kind))]
<1>1. step = "compression" /\ step' = "build" /\ emitted' = emitted /\ found' = u \o v
  BY DEF Compression, Runs
<1>2. /\ found \in Seq(Discoveries) /\ SinglesIn(found) /\ ClaimsIn(found)
      /\ Signed(emitted) = Signs(found)
  BY <1>1 DEF Fits, Weighing
<1>3. DOMAIN found = 1 .. n /\ n \in Nat /\ \A i \in DOMAIN found : found[i] \in Discoveries
  BY <1>2, LenProperties, ElementOfSeq
<1>4. L \in SUBSET (1 .. n) /\ F \in SUBSET (1 .. n)
  BY <1>3
<1>5. \A i \in F : i \in DOMAIN found /\ found[i].kind \in Compressed
  OBVIOUS
<1>6. \A i, j \in F : found[i].kind = found[j].kind => i = j
  <2> SUFFICES ASSUME NEW i \in F, NEW j \in F, found[i].kind = found[j].kind PROVE i = j
    OBVIOUS
  <2>1. j \in Members(found[i].kind) /\ i \in Members(found[j].kind)
    BY DEF Members
  <2>2. i <= j /\ j <= i /\ i \in 1 .. n /\ j \in 1 .. n
    BY <1>4, <2>1
  <2> QED
    BY <2>2
<1>7. \A kind \in Compressed : \E i \in F : found[i].kind = kind
  <2> SUFFICES ASSUME NEW kind \in Compressed PROVE \E i \in F : found[i].kind = kind
    OBVIOUS
  <2>1. PICK i \in Members(kind) : \A j \in Members(kind) : i <= j
    BY <1>2, FirstOfKind
  <2>2. i \in DOMAIN found /\ found[i].kind = kind /\ i \notin L
    BY DEF Members
  <2> QED
    BY <2>1, <2>2
<1>8. \A i \in L : i \in DOMAIN found /\ found[i].kind \notin Compressed
  OBVIOUS
<1>8a. \A i \in DOMAIN found : found[i].kind \notin Compressed => i \in L
  OBVIOUS
<1> HIDE DEF L, F
<1> DEFINE p == Ascending(L)
           q == Ascending(F)
           a == Cardinality(L)
           b == Cardinality(F)
<1>9. /\ a \in Nat /\ p \in [1 .. a -> L] /\ DOMAIN u = 1 .. a
      /\ \A k \in 1 .. a : u[k] = found[p[k]]
      /\ \A i \in L : \E k \in 1 .. a : p[k] = i
      /\ \A k, l \in 1 .. a : p[k] = p[l] => k = l
  BY <1>3, <1>4, ThoseElements
<1>10. /\ b \in Nat /\ q \in [1 .. b -> F] /\ DOMAIN groups = 1 .. b
       /\ \A k \in 1 .. b : groups[k] = found[q[k]]
       /\ \A i \in F : \E k \in 1 .. b : q[k] = i
       /\ \A k, l \in 1 .. b : q[k] = q[l] => k = l
  BY <1>3, <1>4, ThoseElements
<1>11. u = [k \in 1 .. a |-> found[p[k]]]
  BY DEF Those
<1> DEFINE kindOf(k) == groups[k].kind
<1>12. /\ DOMAIN v = 1 .. b
       /\ \A k \in 1 .. b : v[k] = Compress(OfKind(kindOf(k)))
       /\ v = [k \in 1 .. b |-> Compress(OfKind(kindOf(k)))]
  BY <1>10
<1>13. \A k \in 1 .. b : kindOf(k) \in Compressed /\ kindOf(k) = found[q[k]].kind
  BY <1>5, <1>10
<1>14. \A k, l \in 1 .. b : kindOf(k) = kindOf(l) => k = l
  BY <1>6, <1>10, <1>13
<1>15. \A kind \in Compressed : \E k \in 1 .. b : kindOf(k) = kind
  BY <1>7, <1>10
<1> HIDE DEF p, q, a, b, u, v, groups, kindOf
<1>16. \A k \in 1 .. b :
         /\ v[k] \in Discoveries /\ v[k].kind = "compressed" /\ v[k].about = kindOf(k)
         /\ v[k].children = {Identity(found[i]) : i \in Members(kindOf(k))}
         /\ \A i \in Members(kindOf(k)) : found[i].evidence \subseteq v[k].evidence
  <2>1. Affected \in SUBSET Nodes
    BY DiscoveryGiven
  <2> QED
    BY <1>2, <1>12, <1>13, <2>1, GroupOfKind
<1>17. u \in Seq(Discoveries)
  <2>1. u \in [1 .. a -> Discoveries]
    BY <1>3, <1>8, <1>9, <1>11
  <2> QED
    BY <1>9, <2>1, FunctionIsSeq
<1>18. v \in Seq(Discoveries)
  <2>1. v \in [1 .. b -> Discoveries]
    BY <1>12, <1>16
  <2> QED
    BY <1>10, <2>1, FunctionIsSeq
<1> DEFINE w == u \o v
<1>19. /\ w \in Seq(Discoveries)
       /\ \A x \in 1 .. a : x \in DOMAIN w /\ w[x] = u[x]
       /\ \A y \in 1 .. b : Len(u) + y \in DOMAIN w /\ w[Len(u) + y] = v[y]
       /\ \A x \in DOMAIN w : \/ x \in 1 .. a /\ w[x] = u[x]
                              \/ \E y \in 1 .. b : x = Len(u) + y /\ w[x] = v[y]
  <2>1. /\ w \in Seq(Discoveries) /\ DOMAIN u \subseteq DOMAIN w
        /\ \A i \in DOMAIN u : w[i] = u[i]
        /\ \A j \in DOMAIN v : Len(u) + j \in DOMAIN w /\ w[Len(u) + j] = v[j]
        /\ \A i \in DOMAIN w : i \in DOMAIN u \/ \E j \in DOMAIN v : i = Len(u) + j
    BY <1>17, <1>18, Joined
  <2> HIDE DEF w
  <2>2. DOMAIN u = 1 .. a /\ DOMAIN v = 1 .. b
    BY <1>9, <1>12
  <2> QED
    BY <2>1, <2>2
<1> HIDE DEF w
<1>20. \A k \in 1 .. a : /\ p[k] \in DOMAIN found /\ u[k] = found[p[k]] /\ Single(u[k])
                         /\ u[k].kind \notin Compressed
  BY <1>2, <1>8, <1>9 DEF SinglesIn
<1>21. \A d \in emitted : \E i \in DOMAIN found : Sign(d) = Sign(found[i])
  <2>1. \A d \in emitted : Sign(d) \in Signs(found)
    BY <1>2 DEF Signed
  <2> QED
    BY <2>1 DEF Signs
<1>22. \A i \in DOMAIN found : \E d \in emitted : Sign(d) = Sign(found[i])
  <2>1. \A i \in DOMAIN found : Sign(found[i]) \in Signed(emitted)
    BY <1>2 DEF Signs
  <2> QED
    BY <2>1 DEF Signed
<1>23. \A i \in DOMAIN found : Identity(found[i]) \in {Identity(d) : d \in emitted}
  BY <1>22 DEF Sign, Identity
<1>24. ClaimsIn(w)
  <2>1. ClaimsIn(u)
    BY <1>2, <1>9, <1>20 DEF ClaimsIn
  <2>2. ClaimsIn(v)
    <3>1. \A k \in 1 .. b : v[k].about \in FoundKinds
      BY <1>13, <1>16 DEF Compressed
    <3> QED
      BY <1>12, <3>1 DEF ClaimsIn, Justified, FoundKinds
  <2> QED
    BY <1>17, <1>18, <2>1, <2>2, ClaimsJoined DEF w
<1>25. ASSUME NEW x \in DOMAIN w PROVE Contents(w[x]) \subseteq {Identity(d) : d \in emitted}
  <2>1. CASE x \in 1 .. a /\ w[x] = u[x]
    <3>1. w[x] = found[p[x]] /\ p[x] \in DOMAIN found /\ w[x].kind # "compressed"
      BY <1>20, <2>1 DEF Single, FoundKinds
    <3> QED
      BY <1>23, <3>1 DEF Contents
  <2>2. CASE \E y \in 1 .. b : w[x] = v[y]
    <3>1. PICK y \in 1 .. b : w[x] = v[y]
      BY <2>2
    <3>2. Contents(w[x]) = {Identity(found[i]) : i \in Members(kindOf(y))}
      BY <1>16, <3>1 DEF Contents
    <3>3. \A i \in Members(kindOf(y)) : i \in DOMAIN found
      BY DEF Members
    <3> QED
      BY <1>23, <3>2, <3>3
  <2> QED
    BY <1>19, <2>1, <2>2
<1>26. ASSUME NEW d \in emitted PROVE HeldIn(w, d)
  <2>1. PICK i \in DOMAIN found : Sign(d) = Sign(found[i])
    BY <1>21
  <2>2. Identity(d) = Identity(found[i]) /\ d.evidence = found[i].evidence /\ d.kind = found[i].kind
        /\ d.kind \in FoundKinds
    BY <1>2, <2>1 DEF Sign, Identity, SinglesIn, Single
  <2>3. \A x \in 1 .. a : Tells(u[x], d) => p[x] = i
    <3> SUFFICES ASSUME NEW x \in 1 .. a, Tells(u[x], d) PROVE p[x] = i
      OBVIOUS
    <3>1. Identity(d) = Identity(found[p[x]])
      BY <1>20 DEF Tells, Single
    <3> QED
      BY <1>2, <1>20, <2>2, <3>1 DEF SinglesIn
  <2>4. \A y \in 1 .. b : Tells(v[y], d) <=> kindOf(y) = d.kind
    <3> SUFFICES ASSUME NEW y \in 1 .. b PROVE Tells(v[y], d) <=> kindOf(y) = d.kind
      OBVIOUS
    <3>1. Identity(d) # Identity(v[y])
      BY <1>16, <2>2 DEF Identity, FoundKinds
    <3>2. ASSUME Identity(d) \in v[y].children PROVE kindOf(y) = d.kind
      <4>1. PICK j \in Members(kindOf(y)) : Identity(d) = Identity(found[j])
        BY <1>16, <3>2
      <4> QED
        BY <4>1 DEF Members, Identity
    <3>3. ASSUME kindOf(y) = d.kind PROVE Identity(d) \in v[y].children
      <4>1. i \in Members(kindOf(y))
        BY <2>2, <3>3 DEF Members
      <4> QED
        BY <1>16, <2>2, <4>1
    <3> QED
      BY <3>1, <3>2, <3>3 DEF Tells
  <2>5. CASE d.kind \notin Compressed
    <3>1. i \in L
      BY <1>8a, <2>2, <2>5
    <3>2. PICK k \in 1 .. a : p[k] = i
      BY <1>9, <3>1
    <3>3. k \in DOMAIN w /\ w[k] = found[i]
      BY <1>19, <1>20, <3>2
    <3>4. ASSUME NEW x \in DOMAIN w, Tells(w[x], d) PROVE x = k
      <4>1. CASE x \in 1 .. a /\ w[x] = u[x]
        <5>1. p[x] = p[k]
          BY <2>3, <3>2, <3>4, <4>1
        <5> QED
          BY <1>9, <4>1, <5>1
      <4>2. CASE \E y \in 1 .. b : x = Len(u) + y /\ w[x] = v[y]
        <5>1. PICK y \in 1 .. b : w[x] = v[y]
          BY <4>2
        <5>2. kindOf(y) = d.kind /\ kindOf(y) \in Compressed
          BY <1>13, <2>4, <3>4, <5>1
        <5> QED
          BY <2>5, <5>2
      <4> QED
        BY <1>19, <4>1, <4>2
    <3>5. Tells(w[k], d) /\ d.evidence \subseteq w[k].evidence
      BY <2>2, <3>3 DEF Tells
    <3> QED
      BY <3>3, <3>4, <3>5 DEF HeldIn
  <2>6. CASE d.kind \in Compressed
    <3>1. PICK k \in 1 .. b : kindOf(k) = d.kind
      BY <1>15, <2>6
    <3> DEFINE z == Len(u) + k
    <3>2. z \in DOMAIN w /\ w[z] = v[k]
      BY <1>19
    <3>3. Tells(w[z], d)
      BY <2>4, <3>1, <3>2
    <3>4. d.evidence \subseteq w[z].evidence
      <4>1. i \in Members(kindOf(k))
        BY <2>2, <3>1 DEF Members
      <4> QED
        BY <1>16, <2>2, <3>2, <4>1
    <3>5. ASSUME NEW x \in DOMAIN w, Tells(w[x], d) PROVE x = z
      <4>1. CASE x \in 1 .. a /\ w[x] = u[x]
        <5>1. p[x] = i
          BY <2>3, <3>5, <4>1
        <5>2. found[i].kind \notin Compressed
          BY <1>20, <4>1, <5>1
        <5> QED
          BY <2>2, <2>6, <5>2
      <4>2. CASE \E y \in 1 .. b : x = Len(u) + y /\ w[x] = v[y]
        <5>1. PICK y \in 1 .. b : x = Len(u) + y /\ w[x] = v[y]
          BY <4>2
        <5>2. kindOf(y) = kindOf(k)
          BY <2>4, <3>1, <3>5, <5>1
        <5> QED
          BY <1>14, <5>1, <5>2
      <4> QED
        BY <1>19, <4>1, <4>2
    <3> HIDE DEF z
    <3> QED
      BY <3>2, <3>3, <3>4, <3>5 DEF HeldIn
  <2> QED
    BY <2>5, <2>6
<1>27. AllHeld(w, emitted)
  BY <1>25, <1>26 DEF AllHeld
<1>28. found' = w
  BY <1>1 DEF w
<1> QED
  BY <1>1, <1>19, <1>24, <1>27, <1>28 DEF Fits, Finding, Weighing

\* Each pass leaves the discoveries as the next one expects them.
LEMMA DiscoverFits ==
  ASSUME AnalysisInv, StageInv, stage = "discovery", Fits(step, found, emitted), DiscoveryNext
  PROVE  Fits(step', found', emitted') /\ step' # "none"
<1>1. CASE Dominant
  BY <1>1, DominantFits DEF Dominant, Runs
<1>2. CASE Boundary
  BY <1>2, BoundaryFits DEF Boundary, Runs
<1>3. CASE Gap
  BY <1>3, GapFits DEF Gap, Runs
<1>4. CASE Significance
  BY <1>4, SignificanceFits DEF Significance, Runs
<1>5. CASE Ranking
  BY <1>5, RankingFits DEF Ranking, Runs
<1>6. CASE Surprise
  BY <1>6, SurpriseFits DEF Surprise, Runs
<1>7. CASE Compression
  BY <1>7, CompressionFits DEF Compression, Runs
<1>8. CASE BuildIR
  BY <1>8, BuildFits DEF BuildIR, Runs
<1> QED
  BY <1>1, <1>2, <1>3, <1>4, <1>5, <1>6, <1>7, <1>8 DEF DiscoveryNext

\* Before the discovery there is nothing that could depend on anything.
LEMMA NothingFits ==
  ASSUME NEW p \in {"none", "dominant"}, NEW D
  PROVE  Fits(p, <<>>, D)
  BY NothingFound DEF Fits, Finding, Weighing

LEMMA InitDiscovery == AnalysisInit => DiscoveryInv /\ InsightsInv
<1> SUFFICES ASSUME AnalysisInit PROVE DiscoveryInv /\ InsightsInv
  OBVIOUS
<1>1. step = "none" /\ found = <<>> /\ insights = <<>> /\ stage = "change"
  BY DEF AnalysisInit, EmptyReview
<1>2. Fits(step, found, emitted)
  BY <1>1, NothingFits
<1> QED
  BY <1>1, <1>2, NothingFound DEF DiscoveryInv, InsightsInv

\* Nothing found depends on nothing, after a step as before it.
LEMMA NothingFitsNext ==
  ASSUME found' = <<>>, step' \in {"none", "dominant"}
  PROVE  Fits(step, found, emitted)'
<1>1. \A i \in DOMAIN found' : FALSE
  BY NothingFound
<1>2. found' \in Seq(Discoveries)
  BY NothingFound
<1> QED
  BY <1>1, <1>2 DEF Fits, ClaimsIn, Finding, Weighing

\* Every step keeps what the discoveries are.
LEMMA DiscoveryStep ==
  ASSUME AnalysisInv, StageInv, DiscoveryInv, [AnalysisNext]_analysisVars
  PROVE  DiscoveryInv'
<1>1. CASE Compare \/ NoModels \/ BeginBehavior \/ Traverse
  <2>1. UNCHANGED discVars /\ stage \notin {"discovery", "review", "llm", "done"}
        /\ stage' # "discovery"
    BY <1>1 DEF Compare, NoModels, BeginBehavior, Traverse
  <2>2. step = "none" /\ step' = "none" /\ found' = <<>>
    BY <2>1 DEF DiscoveryInv, Fits, discVars
  <2>3. Fits(step, found, emitted)'
    BY <2>2, NothingFitsNext
  <2> QED
    BY <2>1, <2>2, <2>3 DEF DiscoveryInv
<1>2. CASE Operate
  <2>1. stage = "operational" /\ found' = found
        /\ step' = IF pass' = "end" THEN "dominant" ELSE step
    BY <1>2 DEF Operate
  <2>2. step = "none" /\ found' = <<>>
    BY <2>1 DEF DiscoveryInv, Fits
  <2>3. \/ pass' = "end" /\ stage' = "discovery" /\ step' = "dominant"
        \/ stage' \in {"failed", "operational"} /\ step' = "none"
    <3>1. \/ stage' = "failed" /\ pass' = "raised"
          \/ stage' = "discovery" /\ pass' = "end"
          \/ stage' = "operational" /\ pass' # "end"
      BY <1>2, <2>1 DEF Operate
    <3>2. step' = IF pass' = "end" THEN "dominant" ELSE "none"
      BY <2>1, <2>2
    <3> QED
      BY <3>1, <3>2
  <2>4. Fits(step, found, emitted)'
    BY <2>2, <2>3, NothingFitsNext
  <2> QED
    BY <2>3, <2>4 DEF DiscoveryInv
<1>3. CASE Discover
  <2>1. stage = "discovery" /\ DiscoveryNext /\ UNCHANGED <<changeVars, impactVars>>
        /\ stage' = IF step' = "end" THEN "review" ELSE stage
    BY <1>3 DEF Discover
  <2>2. Fits(step', found', emitted') /\ step' # "none"
    BY <2>1, DiscoverFits DEF DiscoveryInv
  <2>3. Fits(step, found, emitted)'
    BY <2>1, <2>2, FitsStay
  <2> QED
    BY <2>1, <2>3 DEF DiscoveryInv
<1>4. CASE Review \/ ToLLM \/ UNCHANGED analysisVars
  <2>0. UNCHANGED <<changeVars, impactVars, discVars>>
    BY <1>4 DEF Review, ToLLM, analysisVars
  <2>1. UNCHANGED <<changeVars, impactVars, discVars>>
        /\ (stage' = stage \/ (stage \in {"review", "llm"} /\ stage' \in {"llm", "done"}))
    <3>1. CASE Review
      BY <2>0, <3>1 DEF Review
    <3>2. CASE ToLLM
      BY <2>0, <3>2 DEF ToLLM
    <3>3. CASE UNCHANGED analysisVars
      BY <2>0, <3>3 DEF analysisVars
    <3> QED
      BY <1>4, <3>1, <3>2, <3>3
  <2>2. UNCHANGED <<step, found, emitted>>
    BY <2>1 DEF discVars
  <2>3. Fits(step, found, emitted)'
    <3>1. Fits(step', found', emitted')
      BY <2>2 DEF DiscoveryInv
    <3> QED
      BY <2>1, <3>1, FitsStay
  <2> QED
    BY <2>1, <2>2, <2>3 DEF DiscoveryInv
<1> QED
  BY <1>1, <1>2, <1>3, <1>4 DEF AnalysisNext

\* The review repeats what the discoveries are about.
LEMMA InsightsStep ==
  ASSUME AnalysisInv, StageInv, DiscoveryInv, InsightsInv, [AnalysisNext]_analysisVars
  PROVE  InsightsInv'
<1>1. CASE Compare \/ NoModels \/ BeginBehavior \/ Traverse \/ Operate \/ Discover
  <2>1. UNCHANGED reviewVars /\ stage \notin {"llm", "done"} /\ stage' \notin {"llm", "done"}
    BY <1>1 DEF Compare, NoModels, BeginBehavior, Traverse, Operate, Discover
  <2>2. insights' = <<>>
    BY <2>1 DEF InsightsInv, reviewVars
  <2>3. \A i \in DOMAIN insights' : FALSE
    BY <2>2, NothingFound
  <2> QED
    BY <2>2, <2>3 DEF InsightsInv
<1>2. CASE Review
  <2>1. UNCHANGED <<changeVars, impactVars>> /\ stage' = "llm"
        /\ insights' = IF step = "end" THEN [i \in DOMAIN found |-> Insight(found[i])] ELSE <<>>
    BY <1>2 DEF Review, CompileReview
  <2>2. ASSUME NEW i \in DOMAIN insights' PROVE Justified(insights'[i].about)
    <3>1. step = "end"
      BY <2>1, <2>2, NothingFound
    <3>2. i \in DOMAIN found /\ insights'[i].about = found[i].about
      BY <2>1, <2>2, <3>1 DEF Insight
    <3> QED
      BY <3>2 DEF DiscoveryInv, Fits, ClaimsIn
  <2> QED
    BY <2>1, <2>2, ClaimsStay DEF InsightsInv
<1>3. CASE ToLLM \/ UNCHANGED analysisVars
  <2>1. UNCHANGED <<changeVars, impactVars, reviewVars>> /\ (stage' = stage \/ stage = "llm")
    BY <1>3 DEF ToLLM, analysisVars
  <2>2. insights' = insights
    BY <2>1 DEF reviewVars
  <2>3. UNCHANGED <<changeVars, impactVars>>
    BY <2>1
  <2>4. ASSUME NEW i \in DOMAIN insights' PROVE Justified(insights'[i].about)
    BY <2>2, <2>4 DEF InsightsInv
  <2>5. stage' \notin {"llm", "done"} => insights' = <<>>
    <3>1. CASE ToLLM
      BY <2>2, <3>1 DEF InsightsInv, ToLLM
    <3>2. CASE UNCHANGED analysisVars
      BY <2>2, <3>2 DEF InsightsInv, analysisVars
    <3> QED
      BY <1>3, <3>1, <3>2
  <2> QED
    BY <2>3, <2>4, <2>5, ClaimsStay DEF InsightsInv
<1> QED
  BY <1>1, <1>2, <1>3 DEF AnalysisNext

THEOREM DiscoveryInvariant == AnalysisSpec => [](DiscoveryInv /\ InsightsInv)
<1>1. AnalysisInit => DiscoveryInv /\ InsightsInv
  BY InitDiscovery
<1>2. AnalysisInv /\ StageInv /\ DiscoveryInv /\ InsightsInv /\ [AnalysisNext]_analysisVars
        => (DiscoveryInv /\ InsightsInv)'
  BY DiscoveryStep, InsightsStep
<1> QED
  BY <1>1, <1>2, AnalysisInvariant, StageInvariant, PTL DEF AnalysisSpec

\* What the review says of the API and of the other services is true, for every
\* repository, pull request and threshold of the passes.
THEOREM ClaimsJustifiedHolds == AnalysisSpec => []ClaimsJustified
<1>1. InsightsInv => ClaimsJustified
  BY DEF InsightsInv, ClaimsJustified, Justified
<1> QED
  BY <1>1, DiscoveryInvariant, PTL

LEMMA KeptAtTheEnd == ASSUME DiscoveryInv PROVE DiscoveriesKept
<1> SUFFICES ASSUME step = "end" PROVE DiscoveriesKept
  BY DEF DiscoveriesKept
<1> DEFINE holders(d) == {i \in DOMAIN found :
             Identity(d) = Identity(found[i]) \/ Identity(d) \in found[i].children}
<1>1. AllHeld(found, emitted) /\ found \in Seq(Discoveries)
  BY DEF DiscoveryInv, Fits
<1>2. ASSUME NEW d \in emitted
      PROVE  Cardinality(holders(d)) = 1 /\ \A i \in holders(d) : d.evidence \subseteq found[i].evidence
  <2>1. PICK i \in DOMAIN found :
          /\ Tells(found[i], d) /\ d.evidence \subseteq found[i].evidence
          /\ \A j \in DOMAIN found : Tells(found[j], d) => j = i
    BY <1>1 DEF AllHeld, HeldIn
  <2>2. holders(d) = {i}
    BY <2>1 DEF Tells
  <2>3. Cardinality({i}) = 1
    BY FS_Singleton
  <2> QED
    BY <2>1, <2>2, <2>3
<1>3. ASSUME NEW r \in IR
      PROVE  (IF r.kind = "compressed" THEN r.children ELSE {Identity(r)})
                \subseteq {Identity(d) : d \in emitted}
  <2>1. PICK i \in DOMAIN found : r = found[i]
    BY <1>3 DEF IR, ToSet
  <2> QED
    BY <1>1, <2>1 DEF AllHeld, Contents
<1> QED
  BY <1>2, <1>3 DEF DiscoveriesKept

\* The discovery compiler loses no discovery, tells none twice and makes none up, for
\* every repository, pull request and threshold of the passes.
THEOREM DiscoveriesKeptHolds == AnalysisSpec => []DiscoveriesKept
<1>1. DiscoveryInv => DiscoveriesKept
  BY KeptAtTheEnd
<1> QED
  BY <1>1, DiscoveryInvariant, PTL

-----------------------------------------------------------------------------
(* The review context.                                                     *)

\* A set in some order: all of it, each element once.
LEMMA OrdersAreWhole ==
  ASSUME NEW S, IsFiniteSet(S), NEW q \in Orders(S)
  PROVE  /\ Cardinality(S) \in Nat /\ q \in Seq(S) /\ Len(q) = Cardinality(S)
         /\ DOMAIN q = 1 .. Cardinality(S)
         /\ \A x \in S : \E i \in DOMAIN q : q[i] = x
         /\ \A i, j \in DOMAIN q : q[i] = q[j] => i = j
<1> DEFINE n == Cardinality(S)
<1>1. n \in Nat
  BY FS_CardinalityType
<1>2. q \in [1 .. n -> S] /\ ToSet(q) = S
  BY DEF Orders
<1>3. q \in Seq(S) /\ Len(q) = n /\ DOMAIN q = 1 .. n
  BY <1>1, <1>2, FunctionIsSeq
<1>4. \A x \in S : \E i \in 1 .. n : q[i] = x
  BY <1>2, <1>3 DEF ToSet
<1>5. q \in Surjection(1 .. n, S)
  BY <1>2, <1>4 DEF Surjection
<1>6. IsFiniteSet(1 .. n) /\ Cardinality(1 .. n) = n
  BY <1>1, FS_Interval
<1>7. q \in Injection(1 .. n, S)
  BY <1>5, <1>6, FS_Surjection
<1> QED
  BY <1>1, <1>3, <1>4, <1>7 DEF Injection, IsInjective

\* There is such an order.
LEMMA OrdersExist ==
  ASSUME NEW S, IsFiniteSet(S)
  PROVE  \E q : q \in Orders(S)
<1> DEFINE n == Cardinality(S)
<1>1. ExistsBijection(1 .. n, S)
  BY FS_CardinalityType
<1>2. PICK q : q \in Bijection(1 .. n, S)
  BY <1>1 DEF ExistsBijection
<1>3. q \in [1 .. n -> S] /\ \A x \in S : \E i \in 1 .. n : q[i] = x
  BY <1>2 DEF Bijection, Injection, Surjection
<1>4. ToSet(q) = S
  BY <1>3 DEF ToSet
<1> QED
  BY <1>3, <1>4 DEF Orders

ChangeEntry == [file : Files, changes : SUBSET facts.symbols]

\* the changed files, each with what changed in it
ChangeRows(c) ==
  /\ c \in Seq(ChangeEntry)
  /\ \A i \in DOMAIN c : /\ c[i].changes = ChangesIn(c[i].file)
                         /\ \E s \in facts.symbols : c[i].file = s[3]
  /\ \A s \in facts.symbols : \E i \in DOMAIN c : c[i].file = s[3]
  /\ \A i, j \in DOMAIN c : c[i].file = c[j].file => i = j

Execution ==
  [method : Methods \union {None}, path : Paths \union Numbers, handler : Numbers,
   changed : BOOLEAN]

\* an execution for each affected endpoint, if there is one
ExecutionRows(x) ==
  /\ x \in Seq(Execution)
  /\ endpoints # {} =>
       /\ \A i \in DOMAIN x : \E n \in endpoints : x[i] = EndpointExecution(entryOf[n])
       /\ \A n \in endpoints : \E i \in DOMAIN x : x[i] = EndpointExecution(entryOf[n])

ReviewInv ==
  /\ stage \in {"llm", "done"} => ChangeRows(change) /\ ExecutionRows(executions)
  /\ stage \notin {"llm", "done"} => built = "none" /\ change = <<>> /\ executions = <<>>
  /\ stage = "change" => entryOf = <<>> /\ handlers = {}
  /\ ~caps.symbols => /\ facts.symbols = {} /\ endpoints = {} /\ phase = "idle"
                      /\ entryOf = <<>> /\ handlers = {}

\* What the review context compiler is given.
LEMMA ReviewGiven ==
  ASSUME AnalysisInv
  PROVE  /\ facts.symbols \subseteq Numbers \X Kinds \X Files /\ IsFiniteSet(facts.symbols)
         /\ ChangedIds \subseteq Numbers /\ IsFiniteSet(Numbers) /\ IsFiniteSet(ChangedIds)
         /\ IsFiniteSet(affected) /\ IsFiniteSet(endpoints)
<1>1. facts.symbols \subseteq Numbers \X Kinds \X Diff /\ ChangedIds \subseteq Numbers
  BY FactsTyped DEF AnalysisInv
<1>2. Diff \subseteq Files
  BY VersionsTyped DEF AnalysisInv, ChangeInv, Diff
<1>3. IsFiniteSet(Numbers) /\ Nodes = Numbers
  BY ImpactAssumption, OperationalAssumption
<1>4. affected \in SUBSET Nodes /\ endpoints \in SUBSET Nodes
  BY DEF AnalysisInv, ImpactInv, ImpactTypeOK, ImpactSound, CompleteInv, ResultsKept
<1>5. IsFiniteSet(facts.symbols)
  <2> DEFINE N == facts.symbols
             pair(c) == <<<<c[1], c[2]>>, c[3]>>
             P == (Numbers \X Kinds) \X Files
             f == [p \in P |-> <<p[1][1], p[1][2], p[2]>>]
             A == {p \in P : f[p] \in N}
  <2>1. IsFiniteSet(Kinds) /\ IsFiniteSet(Files)
    <3>1. Kinds = {"added"} \union {"removed"} \union {"modified"}
      BY DEF Kinds
    <3>2. IsFiniteSet({"added"}) /\ IsFiniteSet({"removed"}) /\ IsFiniteSet({"modified"})
      BY FS_Singleton
    <3>3. IsFiniteSet({"added"} \union {"removed"})
      BY <3>2, FS_Union
    <3> QED
      BY <3>1, <3>2, <3>3, FS_Union, AnalysisAssumption
  <2>2. IsFiniteSet(Numbers \X Kinds)
    BY <1>3, <2>1, FS_Product
  <2>3. IsFiniteSet(P)
    BY <2>1, <2>2, FS_Product
  <2>4. IsFiniteSet(A)
    <3>1. A \in SUBSET P
      OBVIOUS
    <3> HIDE DEF A, P
    <3> QED
      BY <2>3, <3>1, FS_Subset
  <2>5. \A c \in N : pair(c) \in A /\ f[pair(c)] = c
    <3> SUFFICES ASSUME NEW c \in N PROVE pair(c) \in A /\ f[pair(c)] = c
      OBVIOUS
    <3>1. c \in Numbers \X Kinds \X Files
      BY <1>1, <1>2
    <3>2. c = <<c[1], c[2], c[3]>> /\ pair(c) \in P
      BY <3>1
    <3>3. f[pair(c)] = c
      BY <3>2
    <3> QED
      BY <3>2, <3>3
  <2>6. [p \in A |-> f[p]] \in Surjection(A, N)
    <3> HIDE DEF f, pair
    <3>1. \A p \in A : f[p] \in N
      OBVIOUS
    <3> HIDE DEF A, N
    <3> QED
      BY <2>5, <3>1 DEF Surjection
  <2> HIDE DEF A, N, f
  <2> QED
    BY <2>4, <2>6, FS_Surjection DEF N
<1>6. IsFiniteSet(ChangedIds)
  BY <1>1, <1>3, FS_Subset
<1>7. IsFiniteSet(affected) /\ IsFiniteSet(endpoints)
  BY <1>3, <1>4, FS_Subset
<1> QED
  BY <1>1, <1>2, <1>3, <1>5, <1>6, <1>7

\* The changed files are all in the review, each once.
LEMMA ChangesReviewed ==
  ASSUME AnalysisInv, StageInv, NEW q \in FileOrders,
         NEW c, c = [i \in DOMAIN q |-> [file |-> q[i], changes |-> ChangesIn(q[i])]]
  PROVE  ChangeRows(c)
<1> DEFINE F == {s[3] : s \in facts.symbols}
<1>1. facts.symbols \subseteq Numbers \X Kinds \X Files /\ IsFiniteSet(facts.symbols)
  BY ReviewGiven
<1>2. IsFiniteSet(F)
  <2> DEFINE f == [s \in facts.symbols |-> s[3]]
  <2>1. f \in Surjection(facts.symbols, F)
    BY DEF Surjection
  <2> HIDE DEF f, F
  <2> QED
    BY <1>1, <2>1, FS_Surjection
<1>3. q \in Orders(F)
  BY DEF FileOrders
<1>4. /\ Cardinality(F) \in Nat /\ q \in [1 .. Cardinality(F) -> F]
      /\ DOMAIN q = 1 .. Cardinality(F)
      /\ \A x \in F : \E i \in DOMAIN q : q[i] = x
      /\ \A i, j \in DOMAIN q : q[i] = q[j] => i = j
  <2> HIDE DEF F
  <2>1. q \in [1 .. Cardinality(F) -> F]
    BY <1>3 DEF Orders
  <2> QED
    BY <1>2, <1>3, <2>1, OrdersAreWhole
<1>5. F \subseteq Files
  BY <1>1
<1>6. \A i \in DOMAIN q : [file |-> q[i], changes |-> ChangesIn(q[i])] \in ChangeEntry
  <2> SUFFICES ASSUME NEW i \in DOMAIN q
               PROVE  q[i] \in Files /\ ChangesIn(q[i]) \in SUBSET facts.symbols
    BY DEF ChangeEntry
  <2> QED
    BY <1>4, <1>5 DEF ChangesIn
<1>7. c \in [1 .. Cardinality(F) -> ChangeEntry]
  BY <1>4, <1>6
<1>8. c \in Seq(ChangeEntry) /\ DOMAIN c = DOMAIN q
  BY <1>4, <1>7, FunctionIsSeq
<1>9. \A i \in DOMAIN q : c[i].file = q[i] /\ c[i].changes = ChangesIn(q[i])
  OBVIOUS
<1>10. \A i \in DOMAIN q : \E s \in facts.symbols : q[i] = s[3]
  BY <1>4
<1>11. \A s \in facts.symbols : \E i \in DOMAIN q : q[i] = s[3]
  <2>1. \A s \in facts.symbols : s[3] \in F
    OBVIOUS
  <2> HIDE DEF F
  <2> QED
    BY <1>4, <2>1
<1>12. \A i, j \in DOMAIN q : q[i] = q[j] => i = j
  BY <1>4
<1> HIDE DEF F
<1>13. \A i \in DOMAIN c : /\ c[i].changes = ChangesIn(c[i].file)
                           /\ \E s \in facts.symbols : c[i].file = s[3]
  BY ONLY <1>8, <1>9, <1>10
<1>14. \A s \in facts.symbols : \E i \in DOMAIN c : c[i].file = s[3]
  BY ONLY <1>8, <1>9, <1>11
<1>15. \A i, j \in DOMAIN c : c[i].file = c[j].file => i = j
  BY ONLY <1>8, <1>9, <1>12
<1> QED
  BY ONLY <1>8, <1>13, <1>14, <1>15 DEF ChangeRows

\* So are the affected endpoints, or some of the changed symbols.
LEMMA ExecutionsReviewed ==
  ASSUME AnalysisInv, StageInv, Asked, NEW x \in ExecutionOrders
  PROVE  ExecutionRows(x)
<1>1. ChangedIds \subseteq Numbers /\ IsFiniteSet(Numbers) /\ IsFiniteSet(endpoints)
  BY ReviewGiven
<1>2. CASE endpoints # {}
  <2>1. PICK q \in Orders(endpoints) : x = [i \in DOMAIN q |-> EndpointExecution(entryOf[q[i]])]
    BY <1>2 DEF ExecutionOrders
  <2>2. /\ Cardinality(endpoints) \in Nat /\ q \in [1 .. Cardinality(endpoints) -> endpoints]
        /\ DOMAIN q = 1 .. Cardinality(endpoints)
        /\ \A n \in endpoints : \E i \in DOMAIN q : q[i] = n
    BY <1>1, OrdersAreWhole DEF Orders
  <2>3. \A n \in endpoints : EndpointExecution(entryOf[n]) \in Execution
    <3> SUFFICES ASSUME NEW n \in endpoints PROVE EndpointExecution(entryOf[n]) \in Execution
      OBVIOUS
    <3>1. n \in handlers
      BY DEF AnalysisInv, ImpactInv, ImpactSound, CompleteInv, ResultsKept
    <3>2. entryOf[n] \in EntryPoints
      BY <3>1 DEF Asked
    <3>3. PICK y \in Numbers \X Routes :
            entryOf[n] = [handler |-> y[1], method |-> y[2][1], path |-> y[2][2]]
      BY <3>2 DEF EntryPoints
    <3>4. y[1] \in Numbers /\ y[2] \in Methods \X Paths
      BY OperationalAssumption
    <3>5. y[2][1] \in Methods /\ y[2][2] \in Paths
      BY <3>4
    <3> QED
      BY <3>3, <3>4, <3>5 DEF EndpointExecution, Execution
  <2>4. x \in [1 .. Cardinality(endpoints) -> Execution] /\ DOMAIN x = DOMAIN q
    BY <2>1, <2>2, <2>3
  <2>5. x \in Seq(Execution)
    BY <2>2, <2>4, FunctionIsSeq
  <2> QED
    BY <2>1, <2>2, <2>4, <2>5 DEF ExecutionRows
<1>3. CASE endpoints = {}
  <2> DEFINE S == ChangedIds \intersect affected
             q == CHOOSE o \in Orders(S) : TRUE
             n == Least(MaxInternal, Len(q))
  <2>1. S \subseteq Numbers /\ IsFiniteSet(S)
    <3>1. S \in SUBSET Numbers
      BY <1>1
    <3> QED
      BY <1>1, <3>1, FS_Subset
  <2>2. x = [i \in 1 .. n |-> InternalExecution(q[i])]
    BY <1>3 DEF ExecutionOrders
  <2>3. q \in Orders(S)
    <3> HIDE DEF S
    <3> QED
      BY <2>1, OrdersExist
  <2>4. /\ Len(q) \in Nat /\ DOMAIN q = 1 .. Len(q) /\ q \in Seq(S)
    <3> HIDE DEF S, q
    <3> QED
      BY <2>1, <2>3, OrdersAreWhole
  <2>5. n \in Nat /\ 1 .. n \subseteq 1 .. Len(q)
    BY <2>4, ReviewAssumption DEF Least
  <2>6. \A i \in 1 .. n : InternalExecution(q[i]) \in Execution
    <3> SUFFICES ASSUME NEW i \in 1 .. n PROVE InternalExecution(q[i]) \in Execution
      OBVIOUS
    <3>1. q[i] \in S
      <4>1. i \in 1 .. Len(q)
        BY <2>5
      <4> HIDE DEF S, q
      <4> QED
        BY <2>4, <4>1, ElementOfSeq
    <3> HIDE DEF q
    <3> QED
      BY <2>1, <3>1 DEF InternalExecution, Execution
  <2> HIDE DEF n, q
  <2>7. x \in [1 .. n -> Execution]
    BY <2>2, <2>6
  <2>8. x \in Seq(Execution)
    BY <2>5, <2>7, FunctionIsSeq
  <2> QED
    BY <1>3, <2>8 DEF ExecutionRows
<1> QED
  BY <1>2, <1>3

LEMMA NothingReviewed ==
  /\ facts.symbols = {} => ChangeRows(<<>>)
  /\ endpoints = {} => ExecutionRows(<<>>)
<1>1. DOMAIN <<>> = {}
  OBVIOUS
<1>2. <<>> \in Seq(ChangeEntry) /\ <<>> \in Seq(Execution)
  BY EmptySeq
<1> QED
  BY <1>1, <1>2 DEF ChangeRows, ExecutionRows

\* What the review context is made of.
LEMMA ReviewStay ==
  ASSUME UNCHANGED <<changeVars, impactVars, opVars>>
  PROVE  /\ \A c : ChangeRows(c) => ChangeRows(c)'
         /\ \A x : ExecutionRows(x) => ExecutionRows(x)'
<1>1. ChangedIds' = ChangedIds /\ UNCHANGED <<facts, endpoints, entryOf>>
  BY ViewStays DEF changeVars, impactVars, surface, opVars
<1>2. \A f : ChangesIn(f)' = ChangesIn(f)
  BY <1>1 DEF ChangesIn
<1>3. \A e : EndpointExecution(e)' = EndpointExecution(e)
  BY <1>1 DEF EndpointExecution
<1>4. \A c : ChangeRows(c) => ChangeRows(c)'
  BY <1>1, <1>2 DEF ChangeRows, ChangeEntry
<1>5. \A x : ExecutionRows(x) => ExecutionRows(x)'
  BY <1>1, <1>3 DEF ExecutionRows
<1> QED
  BY <1>4, <1>5

LEMMA InitReview == AnalysisInit => ReviewInv
  BY DEF AnalysisInit, ReviewInv, ChangeInit, NoFacts, NoSurface, EmptyReview, NoPrompt

\* A step that compiles no review context and no prompt.
LEMMA NotReviewed ==
  ASSUME ReviewInv, UNCHANGED <<reviewVars, llmVars>>, UNCHANGED caps,
         stage \notin {"llm", "done"}, stage' \notin {"llm", "done"},
         \/ caps.symbols /\ stage' # "change"
         \/ caps.symbols /\ UNCHANGED <<entryOf, handlers>> /\ stage = "change"
         \/ UNCHANGED <<facts, endpoints, phase, entryOf, handlers>> /\ stage = "change"
  PROVE  ReviewInv'
<1>1. UNCHANGED <<change, executions, built>>
  BY DEF reviewVars, llmVars
<1>2. built' = "none" /\ change' = <<>> /\ executions' = <<>>
  BY <1>1 DEF ReviewInv
<1>3. caps' = caps
  OBVIOUS
<1>4. CASE caps.symbols /\ stage' # "change"
  BY <1>2, <1>3, <1>4 DEF ReviewInv
<1>5. CASE caps.symbols /\ UNCHANGED <<entryOf, handlers>> /\ stage = "change"
  BY <1>2, <1>3, <1>5 DEF ReviewInv
<1>6. CASE UNCHANGED <<facts, endpoints, phase, entryOf, handlers>> /\ stage = "change"
  BY <1>2, <1>3, <1>6 DEF ReviewInv
<1> QED
  BY <1>4, <1>5, <1>6

\* The review context is compiled from what the stages before it left.
LEMMA Reviewed ==
  ASSUME AnalysisInv, StageInv, ReviewInv, Review
  PROVE  ReviewInv'
<1>1. /\ stage = "review" /\ stage' = "llm"
      /\ UNCHANGED <<changeVars, impactVars, opVars>>
      /\ CompileReview(caps.symbols, phase = "done", step = "end")
  BY DEF Review
<1>2. UNCHANGED <<caps, facts, endpoints, phase, entryOf, handlers>>
  BY <1>1 DEF changeVars, impactVars, repository, surface, opVars
<1>3. ChangeRows(change') /\ ExecutionRows(executions')
  <2>1. CASE caps.symbols
    <3>1. Asked /\ phase = "done"
      BY <1>1, <2>1 DEF StageInv
    <3>2. PICK q \in FileOrders :
            change' = [i \in DOMAIN q |-> [file |-> q[i], changes |-> ChangesIn(q[i])]]
      BY <1>1, <2>1 DEF CompileReview
    <3>3. PICK x \in ExecutionOrders : executions' = x
      BY <1>1, <3>1 DEF CompileReview
    <3>4. ChangeRows(change')
      BY <3>2, ChangesReviewed
    <3>5. ExecutionRows(executions')
      BY <3>1, <3>3, ExecutionsReviewed
    <3> QED
      BY <3>4, <3>5
  <2>2. CASE ~caps.symbols
    <3>1. facts.symbols = {} /\ endpoints = {} /\ phase = "idle"
      BY <2>2 DEF ReviewInv
    <3>2. change' = <<>> /\ executions' = <<>>
      BY <1>1, <2>2, <3>1 DEF CompileReview
    <3> QED
      BY <3>1, <3>2, NothingReviewed
  <2> QED
    BY <2>1, <2>2
<1>4. ChangeRows(change)' /\ ExecutionRows(executions)'
  <2>1. /\ \A c : ChangeRows(c) => ChangeRows(c)'
        /\ \A x : ExecutionRows(x) => ExecutionRows(x)'
    BY <1>1, ReviewStay
  <2>2. /\ ChangeRows(change') => ChangeRows(change)'
        /\ ExecutionRows(executions') => ExecutionRows(executions)'
    BY <2>1 DEF ChangeRows, ExecutionRows, ChangeEntry
  <2> QED
    BY <1>3, <2>2
<1> QED
  BY <1>1, <1>2, <1>4 DEF ReviewInv

LEMMA ReviewStep ==
  ASSUME AnalysisInv, StageInv, ReviewInv, [AnalysisNext]_analysisVars
  PROVE  ReviewInv'
<1>1. CASE Compare
  <2>1. /\ stage = "change" /\ stage' = "change" /\ caps.symbols
        /\ UNCHANGED <<reviewVars, llmVars, handlers, caps, entryOf>>
    BY <1>1 DEF Compare, impactVars, repository, opVars
  <2> QED
    BY <2>1, NotReviewed
<1>2. CASE NoModels
  <2>1. /\ stage = "change" /\ stage' = "review"
        /\ UNCHANGED <<reviewVars, llmVars, caps>>
        /\ UNCHANGED <<facts, endpoints, phase, entryOf, handlers>>
    BY <1>2 DEF NoModels, changeVars, impactVars, repository, surface, opVars
  <2> QED
    BY <2>1, NotReviewed
<1>3. CASE BeginBehavior
  <2>1. /\ stage = "change" /\ stage' = "behavior" /\ caps.symbols
        /\ UNCHANGED <<reviewVars, llmVars, caps>>
    BY <1>3 DEF BeginBehavior
  <2> QED
    BY <2>1, NotReviewed
<1>4. CASE Traverse
  <2>1. /\ stage = "behavior" /\ stage' \in {"behavior", "operational"} /\ caps.symbols
        /\ UNCHANGED <<reviewVars, llmVars, caps>>
    BY <1>4 DEF Traverse, opVars, StageInv
  <2> QED
    BY <2>1, NotReviewed
<1>5. CASE Operate
  <2>1. /\ stage = "operational" /\ caps.symbols /\ OpNext
        /\ UNCHANGED <<reviewVars, llmVars>> /\ UNCHANGED <<changeVars, impactVars>>
    BY <1>5 DEF Operate, StageInv
  <2>2. stage' \in {"failed", "discovery", "operational"}
    BY <1>5, <2>1 DEF Operate
  <2>3. caps' = caps
    BY <2>1, OperateModel DEF StageInv
  <2> QED
    BY <2>1, <2>2, <2>3, NotReviewed
<1>6. CASE Discover
  <2>1. /\ stage = "discovery" /\ stage' \in {"discovery", "review"} /\ caps.symbols
        /\ UNCHANGED <<reviewVars, llmVars, caps>>
    BY <1>6 DEF Discover, opVars, StageInv
  <2> QED
    BY <2>1, NotReviewed
<1>7. CASE Review
  BY <1>7, Reviewed
<1>8. CASE ToLLM \/ UNCHANGED analysisVars
  <2>1. UNCHANGED <<changeVars, impactVars, opVars, reviewVars>>
    BY <1>8 DEF ToLLM, analysisVars
  <2>2. UNCHANGED <<caps, facts, endpoints, phase, entryOf, handlers, change, executions>>
    BY <2>1 DEF changeVars, impactVars, repository, surface, opVars, reviewVars
  <2>3. \/ stage = "llm" /\ stage' \in {"llm", "done"}
        \/ stage' = stage /\ built' = built
    <3>1. CASE ToLLM
      BY <3>1 DEF ToLLM
    <3>2. CASE UNCHANGED analysisVars
      BY <3>2 DEF analysisVars, llmVars
    <3> QED
      BY <1>8, <3>1, <3>2
  <2>4. /\ ChangeRows(change) => ChangeRows(change)'
        /\ ExecutionRows(executions) => ExecutionRows(executions)'
    <3>1. /\ \A c : ChangeRows(c) => ChangeRows(c)'
          /\ \A x : ExecutionRows(x) => ExecutionRows(x)'
      BY <2>1, ReviewStay
    <3>2. /\ ChangeRows(change) => ChangeRows(change')
          /\ ExecutionRows(executions) => ExecutionRows(executions')
      BY <2>2
    <3>3. /\ ChangeRows(change') => ChangeRows(change)'
          /\ ExecutionRows(executions') => ExecutionRows(executions)'
      BY <3>1 DEF ChangeRows, ExecutionRows, ChangeEntry
    <3> QED
      BY <3>2, <3>3
  <2> QED
    BY <2>2, <2>3, <2>4 DEF ReviewInv
<1> QED
  BY <1>1, <1>2, <1>3, <1>4, <1>5, <1>6, <1>7, <1>8 DEF AnalysisNext

THEOREM ReviewInvariant == AnalysisSpec => []ReviewInv
<1>1. AnalysisInit => ReviewInv
  BY InitReview
<1>2. AnalysisInv /\ StageInv /\ ReviewInv /\ [AnalysisNext]_analysisVars => ReviewInv'
  BY ReviewStep
<1> QED
  BY <1>1, <1>2, AnalysisInvariant, StageInvariant, PTL DEF AnalysisSpec

-----------------------------------------------------------------------------
(* The prompt.                                                             *)

FilesBuilt == prompt.files = FileTable /\ retained = Retained

TablesBuilt ==
  /\ \E q \in ChangedOrders :
       prompt.symbols = [k \in DOMAIN q |-> ChangedEntry(q[k])] \o HandlerEntries
  /\ prompt.endpoints = [i \in DOMAIN Selected |->
                           [method |-> Encoded(Selected[i]), path |-> Selected[i].path]]

SectionsBuilt == prompt.changes = ChangeEntries /\ prompt.entries = TracedEntries

\* each part is what its builder made of the review context and of the parts before
PromptInv ==
  /\ built \in {"none", "files", "tables", "sections"}
  /\ DOMAIN prompt = {"files", "symbols", "endpoints", "changes", "entries", "kinds"}
  /\ built \in {"none", "files"} => prompt.symbols = <<>>
  /\ built # "none" => FilesBuilt
  /\ built \in {"tables", "sections"} => TablesBuilt
  /\ built = "sections" => SectionsBuilt

\* What the builders make does not change while what they make it of does not.
LEMMA ScopeStays ==
  ASSUME UNCHANGED <<change, executions>>
  PROVE  Scope' = Scope /\ FileTable' = FileTable /\ Retained' = Retained
<1>1. change' = change /\ executions' = executions
  OBVIOUS
<1>2. Scope' = Scope
  BY <1>1 DEF Scope
<1>3. Retained' = Retained
  BY <1>1 DEF Retained
<1> QED
  BY <1>2, <1>3 DEF FileTable

LEMMA TablesStay ==
  ASSUME UNCHANGED <<change, executions, retained, facts>>, prompt'.files = prompt.files
  PROVE  /\ \A f : FileAt(f)' = FileAt(f)
         /\ ChangedOrders' = ChangedOrders /\ Selected' = Selected
         /\ \A p : ChangedEntry(p)' = ChangedEntry(p)
         /\ HandlerEntries' = HandlerEntries
<1>1. retained' = retained /\ Scope' = Scope
  BY ScopeStays
<1>2. \A f : FileAt(f)' = FileAt(f)
  BY DEF FileAt
<1>3. ChangedIn' = ChangedIn
  <2>1. \A i : NumbersIn(i)' = NumbersIn(i)
    BY <1>1 DEF NumbersIn
  <2>2. ChangedIds' = ChangedIds
    BY DEF ChangedIds
  <2> QED
    BY <1>1, <2>1, <2>2 DEF ChangedIn
<1>4. ChangedOrders' = ChangedOrders
  BY <1>3 DEF ChangedOrders
<1>5. Selected' = Selected
  BY <1>1 DEF Selected
<1>6. \A p : ChangedEntry(p)' = ChangedEntry(p)
  BY <1>1, <1>2 DEF ChangedEntry
<1>7. HandlerEntries' = HandlerEntries
  BY <1>3, <1>5, <1>6 DEF HandlerEntries
<1> QED
  BY <1>2, <1>4, <1>5, <1>6, <1>7

LEMMA SectionsStay ==
  ASSUME UNCHANGED <<change, retained>>, prompt'.files = prompt.files,
         prompt'.symbols = prompt.symbols, prompt'.endpoints = prompt.endpoints,
         UNCHANGED executions
  PROVE  ChangeEntries' = ChangeEntries /\ TracedEntries' = TracedEntries
<1>1. retained' = retained /\ Scope' = Scope
  BY ScopeStays
<1>2. \A f : FileAt(f)' = FileAt(f)
  BY DEF FileAt
<1>3. \A s : SymbolIndex(s)' = SymbolIndex(s)
  BY DEF SymbolIndex
<1>4. \A x : EndpointAt(x)' = EndpointAt(x)
  BY DEF EndpointAt
<1>5. Found' = Found
  BY <1>1, <1>4 DEF Found
<1>6. ChangeEntries' = ChangeEntries
  <2>1. \A c : IndicesOf(c)' = IndicesOf(c)
    BY <1>3 DEF IndicesOf
  <2> QED
    BY <1>1, <1>2, <2>1 DEF ChangeEntries
<1>7. TracedEntries' = TracedEntries
  BY <1>1, <1>3, <1>4, <1>5 DEF TracedEntries
<1> QED
  BY <1>6, <1>7

LEMMA TablesKept ==
  ASSUME TablesBuilt, UNCHANGED <<change, executions, retained, facts>>,
         prompt'.files = prompt.files, prompt'.symbols = prompt.symbols,
         prompt'.endpoints = prompt.endpoints
  PROVE  TablesBuilt'
<1>1. PICK q \in ChangedOrders :
        prompt.symbols = [k \in DOMAIN q |-> ChangedEntry(q[k])] \o HandlerEntries
  BY DEF TablesBuilt
<1>2. /\ ChangedOrders' = ChangedOrders /\ Selected' = Selected
      /\ \A p : ChangedEntry(p)' = ChangedEntry(p)
      /\ HandlerEntries' = HandlerEntries
  BY TablesStay
<1>3. prompt'.symbols = [k \in DOMAIN q |-> ChangedEntry(q[k])'] \o HandlerEntries'
  BY <1>1, <1>2
<1>4. prompt'.endpoints = [i \in DOMAIN Selected' |->
         [method |-> Encoded(Selected'[i]), path |-> Selected'[i].path]]
  BY <1>2 DEF TablesBuilt
<1> QED
  BY <1>2, <1>3, <1>4 DEF TablesBuilt, Encoded

LEMMA InitPrompt == AnalysisInit => PromptInv
  BY DEF AnalysisInit, NoPrompt, PromptInv

LEMMA FilesStep ==
  ASSUME PromptInv, BuildFiles, UNCHANGED <<change, executions>>
  PROVE  PromptInv'
<1>1. built' = "files" /\ retained' = Retained
      /\ prompt' = [prompt EXCEPT !.files = FileTable]
  BY DEF BuildFiles
<1>2. /\ prompt'.files = FileTable /\ DOMAIN prompt' = DOMAIN prompt
      /\ built = "none" /\ prompt'.symbols = prompt.symbols
  BY <1>1 DEF PromptInv, BuildFiles
<1>3. FilesBuilt'
  BY <1>1, <1>2, ScopeStays DEF FilesBuilt
<1> QED
  BY <1>1, <1>2, <1>3 DEF PromptInv

LEMMA TablesStep ==
  ASSUME PromptInv, BuildTables, UNCHANGED <<change, executions, facts>>
  PROVE  PromptInv'
<1>1. PICK q \in ChangedOrders : prompt' = [prompt EXCEPT
        !.symbols = [k \in DOMAIN q |-> ChangedEntry(q[k])] \o HandlerEntries,
        !.endpoints = [i \in DOMAIN Selected |->
                        [method |-> Encoded(Selected[i]), path |-> Selected[i].path]]]
  BY DEF BuildTables
<1>2. built = "files" /\ built' = "tables" /\ UNCHANGED retained
  BY DEF BuildTables
<1> DEFINE symbols == [k \in DOMAIN q |-> ChangedEntry(q[k])] \o HandlerEntries
           shown == [i \in DOMAIN Selected |->
                       [method |-> Encoded(Selected[i]), path |-> Selected[i].path]]
<1>3. prompt' = [prompt EXCEPT !.symbols = symbols, !.endpoints = shown]
  BY <1>1
<1> HIDE DEF symbols, shown
<1>4. /\ DOMAIN prompt' = DOMAIN prompt /\ prompt'.files = prompt.files
      /\ prompt'.symbols = symbols /\ prompt'.endpoints = shown
  BY <1>3 DEF PromptInv
<1>5. FilesBuilt'
  BY <1>2, <1>4, ScopeStays DEF FilesBuilt, PromptInv
<1>6. /\ ChangedOrders' = ChangedOrders /\ Selected' = Selected
      /\ \A p : ChangedEntry(p)' = ChangedEntry(p)
      /\ HandlerEntries' = HandlerEntries
  BY <1>2, <1>4, TablesStay
<1>7. prompt'.symbols = [k \in DOMAIN q |-> ChangedEntry(q[k])'] \o HandlerEntries'
  BY <1>4, <1>6 DEF symbols
<1>8. prompt'.endpoints = [i \in DOMAIN Selected' |->
         [method |-> Encoded(Selected'[i]), path |-> Selected'[i].path]]
  BY <1>4, <1>6 DEF shown
<1>9. TablesBuilt'
  BY <1>6, <1>7, <1>8 DEF TablesBuilt, Encoded
<1> QED
  BY <1>2, <1>4, <1>5, <1>9 DEF PromptInv

LEMMA SectionsStep ==
  ASSUME PromptInv, BuildSections, UNCHANGED <<change, executions, facts>>
  PROVE  PromptInv'
<1> DEFINE kinds == [i \in DOMAIN insights |-> KindOf(insights[i])]
<1>1. /\ built = "tables" /\ built' = "sections" /\ UNCHANGED retained
      /\ prompt' = [prompt EXCEPT !.changes = ChangeEntries, !.entries = TracedEntries,
                                  !.kinds = kinds]
  BY DEF BuildSections
<1> HIDE DEF kinds
<1>2. /\ DOMAIN prompt' = DOMAIN prompt /\ prompt'.files = prompt.files
      /\ prompt'.symbols = prompt.symbols /\ prompt'.endpoints = prompt.endpoints
      /\ prompt'.changes = ChangeEntries /\ prompt'.entries = TracedEntries
  BY <1>1 DEF PromptInv
<1>3. FilesBuilt'
  BY <1>1, <1>2, ScopeStays DEF FilesBuilt, PromptInv
<1>4. TablesBuilt'
  BY <1>1, <1>2, TablesKept DEF PromptInv
<1>5. SectionsBuilt'
  BY <1>1, <1>2, SectionsStay DEF SectionsBuilt
<1> QED
  BY <1>1, <1>2, <1>3, <1>4, <1>5 DEF PromptInv

LEMMA PromptStays ==
  ASSUME PromptInv, UNCHANGED <<change, executions, facts, prompt, retained, built>>
  PROVE  PromptInv'
<1>0. UNCHANGED <<change, executions, retained, facts>> /\ prompt'.files = prompt.files
      /\ prompt'.symbols = prompt.symbols /\ prompt'.endpoints = prompt.endpoints
  OBVIOUS
<1>1. FilesBuilt => FilesBuilt'
  BY ScopeStays DEF FilesBuilt
<1>2. TablesBuilt => TablesBuilt'
  BY <1>0, TablesKept
<1>3. SectionsBuilt => SectionsBuilt'
  BY <1>0, SectionsStay DEF SectionsBuilt
<1> QED
  BY <1>1, <1>2, <1>3 DEF PromptInv

\* Nothing is built while the review context is still to come.
LEMMA PromptStep ==
  ASSUME ReviewInv, PromptInv, [AnalysisNext]_analysisVars
  PROVE  PromptInv'
<1>1. CASE \/ Compare \/ NoModels \/ BeginBehavior \/ Traverse \/ Operate
            \/ Discover \/ Review
  <2>1. stage \notin {"llm", "done"} /\ UNCHANGED llmVars
    BY <1>1 DEF Compare, NoModels, BeginBehavior, Traverse, Operate, Discover, Review
  <2>2. built = "none" /\ built' = "none" /\ prompt' = prompt
    BY <2>1 DEF ReviewInv, llmVars
  <2> QED
    BY <2>2 DEF PromptInv
<1>2. CASE ToLLM
  <2>1. LLMNext /\ UNCHANGED <<change, executions, facts>>
    BY <1>2 DEF ToLLM, reviewVars, changeVars
  <2> QED
    BY <2>1, FilesStep, TablesStep, SectionsStep DEF LLMNext
<1>3. CASE UNCHANGED analysisVars
  BY <1>3, PromptStays DEF analysisVars, reviewVars, llmVars, changeVars
<1> QED
  BY <1>1, <1>2, <1>3 DEF AnalysisNext

THEOREM PromptInvariant == AnalysisSpec => []PromptInv
<1>1. AnalysisInit => PromptInv
  BY InitPrompt
<1>2. ReviewInv /\ PromptInv /\ [AnalysisNext]_analysisVars => PromptInv'
  BY PromptStep
<1> QED
  BY <1>1, <1>2, ReviewInvariant, PTL DEF AnalysisSpec

\* The changed files that are not noise are in scope, each once.
LEMMA ScopeRows ==
  ASSUME ChangeRows(change)
  PROVE  /\ Scope \in Seq(ChangeEntry) /\ Len(Scope) \in Nat /\ DOMAIN Scope = 1 .. Len(Scope)
         /\ \A k \in DOMAIN Scope : /\ Scope[k].changes = ChangesIn(Scope[k].file)
                                    /\ \E s \in facts.symbols : Scope[k].file = s[3]
         /\ \A s \in facts.symbols :
              s[3] \notin Noise => \E k \in DOMAIN Scope : Scope[k].file = s[3]
         /\ \A k, l \in DOMAIN Scope : Scope[k].file = Scope[l].file => k = l
<1> DEFINE I == {i \in DOMAIN change : change[i].file \notin Noise}
           t == Those(change, I)
<1>1. change \in Seq(ChangeEntry) /\ I \in SUBSET DOMAIN change
  BY DEF ChangeRows
<1>2. t \in Seq(ChangeEntry) /\ Picked(t, change, I)
  <2> HIDE DEF I
  <2> QED
    BY <1>1, ThosePicked
<1>3. Len(t) \in Nat /\ DOMAIN t = 1 .. Len(t)
  <2> HIDE DEF t
  <2> QED
    BY <1>2, LenProperties
<1>4. Scope = t
  BY DEF Scope
<1> HIDE DEF t
<1>5. PICK a \in [DOMAIN t -> I] :
        /\ \A k \in DOMAIN t : t[k] = change[a[k]]
        /\ \A i \in I : \E k \in DOMAIN t : a[k] = i
        /\ \A k, l \in DOMAIN t : a[k] = a[l] => k = l
  BY <1>2 DEF Picked
<1>6. \A k \in DOMAIN t : a[k] \in DOMAIN change /\ t[k] = change[a[k]]
  BY <1>5
<1>7. \A k \in DOMAIN t : /\ t[k].changes = ChangesIn(t[k].file)
                          /\ \E s \in facts.symbols : t[k].file = s[3]
  BY <1>6 DEF ChangeRows
<1>8. ASSUME NEW s \in facts.symbols, s[3] \notin Noise
      PROVE  \E k \in DOMAIN t : t[k].file = s[3]
  <2>1. PICK i \in DOMAIN change : change[i].file = s[3]
    BY DEF ChangeRows
  <2>2. i \in I
    BY <1>8, <2>1
  <2>3. PICK k \in DOMAIN t : a[k] = i
    BY <1>5, <2>2
  <2> QED
    BY <1>6, <2>1, <2>3
<1>9. \A k, l \in DOMAIN t : t[k].file = t[l].file => k = l
  <2> SUFFICES ASSUME NEW k \in DOMAIN t, NEW l \in DOMAIN t, t[k].file = t[l].file PROVE k = l
    OBVIOUS
  <2>1. a[k] = a[l]
    BY <1>6 DEF ChangeRows
  <2> QED
    BY <1>5, <2>1
<1> QED
  BY <1>2, <1>3, <1>4, <1>7, <1>8, <1>9

\* The file table, and what is found in it.
LEMMA FileFound ==
  ASSUME ChangeRows(change), prompt.files = FileTable, NEW f
  PROVE  /\ DOMAIN prompt.files = DOMAIN Scope
         /\ \A k \in DOMAIN Scope : prompt.files[k] = Scope[k].file
         /\ FileAt(f) # None =>
              /\ FileAt(f) \in Nat /\ FileAt(f) + 1 \in DOMAIN prompt.files
              /\ prompt.files[FileAt(f) + 1] = f
         /\ (\A s \in facts.symbols : s[3] # f => BaseOf[s[3]] # BaseOf[f]) =>
              \A k \in DOMAIN Scope : Scope[k].file = f => FileAt(f) # None
<1> DEFINE at == {i \in DOMAIN prompt.files :
                    prompt.files[i] = f /\ \A j \in DOMAIN prompt.files :
                      j > i => BaseOf[prompt.files[j]] # BaseOf[f]}
           m == CHOOSE i \in at : TRUE
<1>1. /\ DOMAIN prompt.files = DOMAIN Scope
      /\ \A k \in DOMAIN Scope : prompt.files[k] = Scope[k].file
  BY DEF FileTable
<1>2. FileAt(f) = IF at = {} THEN None ELSE m - 1
  BY DEF FileAt
<1>3. Len(Scope) \in Nat /\ DOMAIN Scope = 1 .. Len(Scope)
  BY ScopeRows
<1>4. ASSUME at # {}
      PROVE  /\ m - 1 \in Nat /\ (m - 1) + 1 \in DOMAIN prompt.files
             /\ prompt.files[(m - 1) + 1] = f
  <2>1. m \in at
    BY <1>4
  <2>2. m \in 1 .. Len(Scope) /\ m \in DOMAIN prompt.files /\ prompt.files[m] = f
    BY <1>1, <1>3, <2>1
  <2> HIDE DEF m, at
  <2>3. m - 1 \in Nat /\ (m - 1) + 1 = m
    BY <1>3, <2>2
  <2> QED
    BY <2>2, <2>3
<1>5. ASSUME \A s \in facts.symbols : s[3] # f => BaseOf[s[3]] # BaseOf[f],
             NEW k \in DOMAIN Scope, Scope[k].file = f
      PROVE  k \in at
  <2> SUFFICES ASSUME NEW j \in DOMAIN Scope, j > k
               PROVE  BaseOf[Scope[j].file] # BaseOf[f]
    BY <1>1, <1>5
  <2>1. Scope[j].file # f
    <3>1. j # k
      BY <1>3
    <3> QED
      BY <1>5, <3>1, ScopeRows
  <2>2. PICK s \in facts.symbols : Scope[j].file = s[3]
    BY ScopeRows
  <2> QED
    BY <1>5, <2>1, <2>2
<1> HIDE DEF at, m
<1>6. ASSUME at # {} PROVE FileAt(f) # None
  BY <1>2, <1>4, <1>6, LLMAssumption
<1> QED
  BY <1>1, <1>2, <1>4, <1>5, <1>6

\* What is found in the symbol table.
LEMMA SymbolFound ==
  ASSUME NEW T, prompt.symbols \in Seq(T), NEW s,
         NEW i \in DOMAIN prompt.symbols, prompt.symbols[i].symbol = s
  PROVE  /\ SymbolIndex(s) \in Nat /\ SymbolIndex(s) + 1 \in DOMAIN prompt.symbols
         /\ prompt.symbols[SymbolIndex(s) + 1].symbol = s
<1> DEFINE at == {k \in DOMAIN prompt.symbols : prompt.symbols[k].symbol = s}
           m == CHOOSE k \in at : TRUE
<1>1. SymbolIndex(s) = m - 1
  BY DEF SymbolIndex
<1>2. m \in at
  OBVIOUS
<1>3. Len(prompt.symbols) \in Nat /\ DOMAIN prompt.symbols = 1 .. Len(prompt.symbols)
  BY LenProperties
<1>4. m \in 1 .. Len(prompt.symbols) /\ prompt.symbols[m].symbol = s
  BY <1>2, <1>3
<1> HIDE DEF m, at
<1>5. m - 1 \in Nat /\ (m - 1) + 1 = m
  BY <1>3, <1>4
<1> QED
  BY <1>1, <1>3, <1>4, <1>5

\* The executions that are retained: the first of each method and path.
LEMMA RetainedRows ==
  ASSUME ExecutionRows(executions), retained = Retained
  PROVE  /\ retained \in Seq(Execution) /\ Len(retained) <= Len(executions)
         /\ \A k \in DOMAIN retained : \E i \in DOMAIN executions : retained[k] = executions[i]
         /\ \A i \in DOMAIN executions : \E k \in DOMAIN retained :
              Key(retained[k]) = Key(executions[i])
<1> DEFINE I == {i \in DOMAIN executions :
                   \A j \in DOMAIN executions : j < i => Key(executions[j]) # Key(executions[i])}
           t == Those(executions, I)
<1>1. executions \in Seq(Execution) /\ I \in SUBSET DOMAIN executions
  BY DEF ExecutionRows
<1>2. t \in Seq(Execution) /\ Picked(t, executions, I) /\ Len(t) <= Len(executions)
  <2> HIDE DEF I
  <2> QED
    BY <1>1, ThosePicked
<1>3. retained = t
  BY DEF Retained
<1> HIDE DEF t
<1>4. PICK a \in [DOMAIN t -> I] :
        /\ \A k \in DOMAIN t : t[k] = executions[a[k]]
        /\ \A i \in I : \E k \in DOMAIN t : a[k] = i
  BY <1>2 DEF Picked
<1>5. \A k \in DOMAIN t : \E i \in DOMAIN executions : t[k] = executions[i]
  BY <1>4
<1>6. ASSUME NEW i \in DOMAIN executions
      PROVE  \E k \in DOMAIN t : Key(t[k]) = Key(executions[i])
  <2> DEFINE same == {j \in DOMAIN executions : Key(executions[j]) = Key(executions[i])}
  <2>1. DOMAIN executions = 1 .. Len(executions) /\ Len(executions) \in Nat
    BY <1>1, LenProperties
  <2>2. same \in SUBSET Nat /\ same # {}
    BY <1>6, <2>1
  <2>3. PICK m \in same : \A j \in same : m <= j
    <3> HIDE DEF same
    <3> QED
      BY <2>2, LeastNumber
  <2>4. m \in DOMAIN executions /\ Key(executions[m]) = Key(executions[i])
    BY <2>3
  <2>5. ASSUME NEW j \in DOMAIN executions, j < m
        PROVE  Key(executions[j]) # Key(executions[m])
    <3>1. j \notin same
      BY <2>1, <2>3, <2>4, <2>5
    <3> QED
      BY <2>4, <3>1
  <2>6. m \in I
    BY <2>4, <2>5
  <2>7. PICK k \in DOMAIN t : a[k] = m
    BY <1>4, <2>6
  <2> QED
    BY <1>4, <2>4, <2>7
<1> QED
  BY <1>2, <1>3, <1>5, <1>6

\* Those that are selected: the first ones, up to the limit.
LEMMA SelectedRows ==
  ASSUME retained \in Seq(Execution)
  PROVE  /\ Selected \in Seq(Execution)
         /\ Len(Selected) = Least(MaxEndpoints, Len(retained))
         /\ Len(Selected) \in Nat /\ DOMAIN Selected = 1 .. Len(Selected)
         /\ \A k \in DOMAIN Selected : k \in DOMAIN retained /\ Selected[k] = retained[k]
         /\ Len(retained) <= MaxEndpoints => DOMAIN Selected = DOMAIN retained
<1> DEFINE n == Least(MaxEndpoints, Len(retained))
<1>1. Len(retained) \in Nat /\ DOMAIN retained = 1 .. Len(retained)
  BY LenProperties
<1>2. n \in Nat /\ n <= Len(retained) /\ 1 .. n \subseteq 1 .. Len(retained)
      /\ (Len(retained) <= MaxEndpoints => n = Len(retained))
  BY <1>1, LLMAssumption DEF Least
<1>3. \A i \in 1 .. n : retained[i] \in Execution
  BY <1>2, ElementOfSeq
<1>4. Selected = SubSeq(retained, 1, n)
  BY DEF Selected
<1> HIDE DEF n
<1>5. /\ SubSeq(retained, 1, n) \in Seq(Execution)
      /\ Len(SubSeq(retained, 1, n)) = IF 1 <= n THEN n - 1 + 1 ELSE 0
      /\ \A i \in 1 .. n - 1 + 1 : SubSeq(retained, 1, n)[i] = retained[1 + i - 1]
  BY <1>2, <1>3, SubSeqProperties
<1>6. Len(Selected) = n /\ DOMAIN Selected = 1 .. n
  BY <1>2, <1>4, <1>5, LenProperties
<1>7. \A i \in 1 .. n : Selected[i] = retained[i]
  <2> SUFFICES ASSUME NEW i \in 1 .. n PROVE Selected[i] = retained[i]
    OBVIOUS
  <2>1. i \in 1 .. n - 1 + 1 /\ 1 + i - 1 = i
    BY <1>2
  <2> QED
    BY <1>4, <1>5, <2>1
<1> QED
  BY <1>1, <1>2, <1>4, <1>5, <1>6, <1>7 DEF n

SymbolEntry == [file : Nat, symbol : Numbers]

\* The rows of the handlers, of which there is one where nothing else is in the table.
LEMMA HandlerRows ==
  ASSUME retained \in Seq(Execution), IsFiniteSet(ChangedIn)
  PROVE  /\ HandlerEntries \in Seq(SymbolEntry)
         /\ \A k \in DOMAIN HandlerEntries : HandlerEntries[k].file = 0
         /\ (ChangedIn = {} /\ Selected # <<>> /\ MaxPerFile # 0) => 1 \in DOMAIN HandlerEntries
<1> DEFINE new(i) ==
             /\ \A p \in ChangedIn : p[2] # Selected[i].handler
             /\ \A j \in DOMAIN Selected : j < i => Selected[j].handler # Selected[i].handler
           I == {i \in DOMAIN Selected : new(i)}
           fresh == Those(Selected, I)
           at == {p \in ChangedIn : ChangedEntry(p).file = 0}
           taken == Cardinality(at)
           room == IF taken < MaxPerFile THEN MaxPerFile - taken ELSE 0
           n == Least(room, Len(fresh))
<1>1. HandlerEntries = [k \in 1 .. n |-> [file |-> 0, symbol |-> fresh[k].handler]]
  BY DEF HandlerEntries
<1>2. Selected \in Seq(Execution) /\ I \in SUBSET DOMAIN Selected
  BY SelectedRows
<1>3. fresh \in Seq(Execution) /\ Picked(fresh, Selected, I)
  <2> HIDE DEF I
  <2> QED
    BY <1>2, ThosePicked
<1>4. taken \in Nat /\ (ChangedIn = {} => taken = 0)
  <2>1. IsFiniteSet(at) /\ (ChangedIn = {} => at = {})
    <3>1. at \in SUBSET ChangedIn
      OBVIOUS
    <3> HIDE DEF at
    <3> QED
      BY <3>1, FS_Subset
  <2> HIDE DEF at
  <2> QED
    BY <2>1, FS_CardinalityType, FS_EmptySet
<1> HIDE DEF fresh, taken
<1>5. Len(fresh) \in Nat /\ DOMAIN fresh = 1 .. Len(fresh)
  BY <1>3, LenProperties
<1>6. /\ room \in Nat /\ n \in Nat /\ 1 .. n \subseteq 1 .. Len(fresh)
      /\ (taken = 0 /\ MaxPerFile # 0 /\ Len(fresh) >= 1 => n >= 1)
  BY <1>4, <1>5, LLMAssumption DEF Least
<1>7. \A k \in 1 .. n : [file |-> 0, symbol |-> fresh[k].handler] \in SymbolEntry
  <2> SUFFICES ASSUME NEW k \in 1 .. n PROVE fresh[k].handler \in Numbers
    BY DEF SymbolEntry
  <2>1. k \in 1 .. Len(fresh)
    BY <1>6
  <2>2. fresh[k] \in Execution
    BY <1>3, <2>1, ElementOfSeq
  <2> QED
    BY <2>2 DEF Execution
<1> HIDE DEF n, room
<1>8. HandlerEntries \in [1 .. n -> SymbolEntry]
  BY <1>1, <1>7
<1>9. HandlerEntries \in Seq(SymbolEntry) /\ DOMAIN HandlerEntries = 1 .. n
  BY <1>6, <1>8, FunctionIsSeq
<1>10. \A k \in 1 .. n : HandlerEntries[k].file = 0
  BY <1>1
<1>11. ASSUME ChangedIn = {}, Selected # <<>>, MaxPerFile # 0
       PROVE  1 \in 1 .. n
  <2>1. Len(Selected) \in Nat \ {0} /\ DOMAIN Selected = 1 .. Len(Selected)
    BY <1>2, <1>11, EmptySeq, LenProperties
  <2>2. 1 \in DOMAIN Selected /\ \A j \in DOMAIN Selected : ~(j < 1)
    BY <2>1
  <2>3. 1 \in I
    BY <1>11, <2>2
  <2>4. PICK k \in DOMAIN fresh : TRUE
    BY <1>3, <2>3 DEF Picked
  <2>5. Len(fresh) >= 1
    BY <1>5, <2>4
  <2>6. n >= 1
    BY <1>4, <1>6, <1>11, <2>5
  <2> QED
    BY <1>6, <2>6
<1> QED
  BY <1>9, <1>10, <1>11

\* The changed symbols of the files in scope.
LEMMA ChangedInScope ==
  ASSUME AnalysisInv, ChangeRows(change)
  PROVE  /\ IsFiniteSet(ChangedIn)
         /\ \A p \in ChangedIn : p[1] \in DOMAIN Scope /\ p[2] \in Numbers
         /\ \A k \in DOMAIN Scope : \A c \in Scope[k].changes :
              \E p \in ChangedIn : p[2] = c[1]
<1> DEFINE D == DOMAIN Scope
<1>1. ChangedIds \subseteq Numbers /\ IsFiniteSet(ChangedIds)
  BY ReviewGiven
<1>2. Len(Scope) \in Nat /\ D = 1 .. Len(Scope)
  BY ScopeRows
<1>3. IsFiniteSet(D)
  <2>1. \A n \in Nat : IsFiniteSet(1 .. n)
    BY FS_Interval
  <2> QED
    BY <1>2, <2>1
<1>4. ChangedIn \in SUBSET (D \X ChangedIds)
  BY DEF ChangedIn
<1>5. IsFiniteSet(ChangedIn)
  <2>1. IsFiniteSet(D \X ChangedIds)
    BY <1>1, <1>3, FS_Product
  <2> QED
    BY <1>4, <2>1, FS_Subset
<1>6. \A p \in ChangedIn : p[1] \in D /\ p[2] \in Numbers
  BY <1>1, <1>4
<1>7. ASSUME NEW k \in D, NEW c \in Scope[k].changes
      PROVE  \E p \in ChangedIn : p[2] = c[1]
  <2> DEFINE J == {j \in D : c[1] \in NumbersIn(j)}
  <2>1. c[1] \in ChangedIds
    <3>1. c \in facts.symbols
      BY <1>7, ScopeRows DEF ChangesIn
    <3> QED
      BY <3>1 DEF ChangedIds
  <2>2. k \in J
    BY <1>7 DEF NumbersIn
  <2>3. PICK j \in J : \A l \in J : j <= l
    <3>1. J \in SUBSET Nat /\ J # {}
      BY <1>2, <2>2
    <3> HIDE DEF J
    <3> QED
      BY <3>1, LeastNumber
  <2>4. \A l \in D : l < j => c[1] \notin NumbersIn(l)
    BY <1>2, <2>3
  <2>5. <<j, c[1]>> \in ChangedIn
    BY <2>1, <2>3, <2>4 DEF ChangedIn
  <2> QED
    BY <2>5
<1> QED
  BY <1>5, <1>6, <1>7

\* The symbol table has a row for each of them, with a file of the file table.
LEMMA SymbolRows ==
  ASSUME AnalysisInv, StageInv, ChangeRows(change), retained \in Seq(Execution),
         FilesBuilt, TablesBuilt
  PROVE  /\ prompt.symbols \in Seq(SymbolEntry)
         /\ \A p \in ChangedIn : \E i \in DOMAIN prompt.symbols : prompt.symbols[i].symbol = p[2]
         /\ prompt.files # <<>> =>
              \A i \in DOMAIN prompt.symbols : prompt.symbols[i].file + 1 \in DOMAIN prompt.files
         /\ (Selected # <<>> /\ MaxPerFile # 0) => 1 \in DOMAIN prompt.symbols
<1>1. PICK q \in ChangedOrders :
        prompt.symbols = [k \in DOMAIN q |-> ChangedEntry(q[k])] \o HandlerEntries
  BY DEF TablesBuilt
<1> DEFINE s == [k \in DOMAIN q |-> ChangedEntry(q[k])]
           t == HandlerEntries
           n == Cardinality(ChangedIn)
<1>2. /\ IsFiniteSet(ChangedIn)
      /\ \A p \in ChangedIn : p[1] \in DOMAIN Scope /\ p[2] \in Numbers
  BY ChangedInScope
<1>3. q \in Orders(ChangedIn)
  BY DEF ChangedOrders
<1>4. /\ n \in Nat /\ q \in [1 .. n -> ChangedIn] /\ DOMAIN q = 1 .. n
      /\ \A p \in ChangedIn : \E i \in DOMAIN q : q[i] = p
  <2>1. q \in [1 .. n -> ChangedIn]
    BY <1>3 DEF Orders
  <2> QED
    BY <1>2, <1>3, <2>1, OrdersAreWhole
<1>5. \A f : OrZero(FileAt(f)) \in Nat
             /\ (prompt.files # <<>> => OrZero(FileAt(f)) + 1 \in DOMAIN prompt.files)
  <2> SUFFICES ASSUME NEW f
               PROVE  OrZero(FileAt(f)) \in Nat
                      /\ (prompt.files # <<>> => OrZero(FileAt(f)) + 1 \in DOMAIN prompt.files)
    OBVIOUS
  <2>1. /\ DOMAIN prompt.files = DOMAIN Scope
        /\ FileAt(f) # None =>
             FileAt(f) \in Nat /\ FileAt(f) + 1 \in DOMAIN prompt.files
    BY FileFound DEF FilesBuilt
  <2>2. CASE FileAt(f) # None
    BY <2>1, <2>2 DEF OrZero
  <2>3. CASE FileAt(f) = None
    <3>1. OrZero(FileAt(f)) = 0
      BY <2>3 DEF OrZero
    <3>2. ASSUME prompt.files # <<>> PROVE 1 \in DOMAIN prompt.files
      <4>1. prompt.files = [k \in DOMAIN Scope |-> Scope[k].file]
        BY DEF FilesBuilt, FileTable
      <4>2. Len(Scope) \in Nat /\ DOMAIN Scope = 1 .. Len(Scope)
        BY ScopeRows
      <4>3. Len(Scope) # 0
        <5> SUFFICES ASSUME Len(Scope) = 0 PROVE FALSE
          OBVIOUS
        <5>1. 1 .. 0 = {}
          OBVIOUS
        <5>2. DOMAIN Scope = {}
          BY <4>2, <5>1
        <5>3. Scope = <<>>
          BY <4>2, ScopeRows, EmptySeq
        <5> QED
          BY <3>2, <4>1, <5>2, <5>3
      <4> QED
        BY <2>1, <4>2, <4>3
    <3> QED
      BY <3>1, <3>2
  <2> QED
    BY <2>2, <2>3
<1>6. ASSUME NEW k \in DOMAIN q
      PROVE  /\ ChangedEntry(q[k]) \in SymbolEntry /\ ChangedEntry(q[k]).symbol = q[k][2]
             /\ prompt.files # <<>> => ChangedEntry(q[k]).file + 1 \in DOMAIN prompt.files
  <2>1. q[k] \in ChangedIn
    BY <1>4, <1>6
  <2>2. q[k][2] \in Numbers
    BY <1>2, <2>1
  <2> QED
    BY <1>5, <2>2 DEF ChangedEntry, SymbolEntry
<1>7. s \in [1 .. n -> SymbolEntry]
  BY <1>4, <1>6
<1>8. \A k \in DOMAIN q : s[k] = ChangedEntry(q[k])
  OBVIOUS
<1> HIDE DEF s
<1>9. s \in Seq(SymbolEntry) /\ DOMAIN s = DOMAIN q /\ Len(s) = n
  BY <1>4, <1>7, FunctionIsSeq
<1>10. /\ t \in Seq(SymbolEntry)
       /\ \A k \in DOMAIN t : t[k].file = 0
       /\ (ChangedIn = {} /\ Selected # <<>> /\ MaxPerFile # 0) => 1 \in DOMAIN t
  BY <1>2, HandlerRows
<1>11. prompt.symbols = s \o t
  BY <1>1 DEF s
<1> HIDE DEF t, n
<1>12. /\ s \o t \in Seq(SymbolEntry)
       /\ DOMAIN s \subseteq DOMAIN (s \o t)
       /\ \A i \in DOMAIN s : (s \o t)[i] = s[i]
       /\ \A j \in DOMAIN t : Len(s) + j \in DOMAIN (s \o t) /\ (s \o t)[Len(s) + j] = t[j]
       /\ \A i \in DOMAIN (s \o t) : i \in DOMAIN s \/ \E j \in DOMAIN t : i = Len(s) + j
  BY <1>9, <1>10, Joined
<1>13. ASSUME NEW p \in ChangedIn
       PROVE  \E i \in DOMAIN prompt.symbols : prompt.symbols[i].symbol = p[2]
  <2>1. PICK i \in DOMAIN q : q[i] = p
    BY <1>4
  <2>2. i \in DOMAIN s /\ s[i].symbol = p[2]
    BY <1>6, <1>8, <1>9, <2>1
  <2> QED
    BY <1>11, <1>12, <2>2
<1>14. ASSUME prompt.files # <<>>, NEW i \in DOMAIN prompt.symbols
       PROVE  prompt.symbols[i].file + 1 \in DOMAIN prompt.files
  <2>1. CASE i \in DOMAIN s
    BY <1>6, <1>8, <1>9, <1>11, <1>12, <1>14, <2>1
  <2>2. CASE \E j \in DOMAIN t : i = Len(s) + j
    <3>1. prompt.symbols[i].file = 0
      BY <1>10, <1>11, <1>12, <2>2
    <3>2. 1 \in DOMAIN prompt.files
      <4>1. None # 0 /\ OrZero(None) = 0
        BY LLMAssumption DEF OrZero
      <4>2. OrZero(FileAt(None)) \in Nat /\ OrZero(FileAt(None)) + 1 \in DOMAIN prompt.files
        BY <1>5, <1>14
      <4>3. DOMAIN prompt.files = 1 .. Len(Scope) /\ Len(Scope) \in Nat
        BY FileFound, ScopeRows DEF FilesBuilt
      <4> QED
        BY <4>2, <4>3
    <3> QED
      BY <3>1, <3>2
  <2> QED
    BY <1>11, <1>12, <1>14, <2>1, <2>2
<1>15. ASSUME Selected # <<>>, MaxPerFile # 0
       PROVE  1 \in DOMAIN prompt.symbols
  <2>1. DOMAIN prompt.symbols = 1 .. Len(prompt.symbols) /\ Len(prompt.symbols) \in Nat
    BY <1>11, <1>12, LenProperties
  <2>2. PICK i \in DOMAIN prompt.symbols : TRUE
    <3>1. CASE ChangedIn = {}
      BY <1>10, <1>11, <1>12, <1>15, <3>1
    <3>2. CASE ChangedIn # {}
      BY <1>13, <3>2
    <3> QED
      BY <3>1, <3>2
  <2> QED
    BY <2>1, <2>2
<1> QED
  BY <1>11, <1>12, <1>13, <1>14, <1>15

\* What is found in the table of the endpoints.
LEMMA EndpointFound ==
  ASSUME NEW n \in Nat, DOMAIN prompt.endpoints = 1 .. n, NEW x
  PROVE  /\ EndpointAt(x) # None =>
              /\ EndpointAt(x) \in DOMAIN prompt.endpoints
              /\ prompt.endpoints[EndpointAt(x)] = [method |-> x.method, path |-> x.path]
         /\ \A i \in DOMAIN prompt.endpoints :
              prompt.endpoints[i] = [method |-> x.method, path |-> x.path]
                => EndpointAt(x) # None
<1> DEFINE at == {i \in DOMAIN prompt.endpoints :
                    prompt.endpoints[i] = [method |-> x.method, path |-> x.path]}
           m == CHOOSE i \in at : \A j \in at : i >= j
<1>1. EndpointAt(x) = IF at = {} THEN None ELSE m
  BY DEF EndpointAt
<1>2. at \in SUBSET (1 .. n)
  OBVIOUS
<1>3. ASSUME at # {} PROVE m \in at
  <2>1. \E i \in at : \A j \in at : i >= j
    <3> HIDE DEF at
    <3> QED
      BY <1>2, <1>3, GreatestNumber
  <2> QED
    BY <2>1
<1>4. \A i \in at : i \in DOMAIN prompt.endpoints /\ i # None
                    /\ prompt.endpoints[i] = [method |-> x.method, path |-> x.path]
  <2>1. \A i \in 1 .. n : i # None
    BY LLMAssumption
  <2> QED
    BY <1>2, <2>1
<1>5. \A i \in DOMAIN prompt.endpoints :
        prompt.endpoints[i] = [method |-> x.method, path |-> x.path] => i \in at
  OBVIOUS
<1> HIDE DEF at, m
<1> QED
  BY <1>1, <1>3, <1>4, <1>5

TellsOf(k) == [file |-> FileAt(Scope[k].file), symbols |-> IndicesOf(Scope[k].changes)]
Traced(k) ==
  [endpoint |-> EndpointAt(retained[k]) - 1, symbol |-> OrZero(SymbolIndex(retained[k].handler))]

\* The sections tell of every file that is found, and of every endpoint.
LEMMA ChangesListed ==
  ASSUME ChangeRows(change), prompt.changes = ChangeEntries
  PROVE  /\ \A i \in DOMAIN prompt.changes : \E k \in DOMAIN Scope :
              FileAt(Scope[k].file) # None /\ prompt.changes[i] = TellsOf(k)
         /\ \A k \in DOMAIN Scope : FileAt(Scope[k].file) # None =>
              \E i \in DOMAIN prompt.changes : prompt.changes[i] = TellsOf(k)
<1> DEFINE I == {k \in DOMAIN Scope : FileAt(Scope[k].file) # None}
           t == Those(Scope, I)
<1>1. Scope \in Seq(ChangeEntry) /\ I \in SUBSET DOMAIN Scope
  BY ScopeRows
<1>2. Picked(t, Scope, I)
  <2> HIDE DEF I
  <2> QED
    BY <1>1, ThosePicked
<1>3. prompt.changes = [k \in DOMAIN t |-> [file |-> FileAt(t[k].file),
                                            symbols |-> IndicesOf(t[k].changes)]]
  BY DEF ChangeEntries
<1> HIDE DEF t
<1>4. PICK a \in [DOMAIN t -> I] : /\ \A k \in DOMAIN t : t[k] = Scope[a[k]]
                                   /\ \A i \in I : \E k \in DOMAIN t : a[k] = i
  BY <1>2 DEF Picked
<1>5. \A k \in DOMAIN t : a[k] \in I /\ prompt.changes[k] = TellsOf(a[k])
  BY <1>3, <1>4 DEF TellsOf
<1>6. DOMAIN prompt.changes = DOMAIN t
  BY <1>3
<1> QED
  BY <1>4, <1>5, <1>6

LEMMA EndpointsTraced ==
  ASSUME retained \in Seq(Execution), prompt.entries = TracedEntries
  PROVE  /\ \A i \in DOMAIN prompt.entries : \E k \in DOMAIN retained :
              EndpointAt(retained[k]) # None /\ prompt.entries[i] = Traced(k)
         /\ \A k \in DOMAIN retained : EndpointAt(retained[k]) # None =>
              \E i \in DOMAIN prompt.entries : prompt.entries[i] = Traced(k)
<1> DEFINE t == Those(retained, Found)
<1>1. Found \in SUBSET DOMAIN retained
  BY DEF Found
<1>2. Picked(t, retained, Found)
  BY <1>1, ThosePicked
<1>3. prompt.entries = [k \in DOMAIN t |->
        [endpoint |-> EndpointAt(t[k]) - 1, symbol |-> OrZero(SymbolIndex(t[k].handler))]]
  BY DEF TracedEntries
<1> HIDE DEF t
<1>4. PICK a \in [DOMAIN t -> Found] : /\ \A k \in DOMAIN t : t[k] = retained[a[k]]
                                       /\ \A i \in Found : \E k \in DOMAIN t : a[k] = i
  BY <1>2 DEF Picked
<1>5. \A k \in DOMAIN t : a[k] \in Found /\ prompt.entries[k] = Traced(a[k])
  BY <1>3, <1>4 DEF Traced
<1>6. DOMAIN prompt.entries = DOMAIN t
  BY <1>3
<1>7. \A k \in DOMAIN retained : k \in Found <=> EndpointAt(retained[k]) # None
  BY DEF Found
<1> QED
  BY <1>1, <1>4, <1>5, <1>6, <1>7

\* What the sections rest on.
Sections ==
  /\ ChangeRows(change) /\ ExecutionRows(executions)
  /\ retained \in Seq(Execution)
  /\ FilesBuilt /\ TablesBuilt /\ SectionsBuilt

LEMMA SectionsGiven ==
  ASSUME ReviewInv, PromptInv, built = "sections"
  PROVE  Sections
<1>1. FilesBuilt /\ TablesBuilt /\ SectionsBuilt
  BY DEF PromptInv
<1>2. ChangeRows(change) /\ ExecutionRows(executions)
  BY DEF ReviewInv
<1>3. retained \in Seq(Execution)
  BY <1>1, <1>2, RetainedRows DEF FilesBuilt
<1> QED
  BY <1>1, <1>2, <1>3 DEF Sections

LEMMA ToldOfChanges ==
  ASSUME AnalysisInv, StageInv, ReviewInv, PromptInv
  PROVE  ChangesTold
<1> SUFFICES ASSUME built = "sections", NEW c \in facts.symbols, c[3] \notin Noise,
                    \A d \in facts.symbols : d[3] # c[3] => BaseOf[d[3]] # BaseOf[c[3]]
             PROVE  \E i \in DOMAIN prompt.changes :
                      /\ prompt.changes[i].file + 1 \in
                           {j \in DOMAIN prompt.files : prompt.files[j] = c[3]}
                      /\ \E k \in DOMAIN prompt.symbols :
                           prompt.symbols[k].symbol = c[1] /\ k - 1 \in prompt.changes[i].symbols
  BY DEF ChangesTold
<1> DEFINE f == c[3]
<1>1. Sections
  BY SectionsGiven
<1>3. PICK k \in DOMAIN Scope : Scope[k].file = f
  BY <1>1, ScopeRows DEF Sections
<1>4. /\ FileAt(f) # None /\ FileAt(f) \in Nat /\ FileAt(f) + 1 \in DOMAIN prompt.files
      /\ prompt.files[FileAt(f) + 1] = f
  BY <1>1, <1>3, FileFound DEF Sections, FilesBuilt
<1>5. PICK i \in DOMAIN prompt.changes : prompt.changes[i] = TellsOf(k)
  BY <1>1, <1>3, <1>4, ChangesListed DEF Sections, SectionsBuilt
<1>6. prompt.changes[i].file = FileAt(f)
      /\ prompt.changes[i].symbols = IndicesOf(Scope[k].changes)
  BY <1>3, <1>5 DEF TellsOf
<1>7. c \in Scope[k].changes
  <2>1. Scope[k].changes = ChangesIn(Scope[k].file)
    BY <1>1, <1>3, ScopeRows DEF Sections
  <2> QED
    BY <1>3, <2>1 DEF ChangesIn
<1>8. SymbolIndex(c[1]) \in prompt.changes[i].symbols
  BY <1>6, <1>7 DEF IndicesOf
<1>9. \E p \in ChangedIn : p[2] = c[1]
  BY <1>1, <1>3, <1>7, ChangedInScope DEF Sections
<1>10. /\ prompt.symbols \in Seq(SymbolEntry)
       /\ \A p \in ChangedIn : \E j \in DOMAIN prompt.symbols : prompt.symbols[j].symbol = p[2]
  BY <1>1, SymbolRows DEF Sections
<1>11. PICK j \in DOMAIN prompt.symbols : prompt.symbols[j].symbol = c[1]
  BY <1>9, <1>10
<1>12. /\ SymbolIndex(c[1]) \in Nat /\ SymbolIndex(c[1]) + 1 \in DOMAIN prompt.symbols
       /\ prompt.symbols[SymbolIndex(c[1]) + 1].symbol = c[1]
  BY <1>10, <1>11, SymbolFound
<1>13. (SymbolIndex(c[1]) + 1) - 1 \in prompt.changes[i].symbols
  BY <1>8, <1>12
<1> QED
  BY <1>4, <1>6, <1>12, <1>13

LEMMA ToldOfEndpoints ==
  ASSUME AnalysisInv, StageInv, ReviewInv, PromptInv
  PROVE  EndpointsTold
<1> SUFFICES ASSUME built = "sections", Len(executions) <= MaxEndpoints,
                    NEW n \in endpoints, entryOf[n].method \in KnownMethods,
                    \A m \in endpoints \ {n} : entryOf[m].path # entryOf[n].path,
                    NEW s \in DOMAIN prompt.symbols,
                    prompt.symbols[s].symbol = entryOf[n].handler
             PROVE  \E i \in DOMAIN prompt.entries :
                      /\ prompt.endpoints[prompt.entries[i].endpoint + 1] =
                           [method |-> entryOf[n].method, path |-> entryOf[n].path]
                      /\ prompt.symbols[prompt.entries[i].symbol + 1].symbol = entryOf[n].handler
  BY DEF EndpointsTold
<1> DEFINE e == entryOf[n]
           row == [method |-> e.method, path |-> e.path]
<1>1. Sections
  BY SectionsGiven
<1>2. PICK i \in DOMAIN executions : executions[i] = EndpointExecution(e)
  BY <1>1 DEF Sections, ExecutionRows
<1>3. /\ Len(retained) <= Len(executions)
      /\ \A k \in DOMAIN retained : \E j \in DOMAIN executions : retained[k] = executions[j]
      /\ \A j \in DOMAIN executions : \E k \in DOMAIN retained :
           Key(retained[k]) = Key(executions[j])
  BY <1>1, RetainedRows DEF Sections, FilesBuilt
<1>4. PICK k \in DOMAIN retained : Key(retained[k]) = Key(EndpointExecution(e))
  BY <1>2, <1>3
<1>5. retained[k] = EndpointExecution(e)
  <2>1. PICK j \in DOMAIN executions : retained[k] = executions[j]
    BY <1>3
  <2>2. PICK m \in endpoints : executions[j] = EndpointExecution(entryOf[m])
    BY <1>1 DEF Sections, ExecutionRows
  <2>3. entryOf[m].path = e.path
    BY <1>4, <2>1, <2>2 DEF Key, EndpointExecution
  <2>4. m = n
    BY <2>3
  <2> QED
    BY <2>1, <2>2, <2>4
<1>6. /\ retained[k].method = e.method /\ retained[k].path = e.path
      /\ retained[k].handler = e.handler
  BY <1>5 DEF EndpointExecution
<1>7. /\ Len(retained) \in Nat /\ DOMAIN retained = 1 .. Len(retained)
      /\ Len(executions) \in Nat
  BY <1>1, LenProperties DEF Sections, ExecutionRows
<1>8. Len(retained) <= MaxEndpoints
  BY <1>3, <1>7, LLMAssumption
<1>9. DOMAIN Selected = DOMAIN retained /\ Selected[k] = retained[k]
  BY <1>1, <1>8, SelectedRows DEF Sections
<1>10. prompt.endpoints = [j \in DOMAIN Selected |->
         [method |-> Encoded(Selected[j]), path |-> Selected[j].path]]
  BY <1>1 DEF Sections, TablesBuilt
<1>11. prompt.endpoints[k] = row
  BY <1>6, <1>9, <1>10 DEF Encoded
<1>12. DOMAIN prompt.endpoints = 1 .. Len(retained)
  BY <1>7, <1>9, <1>10
<1>13. EndpointAt(retained[k]) # None
  BY <1>6, <1>7, <1>9, <1>11, <1>12, EndpointFound
<1>14. /\ EndpointAt(retained[k]) \in 1 .. Len(retained)
       /\ prompt.endpoints[EndpointAt(retained[k])] = row
  BY <1>6, <1>7, <1>12, <1>13, EndpointFound
<1>15. PICK l \in DOMAIN prompt.entries : prompt.entries[l] = Traced(k)
  BY <1>1, <1>13, EndpointsTraced DEF Sections, SectionsBuilt
<1>16. prompt.entries[l].endpoint = EndpointAt(retained[k]) - 1
       /\ prompt.entries[l].symbol = OrZero(SymbolIndex(e.handler))
  BY <1>6, <1>15 DEF Traced
<1>17. prompt.entries[l].endpoint + 1 = EndpointAt(retained[k])
  BY <1>7, <1>14, <1>16
<1>18. prompt.symbols \in Seq(SymbolEntry)
  BY <1>1, SymbolRows DEF Sections
<1>19. /\ SymbolIndex(e.handler) \in Nat
       /\ prompt.symbols[SymbolIndex(e.handler) + 1].symbol = e.handler
  BY <1>18, SymbolFound
<1>20. prompt.entries[l].symbol = SymbolIndex(e.handler)
  BY <1>16, <1>19, LLMAssumption DEF OrZero
<1> QED
  BY <1>14, <1>17, <1>19, <1>20

LEMMA ResolvedIndices ==
  ASSUME MaxPerFile # 0, AnalysisInv, StageInv, ReviewInv, PromptInv
  PROVE  IndicesResolve
<1> SUFFICES ASSUME built = "sections"
             PROVE  /\ \A i \in DOMAIN prompt.symbols :
                         prompt.files # <<>> => prompt.symbols[i].file + 1 \in DOMAIN prompt.files
                    /\ \A i \in DOMAIN prompt.changes :
                         /\ prompt.changes[i].file + 1 \in DOMAIN prompt.files
                         /\ \A n \in prompt.changes[i].symbols : n + 1 \in DOMAIN prompt.symbols
                    /\ \A i \in DOMAIN prompt.entries :
                         /\ prompt.entries[i].endpoint + 1 \in DOMAIN prompt.endpoints
                         /\ prompt.entries[i].symbol + 1 \in DOMAIN prompt.symbols
  BY DEF IndicesResolve
<1>1. Sections
  BY SectionsGiven
<1>2. /\ prompt.symbols \in Seq(SymbolEntry)
      /\ \A p \in ChangedIn : \E i \in DOMAIN prompt.symbols : prompt.symbols[i].symbol = p[2]
      /\ prompt.files # <<>> =>
           \A i \in DOMAIN prompt.symbols : prompt.symbols[i].file + 1 \in DOMAIN prompt.files
      /\ Selected # <<>> => 1 \in DOMAIN prompt.symbols
  BY <1>1, SymbolRows DEF Sections
<1>3. ASSUME NEW i \in DOMAIN prompt.changes
      PROVE  /\ prompt.changes[i].file + 1 \in DOMAIN prompt.files
             /\ \A n \in prompt.changes[i].symbols : n + 1 \in DOMAIN prompt.symbols
  <2>1. PICK k \in DOMAIN Scope : FileAt(Scope[k].file) # None /\ prompt.changes[i] = TellsOf(k)
    BY <1>1, ChangesListed DEF Sections, SectionsBuilt
  <2>2. FileAt(Scope[k].file) + 1 \in DOMAIN prompt.files
    BY <1>1, <2>1, FileFound DEF Sections, FilesBuilt
  <2>3. ASSUME NEW c \in Scope[k].changes
        PROVE  SymbolIndex(c[1]) + 1 \in DOMAIN prompt.symbols
    <3>1. \E p \in ChangedIn : p[2] = c[1]
      BY <1>1, <2>3, ChangedInScope DEF Sections
    <3>2. PICK j \in DOMAIN prompt.symbols : prompt.symbols[j].symbol = c[1]
      BY <1>2, <3>1
    <3> QED
      BY <1>2, <3>2, SymbolFound
  <2> QED
    BY <2>1, <2>2, <2>3 DEF TellsOf, IndicesOf
<1>4. ASSUME NEW i \in DOMAIN prompt.entries
      PROVE  /\ prompt.entries[i].endpoint + 1 \in DOMAIN prompt.endpoints
             /\ prompt.entries[i].symbol + 1 \in DOMAIN prompt.symbols
  <2>1. PICK k \in DOMAIN retained : EndpointAt(retained[k]) # None /\ prompt.entries[i] = Traced(k)
    BY <1>1, EndpointsTraced DEF Sections, SectionsBuilt
  <2> DEFINE m == EndpointAt(retained[k])
             h == retained[k].handler
  <2>2. /\ DOMAIN prompt.endpoints = DOMAIN Selected
        /\ Len(Selected) \in Nat /\ DOMAIN Selected = 1 .. Len(Selected)
    BY <1>1, SelectedRows DEF Sections, TablesBuilt
  <2>3. m \in DOMAIN prompt.endpoints
    BY <2>1, <2>2, EndpointFound
  <2>4. prompt.entries[i].endpoint = m - 1 /\ prompt.entries[i].symbol = OrZero(SymbolIndex(h))
    BY <2>1 DEF Traced
  <2> HIDE DEF m, h
  <2>5. (m - 1) + 1 = m
    BY <2>2, <2>3
  <2>6. 1 \in DOMAIN prompt.symbols
    <3>1. Len(Selected) # 0
      BY <2>2, <2>3
    <3>2. Selected # <<>>
      BY <3>1, EmptySeq
    <3> QED
      BY <1>2, <3>2
  <2>7. OrZero(SymbolIndex(h)) + 1 \in DOMAIN prompt.symbols
    <3>1. CASE \E j \in DOMAIN prompt.symbols : prompt.symbols[j].symbol = h
      <4>1. SymbolIndex(h) \in Nat /\ SymbolIndex(h) + 1 \in DOMAIN prompt.symbols
        BY <1>2, <3>1, SymbolFound
      <4> QED
        BY <4>1, LLMAssumption DEF OrZero
    <3>2. CASE ~ \E j \in DOMAIN prompt.symbols : prompt.symbols[j].symbol = h
      <4>1. SymbolIndex(h) = None
        BY <3>2 DEF SymbolIndex
      <4> QED
        BY <2>6, <4>1 DEF OrZero
    <3> QED
      BY <3>1, <3>2
  <2> QED
    BY <2>3, <2>4, <2>5, <2>7
<1> QED
  BY <1>2, <1>3, <1>4

\* The types of the analysis.
LEMMA AnalysisTyped ==
  ASSUME AnalysisInv, StageInv, DiscoveryInv, ReviewInv, PromptInv
  PROVE  AnalysisTypeOK
<1>1. ChangeTypeOK /\ ImpactTypeOK
  BY ChangeTyped DEF AnalysisInv, ImpactInv
<1>2. caps \in Languages /\ stage \in Stages /\ pass \in DOMAIN After \union {"raised", "end"}
  BY DEF StageInv, ModelInv
<1>3. entryOf \in [handlers -> EntryPoints]
  <2>1. CASE caps.symbols /\ stage # "change"
    BY <2>1 DEF StageInv, Asked
  <2>2. CASE ~(caps.symbols /\ stage # "change")
    <3>1. entryOf = <<>> /\ handlers = {}
      BY <2>2 DEF ReviewInv
    <3> QED
      BY <3>1
  <2> QED
    BY <2>1, <2>2
<1>4. step \in {"none", "dominant", "boundary", "gap", "significance", "ranking",
                "surprise", "compression", "build", "end"}
  BY DEF DiscoveryInv, Fits, Finding, Weighing
<1>5. ASSUME NEW i \in DOMAIN found
      PROVE  found[i].kind \in FoundKinds \union {"compressed"} /\ found[i].importance \in 0 .. 100
  <2>1. found \in Seq(Discoveries)
    BY DEF DiscoveryInv, Fits
  <2>2. i \in 1 .. Len(found)
    BY <1>5, <2>1, LenProperties
  <2>3. found[i] \in Discoveries
    BY <2>1, <2>2, ElementOfSeq
  <2> QED
    BY <2>3 DEF Discoveries
<1>6. ASSUME NEW i \in DOMAIN change
      PROVE  change[i].file \in Files /\ change[i].changes \subseteq facts.symbols
  <2>1. change \in Seq(ChangeEntry)
    <3>1. CASE stage \in {"llm", "done"}
      BY <3>1 DEF ReviewInv, ChangeRows
    <3>2. CASE stage \notin {"llm", "done"}
      BY <3>2, EmptySeq DEF ReviewInv
    <3> QED
      BY <3>1, <3>2
  <2>2. i \in 1 .. Len(change)
    BY <1>6, <2>1, LenProperties
  <2>3. change[i] \in ChangeEntry
    BY <2>1, <2>2, ElementOfSeq
  <2> QED
    BY <2>3 DEF ChangeEntry
<1>7. ASSUME NEW i \in DOMAIN prompt.symbols
      PROVE  prompt.symbols[i].symbol \in Numbers
  <2>1. prompt.symbols \in Seq(SymbolEntry)
    <3>1. CASE built \in {"none", "files"}
      BY <3>1, EmptySeq DEF PromptInv
    <3>2. CASE built \in {"tables", "sections"}
      <4>1. FilesBuilt /\ TablesBuilt
        BY <3>2 DEF PromptInv
      <4>2. ChangeRows(change) /\ ExecutionRows(executions)
        BY <3>2 DEF ReviewInv
      <4>3. retained \in Seq(Execution)
        BY <4>1, <4>2, RetainedRows DEF FilesBuilt
      <4> QED
        BY <4>1, <4>2, <4>3, SymbolRows
    <3> QED
      BY <3>1, <3>2 DEF PromptInv
  <2>2. i \in 1 .. Len(prompt.symbols)
    BY <1>7, <2>1, LenProperties
  <2>3. prompt.symbols[i] \in SymbolEntry
    BY <2>1, <2>2, ElementOfSeq
  <2> QED
    BY <2>3 DEF SymbolEntry
<1>8. built \in {"none", "files", "tables", "sections"}
  BY DEF PromptInv
<1> QED
  BY <1>1, <1>2, <1>3, <1>4, <1>5, <1>6, <1>7, <1>8 DEF AnalysisTypeOK
\* Each stage of the analysis leaves its models, discoveries, context and tables in the
\* form the next one reads, for every repository and pull request.
THEOREM AnalysisTypeOKHolds == AnalysisSpec => []AnalysisTypeOK
<1>1. AnalysisInv /\ StageInv /\ DiscoveryInv /\ ReviewInv /\ PromptInv => AnalysisTypeOK
  BY AnalysisTyped
<1> QED
  BY <1>1, AnalysisInvariant, StageInvariant, DiscoveryInvariant, ReviewInvariant,
     PromptInvariant, PTL

\* Every changed symbol reaches the prompt, unless its file is noise or shares its base
\* name with another changed file: for every repository, pull request and limit.
THEOREM ChangesToldHolds == AnalysisSpec => []ChangesTold
<1>1. AnalysisInv /\ StageInv /\ ReviewInv /\ PromptInv => ChangesTold
  BY ToldOfChanges
<1> QED
  BY <1>1, AnalysisInvariant, StageInvariant, ReviewInvariant, PromptInvariant, PTL

\* So does every affected endpoint with a route of its own, as long as no limit is
\* reached.
THEOREM EndpointsToldHolds == AnalysisSpec => []EndpointsTold
<1>1. AnalysisInv /\ StageInv /\ ReviewInv /\ PromptInv => EndpointsTold
  BY ToldOfEndpoints
<1> QED
  BY <1>1, AnalysisInvariant, StageInvariant, ReviewInvariant, PromptInvariant, PTL

\* No index of the prompt leads nowhere, where a file may have a symbol at all: with a
\* limit of none an execution of an endpoint would refer to the first of no symbols.
THEOREM IndicesResolveHolds ==
  ASSUME MaxPerFile # 0
  PROVE  AnalysisSpec => []IndicesResolve
<1>1. AnalysisInv /\ StageInv /\ ReviewInv /\ PromptInv => IndicesResolve
  BY ResolvedIndices
<1> QED
  BY <1>1, AnalysisInvariant, StageInvariant, ReviewInvariant, PromptInvariant, PTL
=============================================================================
