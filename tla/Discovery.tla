----------------------------- MODULE Discovery -----------------------------
(***************************************************************************)
(* The discovery compiler: statements about the operational model, found   *)
(* by passes, measured, ranked, compressed and sorted.                     *)
(*                                                                         *)
(* The impact surface holds no behaviors and no execution chains, so that  *)
(* of the passes that look for discoveries only parts of three find any.   *)
(* Importance is in hundredths.                                            *)
(***************************************************************************)
EXTENDS Operational, Sorting, SequencesExt

CONSTANTS
  Top,        \* symbols a pass names at most
  MinFan,     \* the least fan-in or fan-out worth a discovery
  MinGap,     \* the least fan-out that calls for an integration test
  MinGroup,   \* CompressionPass.MIN_GROUP_SIZE
  MinSurprise \* SurpriseDetectionPass.MIN_SURPRISE_RATIO

FoundKinds == {"fan_in", "fan_out", "boundary_invariant", "validation_gap"}

\* what the boundary pass claims
Claims == {"api-unchanged", "no-cross-service"}

ASSUME DiscoveryAssumption ==
  /\ {Top, MinFan, MinGap, MinGroup, MinSurprise} \subseteq Nat \ {0}
  /\ Nodes \intersect Claims = {}

VARIABLES
  step,     \* the discovery pass to run next, or "none", or "end"
  found,    \* the discoveries, in order
  emitted   \* history: the discoveries as the passes that look for them emit them

discVars == <<step, found, emitted>>

Discovered(kind, about, importance, evidence) ==
  [kind |-> kind, about |-> about, importance |-> importance, evidence |-> evidence,
   fanOut |-> 0, children |-> {}]

Identity(d) == <<d.kind, d.about>>

\* the symbols with the largest counts, in descending order; the order of equal
\* ones is that of a set of strings
Tops(count) ==
  LET worth == {n \in DOMAIN count : count[n] >= MinFan}
      size == IF Cardinality(worth) < Top THEN Cardinality(worth) ELSE Top IN
  {q \in [1 .. size -> worth] :
     /\ \A i, j \in 1 .. size : i < j => q[i] # q[j] /\ count[q[i]] >= count[q[j]]
     /\ \A n \in worth : (\A i \in 1 .. size : q[i] # n) =>
          \A i \in 1 .. size : count[q[i]] >= count[n]}

Least(a, b) == IF a < b THEN a ELSE b

\* the discoveries of one kind about nodes, in their order
About(kind, q, count) ==
  [i \in DOMAIN q |->
     Discovered(kind, q[i], Least(30 + 5 * count[q[i]], 95), {<<kind, q[i]>>})]

Runs(at, next) == step = at /\ step' = next

Dominant ==
  /\ Runs("dominant", "boundary")
  /\ LET d == ocm.dependency IN
     IF d = None
     THEN found' = <<>>
     ELSE \E i \in Tops(d.fanIn), o \in Tops(d.fanOut) :
            found' = About("fan_in", i, d.fanIn) \o About("fan_out", o, d.fanOut)
  /\ UNCHANGED emitted

\* total_changed > 0
AnyChanged == facts.symbols # {}

ApiUnchanged ==
  Discovered("boundary_invariant", "api-unchanged", 85,
             {"added", "removed", "modified", "api"} \X {None})

NoCrossService ==
  Discovered("boundary_invariant", "no-cross-service", 70, {<<"dependency", None>>})

\* Mutant of NoEndpoint: the endpoints the change reaches are not looked at
NoChangedEndpoint == ChangedEndpoints = {}

NoEndpoint == ocm.api = None \/ ocm.api.rest = {}
NoCrossing == ocm.dependency = None \/ ocm.dependency.crossing = {}

Boundary ==
  /\ Runs("boundary", "gap")
  /\ found' = found
       \o (IF AnyChanged /\ NoEndpoint THEN <<ApiUnchanged>> ELSE <<>>)
       \o (IF AnyChanged /\ NoCrossing THEN <<NoCrossService>> ELSE <<>>)
  /\ UNCHANGED emitted

\* the symbols of largest fan-out are those the dominant pass took, in its order
Gap ==
  /\ Runs("gap", "significance")
  /\ LET fan == ocm.dependency.fanOut
         high(d) == d.kind = "fan_out" /\ fan[d.about] >= MinGap
         gap(d) == Discovered("validation_gap", d.about, Least(50 + 5 * fan[d.about], 90),
                              {<<"fan_out", d.about>>, <<"validation", None>>})
         gaps == LET s == Those(found, {i \in DOMAIN found : high(found[i])}) IN
                 [i \in DOMAIN s |-> gap(s[i])] IN
     IF \/ ocm.dependency = None
        \/ ocm.validation # None /\ ocm.validation["integration"] # {}
     THEN found' = found
     ELSE found' = found \o gaps
  /\ emitted' = ToSet(found')

\* the measurements: those that are not about a symbol are the same for every
\* discovery of a run, whether the discovery had them already or not
Significance ==
  /\ Runs("significance", "ranking")
  /\ found' = [i \in DOMAIN found |->
       [found[i] EXCEPT !.fanOut =
          IF found[i].about \in Nodes /\ ocm.dependency # None
          THEN ocm.dependency.fanOut[found[i].about] ELSE 0]]
  /\ UNCHANGED emitted

\* the parts of the ranking vector in which discoveries of a run differ: a
\* validation gap, and the number of pieces of evidence
RankingKey(d) ==
  (IF d.kind = "validation_gap" THEN 100 ELSE 0) + Cardinality(d.evidence)

\* 1 - i / (n - 1) to the nearest hundredth
Position(i, n) ==
  IF n = 1 THEN 100 ELSE (100 * (n - i) + (n - 1) \div 2) \div (n - 1)

Ranking ==
  /\ Runs("ranking", "surprise")
  /\ LET ranked == SortedBy(found, [i \in DOMAIN found |-> -RankingKey(found[i])]) IN
     found' = [i \in DOMAIN ranked |->
       [ranked[i] EXCEPT !.importance = Position(i, Len(ranked))]]
  /\ UNCHANGED emitted

\* the component ratios: reach and propagation are zero, and no discovery has a
\* count of files
Surprising(d) ==
  LET changes == Cardinality(facts.symbols)
      crossings == IF ocm.dependency = None THEN 0
                   ELSE Cardinality(ocm.dependency.crossing)
      surface_ == IF ocm.api = None THEN 0 ELSE Cardinality(ocm.api.rest)
      atLeastOne(n) == IF n = 0 THEN 1 ELSE n IN
  \/ crossings >= MinSurprise * atLeastOne(changes)
  \/ d.fanOut >= MinSurprise * atLeastOne(Cardinality(ChangedEndpoints))
  \/ surface_ >= MinSurprise

\* Mutant of Boosted: no largest importance
BoostedFreely(n) == n + 20

\* what a surprising discovery gains, up to the largest importance
Boosted(n) == Least(n + 20, 100)

Surprise ==
  /\ Runs("surprise", "compression")
  /\ found' = [i \in DOMAIN found |->
       IF Surprising(found[i])
       THEN [found[i] EXCEPT !.importance = Boosted(found[i].importance)]
       ELSE found[i]]
  /\ UNCHANGED emitted

Members(k) == {i \in DOMAIN found : found[i].kind = k}
OfKind(k) == Those(found, Members(k))
Compressed == {k \in FoundKinds : Cardinality(Members(k)) >= MinGroup}

\* Mutant of Compress: the evidence of the first member stands for all
CompressFirst(group) ==
  [kind |-> "compressed", about |-> group[1].kind,
   importance |-> group[1].importance, evidence |-> group[1].evidence,
   fanOut |-> group[1].fanOut, children |-> {Identity(group[i]) : i \in DOMAIN group}]

\* the importance of the first members of a group, added up
Totals(group) ==
  LET total[k \in 0 .. Len(group)] ==
        IF k = 0 THEN 0 ELSE total[k - 1] + group[k].importance IN
  total

Compress(group) ==
  [kind |-> "compressed", about |-> group[1].kind,
   importance |-> (2 * Totals(group)[Len(group)] + Len(group)) \div (2 * Len(group)),
   evidence |-> UNION {group[i].evidence : i \in DOMAIN group},
   fanOut |-> group[1].fanOut,
   children |-> {Identity(group[i]) : i \in DOMAIN group}]

\* groups take the place of their members, after what is left, in the order in
\* which their kinds first come up
Compression ==
  /\ Runs("compression", "build")
  /\ LET left == {i \in DOMAIN found : found[i].kind \notin Compressed}
         firsts == {i \in DOMAIN found \ left : \A j \in Members(found[i].kind) : i <= j}
         groups == Those(found, firsts) IN
     found' = Those(found, left)
              \o [k \in DOMAIN groups |-> Compress(OfKind(groups[k].kind))]
  /\ UNCHANGED emitted

BuildIR ==
  /\ Runs("build", "end")
  /\ found' = SortedBy(found, [i \in DOMAIN found |-> -found[i].importance])
  /\ UNCHANGED emitted

DiscoveryNext ==
  \/ Dominant \/ Boundary \/ Gap \/ Significance
  \/ Ranking \/ Surprise \/ Compression \/ BuildIR

-----------------------------------------------------------------------------
IR == ToSet(found)

\* Nothing a pass found is lost on the way to the DiscoveryIR: each discovery is
\* in it, once, as itself or as a child of the group of its kind, and its evidence
\* with it; and nothing is in it that no pass found.
DiscoveriesKept ==
  step = "end" =>
    LET holders(d) == {i \in DOMAIN found :
          Identity(d) = Identity(found[i]) \/ Identity(d) \in found[i].children} IN
    /\ \A d \in emitted : /\ Cardinality(holders(d)) = 1
                          /\ \A i \in holders(d) : d.evidence \subseteq found[i].evidence
    /\ \A r \in IR :
         (IF r.kind = "compressed" THEN r.children ELSE {Identity(r)})
           \subseteq {Identity(d) : d \in emitted}
=============================================================================
