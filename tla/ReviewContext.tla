--------------------------- MODULE ReviewContext ---------------------------
(***************************************************************************)
(* The review context compiler: what of the compiled change, of the impact *)
(* surface and of the discoveries a review is written from.  Any of the    *)
(* three may be missing.                                                   *)
(*                                                                         *)
(* A discovery has few pieces of evidence, so that the limit of ten        *)
(* references is not met and only their identifiers matter.                *)
(***************************************************************************)
EXTENDS Discovery

CONSTANT MaxInternal   \* symbols shown where no endpoint is affected

ASSUME ReviewAssumption == MaxInternal \in Nat

VARIABLES
  change,     \* ChangeContext.files: each file and the changes in it
  executions, \* ExecutionContext.entry_points
  insights    \* the discoveries, with the identifiers of their evidence

reviewVars == <<change, executions, insights>>

EmptyReview == change = <<>> /\ executions = <<>> /\ insights = <<>>

\* the sets as sequences, in any order
Orders(S) == {q \in [1 .. Cardinality(S) -> S] : ToSet(q) = S}

ChangesIn(f) == {c \in facts.symbols : c[3] = f}

\* the added symbols are grouped first, then the removed, then the modified ones
FirstKind(f) ==
  LET kinds == {c[2] : c \in ChangesIn(f)} IN
  IF "added" \in kinds THEN 1 ELSE IF "removed" \in kinds THEN 2 ELSE 3

FileOrders ==
  {q \in Orders({c[3] : c \in facts.symbols}) :
     \A i, j \in DOMAIN q : i < j => FirstKind(q[i]) <= FirstKind(q[j])}

\* one execution of one step for each affected endpoint
EndpointExecution(e) ==
  [method |-> e.method, path |-> e.path, handler |-> e.handler,
   changed |-> e.handler \in ChangedIds]

\* the changed symbols themselves, at most MaxInternal of them and sorted by their
\* identifiers, where no endpoint is affected: neither method nor route
InternalExecution(s) ==
  [method |-> None, path |-> s, handler |-> s, changed |-> TRUE]

ExecutionOrders ==
  LET internal == ChangedIds \intersect affected IN
  IF endpoints # {}
  THEN {[i \in DOMAIN q |-> EndpointExecution(entryOf[q[i]])] : q \in Orders(endpoints)}
  ELSE LET q == CHOOSE o \in Orders(internal) : TRUE IN
       {[i \in 1 .. Least(MaxInternal, Len(q)) |-> InternalExecution(q[i])]}

Insight(d) ==
  [kind |-> d.kind, about |-> d.about,
   references |-> {IF e[2] = None THEN e[1] ELSE e[2] : e \in d.evidence}]

CompileReview(haveChange, haveImpact, haveIR) ==
  /\ IF haveChange
     THEN \E q \in FileOrders :
            change' = [i \in DOMAIN q |-> [file |-> q[i], changes |-> ChangesIn(q[i])]]
     ELSE change' = <<>>
  /\ IF haveImpact
     THEN \E q \in ExecutionOrders : executions' = q
     ELSE executions' = <<>>
  /\ insights' = IF haveIR THEN [i \in DOMAIN found |-> Insight(found[i])] ELSE <<>>
=============================================================================
