------------------------------ MODULE Analysis ------------------------------
(***************************************************************************)
(* The compilers as the pipeline runs them: each from what the earlier     *)
(* ones left, over one view of the repository, from the compiled change to *)
(* the context of the language model.                                      *)
(***************************************************************************)
EXTENDS LLMContext

CONSTANT Pulls  \* the versions a pull request may lie between: pairs of base and overlay

ASSUME AnalysisAssumption ==
  /\ Pulls \subseteq Bases(Row) \X Overlays(Row)
  /\ \A p \in Pulls : \A f \in Files : p[2].twin[f] \in (DOMAIN p[2].change) \union {None}
  /\ None \notin Row \union Names \union Files /\ IsFiniteSet(Files)

VARIABLE stage

analysisVars == <<changeVars, impactVars, opVars, discVars, reviewVars, llmVars, stage>>

Stages == {"change", "behavior", "operational", "discovery", "review", "llm", "done", "failed"}

\* _get_repository_capabilities: a language that supports everything, TypeScript,
\* and a repository in no registered language
AllOf(value) == [c \in {"symbols", "calls", "entrypoints", "persistence", "events", "tests"} |-> value]
Languages ==
  {AllOf(TRUE), AllOf(FALSE),
   [AllOf(TRUE) EXCEPT !.persistence = FALSE, !.events = FALSE, !.tests = FALSE]}

AnalysisTypeOK ==
  /\ ChangeTypeOK /\ ImpactTypeOK
  /\ caps \in Languages
  /\ entryOf \in [handlers -> EntryPoints]
  /\ pass \in DOMAIN After \union {"raised", "end"}
  /\ step \in {"none", "dominant", "boundary", "gap", "significance", "ranking",
               "surprise", "compression", "build", "end"}
  /\ \A i \in DOMAIN found :
       found[i].kind \in FoundKinds \union {"compressed"} /\ found[i].importance \in 0 .. 100
  /\ \A i \in DOMAIN change : change[i].file \in Files /\ change[i].changes \subseteq facts.symbols
  /\ \A i \in DOMAIN prompt.symbols : prompt.symbols[i].symbol \in Numbers
  /\ built \in {"none", "files", "tables", "sections"}
  /\ stage \in Stages

AnalysisInit ==
  /\ \E p \in Pulls : base = p[1] /\ head = p[2]
  /\ ChangeInit
  /\ caps \in Languages
  /\ changed = {} /\ handlers = {}
  /\ callers = [n \in Nodes |-> {}] /\ callees = [n \in Nodes |-> {}]
  /\ surfacesOf = [n \in Nodes |-> {}]
  /\ NoSurface
  /\ entryOf = <<>> /\ pass = "composition" /\ ocm = None
  /\ step = "none" /\ found = <<>> /\ emitted = {}
  /\ EmptyReview
  /\ NoPrompt
  /\ stage = "change"

Compare ==
  /\ stage = "change" /\ caps.symbols
  /\ ChangeNext
  /\ UNCHANGED <<impactVars, opVars, discVars, reviewVars, llmVars, stage>>

\* no language supports symbols: no model is compiled, only an empty context
NoModels ==
  /\ stage = "change" /\ ~caps.symbols
  /\ stage' = "review"
  /\ UNCHANGED <<changeVars, impactVars, opVars, discVars, reviewVars, llmVars>>

\* the tables and events of what the view shows, where a language supports them
Touched(x) ==
  IF Show(x) = None THEN {}
  ELSE {t \in Show(x).surfaces :
          (t \in Stores /\ caps.persistence) \/ (t \in Events /\ caps.events)}

\* the behavior compiler asks the view.  The last entry point of a handler is the
\* one the map keeps.
BeginBehavior ==
  /\ stage = "change" /\ caps.symbols /\ pending = {}
  /\ stage' = "behavior"
  /\ changed' = ChangedIds
  /\ callers' = [x \in Nodes |-> Callers(base, head, x)]
  /\ callees' = [x \in Nodes |-> Callees(base, head, x)]
  /\ surfacesOf' = [x \in Nodes |-> Touched(x)]
  /\ handlers' = {e.handler : e \in EntryPoints}
  /\ entryOf' \in {m \in [handlers' -> EntryPoints] : \A h \in handlers' : m[h].handler = h}
  /\ UNCHANGED <<changeVars, phase, queueUp, queueDown, visitedUp, visitedDown, surface,
                 caps, pass, ocm, discVars, reviewVars, llmVars>>

Traverse ==
  /\ stage = "behavior"
  /\ ImpactNext
  /\ stage' = IF phase' = "done" THEN "operational" ELSE stage
  /\ UNCHANGED <<changeVars, opVars, discVars, reviewVars, llmVars>>

\* a pass that raises ends the pipeline; the exception is raised again
Operate ==
  /\ stage = "operational"
  /\ OpNext
  /\ stage' = CASE pass' = "raised" -> "failed" [] pass' = "end" -> "discovery" [] OTHER -> stage
  /\ step' = IF pass' = "end" THEN "dominant" ELSE step
  /\ UNCHANGED <<changeVars, impactVars, found, emitted, reviewVars, llmVars>>

Discover ==
  /\ stage = "discovery"
  /\ DiscoveryNext
  /\ stage' = IF step' = "end" THEN "review" ELSE stage
  /\ UNCHANGED <<changeVars, impactVars, opVars, reviewVars, llmVars>>

Review ==
  /\ stage = "review"
  /\ CompileReview(caps.symbols, phase = "done", step = "end")
  /\ stage' = "llm"
  /\ UNCHANGED <<changeVars, impactVars, opVars, discVars, llmVars>>

ToLLM ==
  /\ stage = "llm"
  /\ LLMNext
  /\ stage' = IF built' = "sections" THEN "done" ELSE stage
  /\ UNCHANGED <<changeVars, impactVars, opVars, discVars, reviewVars>>

AnalysisNext ==
  \/ Compare \/ NoModels \/ BeginBehavior \/ Traverse
  \/ Operate \/ Discover \/ Review \/ ToLLM

\* the compilers run in one task and suspend nowhere
AnalysisSpec ==
  AnalysisInit /\ [][AnalysisNext]_analysisVars /\ WF_analysisVars(AnalysisNext)

-----------------------------------------------------------------------------
\* Callers that the view takes from the base are found across the two numberings: a
\* number that was changed, and that the head gives to a symbol, has all rows among
\* the affected ones that call the placeholder of that symbol's name, unless a limit
\* cuts them off.  The caller's own number must be used by nothing of the head and
\* by no placeholder, and its file must not be hidden.
CallersFound ==
  (stage = "operational" /\ MaxDepth > 0 /\ BelowLimit(visitedUp)) =>
    \A s \in ChangedIds : \A u, c \in Numbers :
      /\ head.rows[s] # None /\ base.named[u] = head.rows[s].name
      /\ base.rows[c] # None /\ u \in base.rows[c].calls
      /\ head.rows[c] = None /\ NameOf(base, head, c) = None
      /\ ~Hidden(head, base.rows[c].file)
      => c \in affected

\* The API pass returns a model for every change, as its description says.  Not so:
\* a new GET endpoint is listed under identifiers that cannot be compared.
ApiReturns == stage # "failed"

\* What the traversal found and what the change compiler found end up in one API
\* model: every endpoint it calls affected, and every endpoint that was added or
\* removed by the change, is listed there.
EndpointsListed ==
  (stage = "discovery" /\ caps.entrypoints) =>
    /\ \A h \in endpoints : \E e \in ocm.api.rest :
         e.path = entryOf[h].path /\ e.method = entryOf[h].method /\ e.id = Text(h)
    /\ \A c \in ChangedEndpoints : \E e \in ocm.api.rest : e.path = c[4][2] /\ e.id.of = c[1]

\* The review is not told that the API is unchanged where an endpoint is reached
\* from the change or was added or removed by it, nor that the change stays within
\* its service where an affected symbol calls another.
ClaimsJustified ==
  \A i \in DOMAIN insights :
    /\ insights[i].about = "api-unchanged" => endpoints = {} /\ ChangedEndpoints = {}
    /\ insights[i].about = "no-cross-service" =>
         \A n \in affected : callees[n] \subseteq {n}

\* Every analysis ends, with a context or with an exception.
Ends == <>(stage \in {"done", "failed"})
=============================================================================
