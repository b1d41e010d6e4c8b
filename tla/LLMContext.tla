----------------------------- MODULE LLMContext -----------------------------
(***************************************************************************)
(* The LLM context compiler: the review context as tables that refer to    *)
(* one another by index.  Indices count from zero, and zero is also what   *)
(* a failed lookup yields.                                                 *)
(*                                                                         *)
(* Every execution has one step, whose location is empty and whose symbol  *)
(* is named by a number: none is noise, none is in a changed file, and     *)
(* chains are never compressed.                                            *)
(***************************************************************************)
EXTENDS ReviewContext

CONSTANTS
  Noise,        \* files of tests, tooling and builds
  BaseOf,       \* [Files -> base names], by which the string table finds a path
  KnownMethods, \* the methods the enumeration of the LLM context has
  KnownKinds,   \* the kinds of discovery it has
  MaxEndpoints, \* LLM_CONTEXT_MAX_ENDPOINTS
  MaxPerFile    \* LLM_CONTEXT_MAX_SYMBOLS_PER_FILE

ASSUME LLMAssumption ==
  /\ Noise \subseteq Files /\ {MaxEndpoints, MaxPerFile} \subseteq Nat
  /\ None \notin Nat

VARIABLES
  prompt,    \* LLMContext, built part by part
  retained,  \* the executions that are retained
  built      \* the last part that was built, or "none"

llmVars == <<prompt, retained, built>>

NoPrompt ==
  /\ prompt = [files |-> <<>>, symbols |-> <<>>, endpoints |-> <<>>, changes |-> <<>>,
               entries |-> <<>>, kinds |-> <<>>]
  /\ retained = <<>> /\ built = "none"

\* build_review_scope: files of noise are left out, with all that changed in them
Scope == Those(change, {i \in DOMAIN change : change[i].file \notin Noise})

\* the first execution of each method and path is retained
Key(x) == <<x.method, x.path>>
Retained ==
  Those(executions,
        {i \in DOMAIN executions :
           \A j \in DOMAIN executions : j < i => Key(executions[j]) # Key(executions[i])})

\* the file table
FileTable == [i \in DOMAIN Scope |-> Scope[i].file]

BuildFiles ==
  /\ built = "none" /\ built' = "files"
  /\ prompt' = [prompt EXCEPT !.files = FileTable]
  /\ retained' = Retained

\* Mutant of FileAt: positions from before the files of noise went
FileAtUnpruned(f) ==
  LET at == {i \in DOMAIN change : change[i].file = f} IN
  IF at = {} THEN None ELSE (CHOOSE i \in at : TRUE) - 1

\* file_idx_map: a path is found again by its base name, and the last path that
\* was added has it
FileAt(f) ==
  LET at == {i \in DOMAIN prompt.files :
               prompt.files[i] = f /\ \A j \in DOMAIN prompt.files :
                 j > i => BaseOf[prompt.files[j]] # BaseOf[f]} IN
  IF at = {} THEN None ELSE (CHOOSE i \in at : TRUE) - 1

OrZero(index) == IF index = None THEN 0 ELSE index

\* they are sorted by method and path: here in the order they come in
Selected == SubSeq(retained, 1, Least(MaxEndpoints, Len(retained)))

NumbersIn(i) == {c[1] : c \in Scope[i].changes}

\* the changed symbols, each number under the first file it changed in, then the
\* handlers of the selected executions, which are all put down to the first file,
\* up to the limit of a file
ChangedIn ==
  {p \in (DOMAIN Scope) \X ChangedIds :
     /\ p[2] \in NumbersIn(p[1])
     /\ \A j \in DOMAIN Scope : j < p[1] => p[2] \notin NumbersIn(j)}
ChangedOrders == {q \in Orders(ChangedIn) : \A j, k \in DOMAIN q : j < k => q[j][1] <= q[k][1]}
ChangedEntry(p) == [file |-> OrZero(FileAt(Scope[p[1]].file)), symbol |-> p[2]]

HandlerEntries ==
  LET new(i) ==
        /\ \A p \in ChangedIn : p[2] # Selected[i].handler
        /\ \A j \in DOMAIN Selected : j < i => Selected[j].handler # Selected[i].handler
      fresh == Those(Selected, {i \in DOMAIN Selected : new(i)})
      taken == Cardinality({p \in ChangedIn : ChangedEntry(p).file = 0})
      room == IF taken < MaxPerFile THEN MaxPerFile - taken ELSE 0 IN
  [k \in 1 .. Least(room, Len(fresh)) |-> [file |-> 0, symbol |-> fresh[k].handler]]

\* an unknown method is encoded as none
Encoded(x) == IF x.method \in KnownMethods THEN x.method ELSE None

BuildTables ==
  /\ built = "files" /\ built' = "tables"
  /\ \E q \in ChangedOrders : prompt' = [prompt EXCEPT
       !.symbols = [k \in DOMAIN q |-> ChangedEntry(q[k])] \o HandlerEntries,
       !.endpoints = [i \in DOMAIN Selected |->
                        [method |-> Encoded(Selected[i]), path |-> Selected[i].path]]]
  /\ UNCHANGED retained

\* Mutant of SymbolIndex: handlers are not entered in the map
ChangedIndex(s) ==
  LET at == {i \in DOMAIN prompt.symbols : prompt.symbols[i].symbol = s} IN
  IF at = {} \/ s \notin ChangedIds THEN None ELSE (CHOOSE i \in at : TRUE) - 1

\* symbol_id_map
SymbolIndex(s) ==
  LET at == {i \in DOMAIN prompt.symbols : prompt.symbols[i].symbol = s} IN
  IF at = {} THEN None ELSE (CHOOSE i \in at : TRUE) - 1

\* endpoint_idx_map, from what the table decodes to: the last entry has it
EndpointAt(x) ==
  LET at == {i \in DOMAIN prompt.endpoints :
               prompt.endpoints[i] = [method |-> x.method, path |-> x.path]} IN
  IF at = {} THEN None ELSE CHOOSE i \in at : \A j \in at : i >= j

\* an execution whose endpoint is not found again is left out
Found == {i \in DOMAIN retained : EndpointAt(retained[i]) # None}

\* Mutant of TracedEntries: indices count from one
EntriesFromOne ==
  LET traced == Those(retained, Found) IN
  [k \in DOMAIN traced |->
     [endpoint |-> EndpointAt(traced[k]), symbol |-> OrZero(SymbolIndex(traced[k].handler))]]

TracedEntries ==
  LET traced == Those(retained, Found) IN
  [k \in DOMAIN traced |->
     [endpoint |-> EndpointAt(traced[k]) - 1,
      symbol |-> OrZero(SymbolIndex(traced[k].handler))]]

\* what changed in a file, by symbol
IndicesOf(changes) == {SymbolIndex(c[1]) : c \in changes}

ChangeEntries ==
  LET kept == Those(Scope, {i \in DOMAIN Scope : FileAt(Scope[i].file) # None}) IN
  [k \in DOMAIN kept |->
     [file |-> FileAt(kept[k].file), symbols |-> IndicesOf(kept[k].changes)]]

\* of a discovery its kind and its measurements are kept, not its statement
KindOf(d) == IF d.kind \in KnownKinds THEN d.kind ELSE None

BuildSections ==
  /\ built = "tables" /\ built' = "sections"
  /\ prompt' = [prompt EXCEPT
       !.changes = ChangeEntries,
       !.entries = TracedEntries,
       !.kinds = [i \in DOMAIN insights |-> KindOf(insights[i])]]
  /\ UNCHANGED retained

LLMNext == BuildFiles \/ BuildTables \/ BuildSections

-----------------------------------------------------------------------------
\* A changed symbol reaches the prompt under the file it changed in, whatever the
\* symbol's kind of change and however the tables were filled: unless the file is
\* noise, or another changed file has its base name.
ChangesTold ==
  built = "sections" =>
    \A c \in facts.symbols :
      LET f == c[3] IN
      /\ f \notin Noise
      /\ \A d \in facts.symbols : d[3] # f => BaseOf[d[3]] # BaseOf[f]
      => \E i \in DOMAIN prompt.changes :
           /\ prompt.changes[i].file + 1 \in {j \in DOMAIN prompt.files : prompt.files[j] = f}
           /\ \E k \in DOMAIN prompt.symbols :
                prompt.symbols[k].symbol = c[1] /\ k - 1 \in prompt.changes[i].symbols

\* An affected endpoint reaches the prompt with an execution that leads to its own
\* handler: unless its method is not encoded, another affected endpoint has its
\* route, or a limit is reached.
EndpointsTold ==
  (built = "sections" /\ Len(executions) <= MaxEndpoints) =>
    \A n \in endpoints :
      LET e == entryOf[n] IN
      /\ e.method \in KnownMethods
      /\ \A m \in endpoints \ {n} : entryOf[m].path # e.path
      /\ \E k \in DOMAIN prompt.symbols : prompt.symbols[k].symbol = e.handler
      => \E i \in DOMAIN prompt.entries :
           /\ prompt.endpoints[prompt.entries[i].endpoint + 1] =
                [method |-> e.method, path |-> e.path]
           /\ prompt.symbols[prompt.entries[i].symbol + 1].symbol = e.handler

\* Every index of the context refers to a row of its table, the ones a failed lookup
\* yields included; only where no changed file is left has a symbol no file.
IndicesResolve ==
  built = "sections" =>
    /\ \A i \in DOMAIN prompt.symbols :
         prompt.files # <<>> => prompt.symbols[i].file + 1 \in DOMAIN prompt.files
    /\ \A i \in DOMAIN prompt.changes :
         /\ prompt.changes[i].file + 1 \in DOMAIN prompt.files
         /\ \A n \in prompt.changes[i].symbols : n + 1 \in DOMAIN prompt.symbols
    /\ \A i \in DOMAIN prompt.entries :
         /\ prompt.entries[i].endpoint + 1 \in DOMAIN prompt.endpoints
         /\ prompt.entries[i].symbol + 1 \in DOMAIN prompt.symbols
=============================================================================
