---------------------------- MODULE PythonFacts ----------------------------
(***************************************************************************)
(* The structural facts of one Python file.  A visitor walks the syntax    *)
(* tree and hands every node to the indexing passes; it does not go into a *)
(* class, whose passes look at the body themselves.                        *)
(*                                                                         *)
(* The kinds of nodes, and what the passes read of each:                   *)
(*   function, async   name, routes (the routes its decorators give it)    *)
(*   class             name, bases                                         *)
(*   import            module, names                                       *)
(*   call              name (of the callee), receiver                      *)
(*   other             a statement or an expression that is none of these  *)
(***************************************************************************)
EXTENDS SyntaxTree

CONSTANTS
  EventMethods,  \* names of methods that send or handle an event
  ConfigCalls,   \* <<receiver, name>> of the calls that read a configuration key
  ModelBases,    \* base classes of persistent models
  TestNames,     \* names of functions and classes that say "test"
  TestBases      \* base classes of test classes

Functions_ == {"function", "async"}

Classes(t) == Nodes(t, {"class"}) \intersect Dispatched(t)

\* functions defined directly in the body of a class the passes see
Methods(t) ==
  {n \in Nodes(t, Functions_) : t[n].up \in Classes(t)}

\* PythonSymbolIndexPass: functions with their nested functions, classes, methods
SymbolsOf(t) ==
  {[name |-> t[n].name, kind |-> "function", parent |-> ""] :
     n \in Nodes(t, Functions_) \intersect Dispatched(t)}
  \union {[name |-> t[n].name, kind |-> "class", parent |-> ""] : n \in Classes(t)}
  \union {[name |-> t[n].name, kind |-> "method", parent |-> t[t[n].up].name] :
            n \in Methods(t)}

\* PythonImportIndexPass
ImportsOf(t) ==
  LET seen == Ascending(Nodes(t, {"import"}) \intersect Dispatched(t))
  IN [i \in DOMAIN seen |-> [module |-> t[seen[i]].module, names |-> t[seen[i]].names]]

\* _get_caller_info_optimized: the innermost function, and the class around it
\* unless another function comes first
CallerOf(t, n) == t[Innermost(Under(t, n, Functions_))].name

OwnerOf(t, n) ==
  LET f == Innermost(Under(t, n, Functions_))
      around == Under(t, f, Functions_ \union {"class"})
  IN IF around = {} \/ t[Innermost(around)].kind # "class" THEN ""
     ELSE t[Innermost(around)].name

\* PythonCallIndexPass: the calls the visitor sees and those of the classes it
\* sees; a call outside every function is dropped
CallSites(t) == {n \in Nodes(t, {"call"}) : Under(t, n, Functions_) # {}}

CallsOf(t) ==
  {[at |-> n, caller |-> CallerOf(t, n), owner |-> OwnerOf(t, n),
    callee |-> t[n].name, receiver |-> t[n].receiver] : n \in CallSites(t)}

\* PythonTypeIndexPass
TypesOf(t) ==
  FlattenSeq([n \in DOMAIN t |->
    IF n \in Classes(t)
    THEN [b \in DOMAIN t[n].bases |-> [source |-> t[n].name, target |-> t[n].bases[b], kind |-> "extends"]]
    ELSE <<>>])

\* PythonEntrypointIndexPass
RoutesOf(t) ==
  UNION {{[kind |-> "route", name |-> t[n].name, key |-> r] : r \in t[n].routes} :
           n \in Nodes(t, Functions_) \intersect Dispatched(t)}

\* PythonPersistenceIndexPass
ModelsOf(t) ==
  {[kind |-> "model", name |-> t[n].name, key |-> ""] :
     n \in {c \in Classes(t) : \E b \in DOMAIN t[c].bases : t[c].bases[b] \in ModelBases}}

\* PythonEventIndexPass and PythonConfigurationIndexPass: the function they look
\* for around a call is searched for below it, where there is none
EventsOf(t) ==
  {[kind |-> "event", name |-> "", key |-> t[n].receiver] :
     n \in {c \in Nodes(t, {"call"}) \intersect Dispatched(t) :
              t[c].receiver # "" /\ t[c].name \in EventMethods}}

ConfigsOf(t) ==
  {[kind |-> "config", name |-> "", key |-> t[n].receiver] :
     n \in {c \in Nodes(t, {"call"}) \intersect Dispatched(t) :
              <<t[c].receiver, t[c].name>> \in ConfigCalls}}

\* a test class: the methods stay inside the entry of the class
TestClasses(t) ==
  {c \in Classes(t) :
     \/ t[c].name \in TestNames
     \/ \E b \in DOMAIN t[c].bases : t[c].bases[b] \in TestBases}

\* PythonTestIndexPass
TestsOf(t) ==
  {[kind |-> "test", name |-> t[n].name, key |-> "function"] :
     n \in {f \in Nodes(t, Functions_) \intersect Dispatched(t) : t[f].name \in TestNames}}
  \union {[kind |-> "test", name |-> t[n].name, key |-> "class"] : n \in TestClasses(t)}

\* compile_with_visitor: what the passes leave in the builder of a file
FileIndex(t) ==
  [symbols |-> SymbolsOf(t), imports |-> ImportsOf(t), calls |-> CallsOf(t),
   types |-> TypesOf(t),
   constructs |-> RoutesOf(t) \union ModelsOf(t) \union EventsOf(t)
                  \union ConfigsOf(t) \union TestsOf(t)]

\* calls out of a function that is a symbol: not a method of a nested class, and
\* not a function inside a method
Listed(t, c) ==
  Innermost(Under(t, c.at, Functions_)) \in
    (Nodes(t, Functions_) \intersect Dispatched(t)) \union Methods(t)
=============================================================================
